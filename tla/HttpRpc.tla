------------------------------- MODULE HttpRpc -------------------------------
(***************************************************************************)
(* A call over HTTP from any of the three clients to either server, which  *)
(* keeps CallContract.                                                     *)
(***************************************************************************)
EXTENDS HttpClient, RustHttpServer, GoHttpServer

httpRpcVars == <<httpVars, clientVars, rustServerVars, goServerVars>>

HttpRpcInit == HttpInit /\ HttpClientInit /\ RustServerInit /\ GoServerInit

ClientSteps(A) == A /\ UNCHANGED <<rustServerVars, goServerVars>>
RustServerSteps(A) == server = "rust" /\ A /\ UNCHANGED <<clientVars, goServerVars>>
GoServerSteps(A) == server = "go" /\ A /\ UNCHANGED <<clientVars, rustServerVars>>

ServerTask == RustServerSteps(RustServerTask) \/ GoServerSteps(ServeHTTP)
ServiceMethod == RustServerSteps(RustMethod) \/ GoServerSteps(GoMethod)
ServerDisconnect == RustServerSteps(Disconnect) \/ GoServerSteps(GoDisconnect)

HttpRpcNext ==
    \/ ClientSteps(ClientTask) \/ ClientSteps(Recv) \/ ClientSteps(Drop)
    \/ ServerTask \/ ServiceMethod \/ ServerDisconnect
    \/ HttpCut /\ UNCHANGED <<clientVars, rustServerVars, goServerVars>>

(***************************************************************************)
(* Tasks that can move are polled, connections carry what is written,      *)
(* hyper and net/http notice a closed connection, and the application      *)
(* keeps reading its stream.  A service method may take for ever.          *)
(***************************************************************************)
HttpRpcFairness ==
    /\ WF_httpRpcVars(ClientSteps(ClientTask))
    /\ WF_httpRpcVars(ClientSteps(Recv))
    /\ WF_httpRpcVars(ServerTask)
    /\ WF_httpRpcVars(ServerDisconnect)

HttpRpcSpec == HttpRpcInit /\ [][HttpRpcNext]_httpRpcVars /\ HttpRpcFairness

HttpRpcTypeOK ==
    /\ conn \in {"none", "up", "closed", "cut"}
    /\ head.status \in {0, 200, 400, 404, 500}
    /\ Len(made) <= MaxItems + 1 /\ Len(got) <= Len(made) + 1
    /\ HttpClientTypeOK /\ RustServerTypeOK /\ GoServerTypeOK

Contract == INSTANCE CallContract WITH
    Calls <- {1}, made <- <<made>>, got <- <<got>>, up <- conn # "cut",
    Outcomes <- {Value("response", 0), Value("end", 0)}
                \cup {Value("item", n) : n \in 1..MaxItems}
                \cup {Value("error", c) : c \in 1..3}

\* The caller gets what the service method of its call produced, as
\* CallContract says, although head, messages and their lengths come in
\* pieces, the caller stops reading, and either end goes away.
HttpImplementsContract == Contract!Spec

\* A Rust or TypeScript caller that is told the end of its stream has read
\* every item of a method that ended it: a response that was cut short is
\* an error to it.  (CallContract lets a caller whose connection is down be
\* told either, as the packet clients do, and HttpClient of Go.)
EndsAreHonest ==
    client # "go" /\ got # <<>> /\ got[Len(got)] = Closed =>
        /\ made # <<>> /\ made[Len(made)].type = "end"
        /\ Len(got) = Len(made)

\* A dropped call stops its service method, which the Rust server drops and
\* whose context the Go server cancels, and the task that reads its stream;
\* but the goroutine of Go stays for ever if its channel is full.
DroppedCallsStop ==
    (phase = "dropped") ~>
        /\ handler \notin Running
        /\ goroutine = "working" => ctx = "done"
        /\ reader = "reading" => client = "go" /\ ~Room

\* A caller that keeps reading catches up with the service method, again
\* and again, as long as the connection is not cut: no outcome waits for
\* the next one, or for the method to return.
OutcomesArrive ==
    []<>(Len(got) = Len(made) \/ phase = "dropped" \/ conn = "cut")
=============================================================================

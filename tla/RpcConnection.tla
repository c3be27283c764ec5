----------------------------- MODULE RpcConnection -----------------------------
(***************************************************************************)
(* One connection of an RPC client to the daemon: one call at a time, a    *)
(* handler that reads and answers the requests in turn, deadlines after    *)
(* which an answer may still come, calls that fail, and a server that      *)
(* winds down at any point.                                                *)
(***************************************************************************)
EXTENDS Integers, Sequences

CONSTANT MaxCalls    \* bound on the calls of the connection

ASSUME RpcAssumption == MaxCalls \in Nat

VARIABLES
    nextID,          \* the id of the last call
    waiting,         \* whether that call waits for its answer
    returned,        \* the last result a call returned: the call, and whose it was
    requests,        \* frames on their way to the handler
    answers,         \* frames on their way back
    torn,            \* a deadline cut the reading of a frame: no frame is found again
    handler,         \* the call the handler works on, 0 between calls, -1 when ended
    serverOpen,      \* whether the server's end is open
    late             \* history: a call has returned before its answer came

rpcVars == <<nextID, waiting, returned, requests, answers, torn, handler, serverOpen, late>>

RpcInit ==
    /\ nextID = 0 /\ waiting = FALSE /\ returned = [call |-> 0, of |-> 0]
    /\ requests = <<>> /\ answers = <<>> /\ handler = 0 /\ serverOpen = TRUE
    /\ torn = FALSE /\ late = FALSE

\* The id is used up even when the write fails on a closed connection.
Call ==
    /\ ~waiting /\ nextID < MaxCalls
    /\ nextID' = nextID + 1
    /\ waiting' = serverOpen
    /\ requests' = IF serverOpen THEN Append(requests, nextID + 1) ELSE requests
    /\ UNCHANGED <<returned, answers, torn, handler, serverOpen, late>>

ReceiveAny ==                                                          \* mutant
    /\ waiting /\ answers # <<>> /\ ~torn
    /\ waiting' = FALSE /\ answers' = Tail(answers)
    /\ returned' = IF Head(answers).ok THEN [call |-> nextID, of |-> Head(answers).id]
                                       ELSE returned
    /\ UNCHANGED <<nextID, requests, torn, handler, serverOpen, late>>

\* An error is passed on as it is; a result only under the id of this call.
Receive ==
    /\ waiting /\ answers # <<>> /\ ~torn
    /\ waiting' = FALSE /\ answers' = Tail(answers)
    /\ returned' = IF Head(answers).ok /\ Head(answers).id = nextID
                   THEN [call |-> nextID, of |-> Head(answers).id] ELSE returned
    /\ UNCHANGED <<nextID, requests, torn, handler, serverOpen, late>>

\* The caller's deadline, in the middle of a frame or not, or the end of the stream.
\* The connection stays in use.
CallFails ==
    /\ waiting /\ waiting' = FALSE /\ late' = TRUE
    /\ torn' \in {torn, torn \/ answers # <<>>}
    /\ UNCHANGED <<nextID, returned, requests, answers, handler, serverOpen>>

ReadRequest ==
    /\ serverOpen /\ handler = 0 /\ requests # <<>>
    /\ handler' = Head(requests) /\ requests' = Tail(requests)
    /\ UNCHANGED <<nextID, waiting, returned, answers, torn, serverOpen, late>>

\* A service call that fails, panics or sees its context cancelled is answered
\* with an error.
WriteAnswer(ok) ==
    /\ serverOpen /\ handler > 0
    /\ handler' = 0
    /\ answers' = Append(answers, [id |-> handler, ok |-> ok])
    /\ UNCHANGED <<nextID, waiting, returned, requests, torn, serverOpen, late>>

\* Serve's context ends: the sweep closes the connection ...
Sweep ==
    /\ serverOpen /\ serverOpen' = FALSE
    /\ UNCHANGED <<nextID, waiting, returned, requests, answers, torn, handler, late>>

\* ... and its handler returns at the next read or write.
HandlerReturns ==
    /\ ~serverOpen /\ handler # -1 /\ handler' = -1
    /\ UNCHANGED <<nextID, waiting, returned, requests, answers, torn, serverOpen, late>>

RpcNext ==
    \/ Call \/ Receive \/ CallFails \/ ReadRequest \/ Sweep \/ HandlerReturns
    \/ \E ok \in BOOLEAN : WriteAnswer(ok)

RpcSpec == RpcInit /\ [][RpcNext]_rpcVars

\* A call never returns another call's result, however late that one's answer comes on
\* the connection they share; and as long as every call stayed for its answer, whatever
\* answer there is, an error that is passed on unchecked as well, is the answer to the
\* call that waits: the check of the ids is for the streams that a deadline left behind
\* (client.go:90-99).
AnswersMatch ==
    /\ returned.call = returned.of
    /\ ~late /\ answers # <<>> =>
          waiting /\ Len(answers) = 1 /\ answers[1].id = nextID
================================================================================

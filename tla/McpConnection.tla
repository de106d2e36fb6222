--------------------------- MODULE McpConnection ---------------------------
(***************************************************************************)
(* A connection to an MCP server, in memory, over the stdio of a child     *)
(* process, or over HTTP (packages/mcp transports.ts), with the JSON-RPC   *)
(* messages it reads (protocol.ts).  Requests overlap; answers come in any *)
(* order, twice, late, malformed or not at all, and the process may end.   *)
(***************************************************************************)
EXTENDS Naturals, Sequences, FiniteSets

CONSTANTS MaxRequests,  \* requests made over a connection
          MaxLines      \* lines on the server's output that are not yet read

ASSUME ConnectionConstants == MaxRequests \in Nat /\ MaxLines \in Nat

VARIABLES transport,  \* "in-memory", "stdio" or "http"
          link,       \* "new", "open", "gone" (the process has ended) or "closed"
          issued,     \* requests made so far; nextId is one more
          pending,    \* the request table of the stdio connection
          timers,     \* requests whose timer runs
          outcome,    \* what each request's promise settled with
          received,   \* requests that reached the server
          answered,   \* requests the server has sent a result for
          output      \* stdio: what the server wrote and the client has not read

connectionVars == <<transport, link, issued, pending, timers, outcome, received,
                    answered, output>>

RequestIds == 1..MaxRequests
Stray == 0  \* an id no request has

(***************************************************************************)
(* Messages.  Each member of the envelope is absent, valid or invalid.     *)
(***************************************************************************)
EnvelopeMembers == {"jsonrpc", "id", "method", "params", "result", "error"}
Message(id, members) ==
    [number |-> id,
     is |-> [m \in EnvelopeMembers |-> IF m \in members THEN "valid" ELSE "absent"]]
Result(id) == Message(id, {"jsonrpc", "id", "result"})
Failure(id) == Message(id, {"jsonrpc", "id", "error"})
Notification == Message(Stray, {"jsonrpc", "method"})
Garbled == [number |-> Stray, is |-> [m \in EnvelopeMembers |-> "invalid"]]
Ambiguous(id) == Message(id, {"jsonrpc", "id", "result", "error"})

\* parseJsonRpcMessage: a call has a method, anything else must be a response.
ParseCall(is) ==
    IF "invalid" \in {is["method"], is["params"]} THEN "error"
    ELSE IF is["id"] = "absent" THEN "notification"
    ELSE IF is["id"] = "invalid" \/ is["result"] # "absent" \/ is["error"] # "absent" THEN "error"
    ELSE "request"
ParseResponse(is) ==
    IF is["id"] # "valid" \/ (is["result"] = "absent" <=> is["error"] = "absent") THEN "error"
    ELSE IF is["error"] = "invalid" THEN "error"
    ELSE "response"
Parse(message) ==
    IF message.is["jsonrpc"] # "valid" THEN "error"
    ELSE IF message.is["method"] # "absent" THEN ParseCall(message.is)
    ELSE ParseResponse(message.is)

\* unwrapResponse
Unwrapped(message) == IF message.is["error"] = "absent" THEN "result" ELSE "serverError"

ConnectionInit ==
    /\ transport \in {"in-memory", "stdio", "http"}
    /\ link = "new"
    /\ issued = 0
    /\ pending = {} /\ timers = {}
    /\ outcome = [i \in RequestIds |-> "none"]
    /\ received = {} /\ answered = {}
    /\ output = <<>>

\* A promise keeps the first outcome it is given.
Settled(ids, how) ==
    [i \in RequestIds |-> IF i \in ids /\ outcome[i] = "none" THEN how ELSE outcome[i]]

\* connect(): starting the process, or opening the in-memory pair.
Connect ==
    /\ link = "new"
    /\ link' = "open"
    /\ UNCHANGED <<transport, issued, pending, timers, outcome, received, answered, output>>

\* A connection that throws at once: one never connected (HTTP needs no
\* connect) or closed.  An ended process is not noticed here.
Refuses == link = "closed" \/ (link = "new" /\ transport # "http")

\* request(): stdio looks at an aborted signal before it sends, HTTP not at
\* all, and in memory the peer has the request by then.
Request(aborted) ==
    /\ issued < MaxRequests
    /\ issued' = issued + 1
    /\ \/ /\ Refuses
          /\ outcome' = Settled({issued'}, "refused")
          /\ UNCHANGED <<pending, timers, received>>
       \/ /\ ~Refuses /\ aborted /\ transport # "http"
          /\ outcome' = Settled({issued'}, "aborted")
          /\ received' = IF transport = "in-memory" THEN received \cup {issued'} ELSE received
          /\ UNCHANGED <<pending, timers>>
       \/ /\ ~Refuses /\ ~(aborted /\ transport # "http")
          /\ timers' = timers \cup {issued'}
          /\ pending' = IF transport = "stdio" THEN pending \cup {issued'} ELSE pending
          /\ received' = IF link = "gone" THEN received ELSE received \cup {issued'}
          /\ UNCHANGED outcome
    /\ UNCHANGED <<transport, link, answered, output>>

\* Settles requests and clears their timers.
Settle(ids, how) ==
    /\ outcome' = Settled(ids, how)
    /\ timers' = timers \ ids

\* Mutant: the timer leaves its request in the table.
TimesOutKeepsEntry(i) ==
    /\ i \in timers
    /\ Settle({i}, "timeout")
    /\ UNCHANGED <<transport, link, issued, pending, received, answered, output>>
TimesOut(i) ==
    /\ i \in timers
    /\ Settle({i}, "timeout")
    /\ pending' = pending \ {i}
    /\ UNCHANGED <<transport, link, issued, received, answered, output>>

\* The caller's signal; HTTP reports it as a timeout, but the fetch ends.
Aborted(i) ==
    /\ i \in timers
    /\ Settle({i}, "aborted")
    /\ pending' = pending \ {i}
    /\ UNCHANGED <<transport, link, issued, received, answered, output>>

\* The write to the process's input fails.
WriteFails(i) ==
    /\ i \in pending /\ link = "gone"
    /\ Settle({i}, "writeError")
    /\ pending' = pending \ {i}
    /\ UNCHANGED <<transport, link, issued, received, answered, output>>

(* The stdio server: its output is read line by line *)
ServerWrites(message) ==
    /\ transport = "stdio" /\ link = "open" /\ Len(output) < MaxLines
    /\ output' = Append(output, message)
    /\ answered' = IF Parse(message) = "response" THEN answered \cup {message.number} ELSE answered
    /\ UNCHANGED <<transport, link, issued, pending, timers, outcome, received>>
ServerMessages ==
    {Garbled, Notification, Result(Stray)}
      \cup UNION {{Result(i), Failure(i), Ambiguous(i)} : i \in received}

\* Mutant: an answer goes to the request that waits longest.
ReadLineInOrder ==
    /\ output # <<>>
    /\ output' = Tail(output)
    /\ LET kind == Parse(Head(output))
           oldest == {i \in pending : \A j \in pending : i <= j}
       IN  CASE kind = "response" -> /\ pending' = pending \ oldest
                                     /\ Settle(oldest, Unwrapped(Head(output)))
             [] kind = "error" -> pending' = {} /\ Settle(pending, "malformed")
             [] OTHER -> UNCHANGED <<pending, timers, outcome>>
    /\ UNCHANGED <<transport, link, issued, received, answered>>

\* onData, one line: a response settles the request of its id, if that still
\* waits; a malformed line settles them all; anything else is ignored.
ReadLine ==
    /\ output # <<>>
    /\ output' = Tail(output)
    /\ LET kind == Parse(Head(output))
           own == pending \cap {Head(output).number}
       IN  CASE kind = "response" -> /\ pending' = pending \ own
                                     /\ Settle(own, Unwrapped(Head(output)))
             [] kind = "error" -> pending' = {} /\ Settle(pending, "malformed")
             [] OTHER -> UNCHANGED <<pending, timers, outcome>>
    /\ UNCHANGED <<transport, link, issued, received, answered>>

\* The process ends or could not be started: all waiting requests fail, what it
\* wrote before can still be read, and the connection keeps the dead child.
ProcessEnds ==
    /\ transport = "stdio" /\ link = "open"
    /\ link' = "gone"
    /\ pending' = {}
    /\ Settle(pending, "processEnded")
    /\ UNCHANGED <<transport, issued, received, answered, output>>

\* In memory and over HTTP an answer belongs to its call; HTTP does not compare
\* its id, in memory it is the request's own.
PeerAnswers(i, message) ==
    /\ transport # "stdio" /\ i \in received /\ i \in timers
    /\ Settle({i}, IF Parse(message) = "response" THEN Unwrapped(message) ELSE "malformed")
    /\ answered' = IF Parse(message) = "response" THEN answered \cup {i} ELSE answered
    /\ UNCHANGED <<transport, link, issued, pending, received, output>>
PeerMessages(i) == {Result(i), Failure(i), Garbled, Notification}

\* close(): only stdio has requests to reject.
Close ==
    /\ link # "closed"
    /\ link' = "closed"
    /\ pending' = {}
    /\ Settle(pending, "closed")
    /\ output' = <<>>
    /\ UNCHANGED <<transport, issued, received, answered>>

ConnectionNext ==
    \/ Connect
    \/ \E aborted \in BOOLEAN : Request(aborted)
    \/ \E i \in RequestIds :
          \/ TimesOut(i)
          \/ Aborted(i)
          \/ WriteFails(i)
          \/ \E message \in PeerMessages(i) : PeerAnswers(i, message)
    \/ \E message \in ServerMessages : ServerWrites(message)
    \/ ReadLine
    \/ ProcessEnds
    \/ Close

ConnectionSpec == ConnectionInit /\ [][ConnectionNext]_connectionVars

\* The table and the timers are exactly the requests nobody has answered, on
\* every path: answered, failed, malformed, timed out, aborted, ended, closed.
PendingIsUnsettled ==
    /\ timers = {i \in 1..issued : outcome[i] = "none"}
    /\ pending = IF transport = "stdio" THEN timers ELSE {}

\* A request that succeeds got the server's answer to itself, with answers out of
\* order, repeated, late and for requests that no longer wait.
ResultIsOwn ==
    \A i \in RequestIds : outcome[i] = "result" => i \in received \cap answered
=============================================================================

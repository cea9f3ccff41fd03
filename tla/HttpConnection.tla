--------------------------- MODULE HttpConnection ---------------------------
(***************************************************************************)
(* http_server and http_connection (src/src/http_server.cpp,               *)
(* src/src/http_connection.cpp) with the one handler main() gives them,    *)
(* register_moudle::availability_check_httpd.  A connection reads a        *)
(* request and hands it to the handler; the response is written from the   *)
(* database's thread, while the connection's own thread may already read   *)
(* the next request into the same m_http_request.                          *)
(***************************************************************************)
EXTENDS Naturals, Sequences

CONSTANTS
    Conns,
    MaxInputs,  \* bound: headers that arrive on one connection
    LineFeed, Garbage

\* A request: whether its method is POST, what its Content-Length says (zero
\* also when it says nothing sensible, big from 64 KiB on), whether it asks to
\* keep the connection, and whether its URI has a handler.
Lengths == {"zero", "small", "big"}
Requests == [post : BOOLEAN, length : Lengths \union {"absent"}, keep : BOOLEAN, known : BOOLEAN]

\* What ends in an empty line: a request, one after a stray line feed, or
\* something that is no request.
Inputs == Requests \union {LineFeed, Garbage}

ASSUME HttpAssumption == MaxInputs \in Nat /\ LineFeed \notin Requests /\ Garbage \notin Requests

VARIABLES
    sock,       \* "new", "open" or "closed"
    abort,      \* m_abort
    managed,    \* m_connections
    accepting,  \* an async_accept is in progress
    rd,         \* the read operation and its handler, see RdStates
    input,      \* what the last read of headers delivered
    parsed,     \* m_request_parser has accepted a request before
    req,        \* m_http_request
    owed,       \* calls of write_response the database's thread has to make
    flight,     \* writes of a response in progress
    landed,     \* handle_write_http calls to come: TRUE if the write succeeded
    served,     \* history: requests handed to the handler
    answered,   \* history: responses sent
    cut,        \* history: connections a write of which failed
    inputs      \* bound's counter: headers that arrived

hvars == <<sock, abort, managed, accepting, rd, input, parsed, req, owed, flight, landed,
           served, answered, cut, inputs>>
request == <<input, parsed, req, inputs>>
response == <<flight, landed, answered, cut>>
life == <<sock, abort, managed>>

RdStates == {"none", "headers", "gotHeaders", "body", "gotBody", "failed"}

Init ==
    /\ sock = [c \in Conns |-> "new"]
    /\ abort = {} /\ managed = {} /\ cut = {}
    /\ accepting = TRUE
    /\ rd = [c \in Conns |-> "none"]
    /\ input = [c \in Conns |-> Garbage]
    /\ parsed = {}
    /\ req = [c \in Conns |-> [post |-> FALSE, length |-> "absent", keep |-> FALSE, known |-> FALSE]]
    /\ owed = [c \in Conns |-> 0] /\ flight = [c \in Conns |-> 0]
    /\ landed = [c \in Conns |-> <<>>]
    /\ served = [c \in Conns |-> 0] /\ answered = [c \in Conns |-> 0]
    /\ inputs = [c \in Conns |-> 0]

Add(f, c, n) == [f EXCEPT ![c] = @ + n]
Subtract(f, c) == [f EXCEPT ![c] = @ - 1]

\* handle_accept: start the connection, which reads headers, and accept again.
Accept(c) ==
    /\ accepting /\ sock[c] = "new"
    /\ sock' = [sock EXCEPT ![c] = "open"]
    /\ abort' = abort \ {c}
    /\ managed' = managed \union {c}
    /\ rd' = [rd EXCEPT ![c] = "headers"]
    /\ UNCHANGED <<accepting, request, owed, response, served>>

\* handle_accept with an error returns, and nothing is accepted any more.
AcceptError ==
    /\ accepting
    /\ accepting' = FALSE
    /\ UNCHANGED <<life, rd, request, owed, response, served>>

\* Mutant: the connection stays in the set.
StopNoErase(c) ==
    /\ abort' = abort \union {c}
    /\ sock' = [sock EXCEPT ![c] = "closed"]
    /\ UNCHANGED managed

\* http_connection_manager::stop() and the end of the handler that calls it.
Stop(c) ==
    /\ managed' = managed \ {c}
    /\ abort' = abort \union {c}
    /\ sock' = [sock EXCEPT ![c] = "closed"]

-----------------------------------------------------------------------------
(* Reading                                                                   *)

HeadersArrive(c) ==
    /\ rd[c] = "headers" /\ sock[c] = "open" /\ inputs[c] < MaxInputs
    /\ rd' = [rd EXCEPT ![c] = "gotHeaders"]
    /\ \E i \in Inputs : input' = [input EXCEPT ![c] = i]
    /\ inputs' = Add(inputs, c, 1)
    /\ UNCHANGED <<life, accepting, parsed, req, owed, response, served>>

BodyArrives(c) ==
    /\ rd[c] = "body" /\ sock[c] = "open"
    /\ rd' = [rd EXCEPT ![c] = "gotBody"]
    /\ UNCHANGED <<life, accepting, request, owed, response, served>>

\* The peer is gone, or the socket was closed under the read.
ReadFails(c) ==
    /\ rd[c] \in {"headers", "body"}
    /\ rd' = [rd EXCEPT ![c] = "failed"]
    /\ UNCHANGED <<life, accepting, request, owed, response, served>>

HandleReadError(c) ==
    /\ rd[c] = "failed" \/ (rd[c] \in {"gotHeaders", "gotBody"} /\ c \in abort)
    /\ Stop(c)
    /\ rd' = [rd EXCEPT ![c] = "none"]
    /\ UNCHANGED <<accepting, request, owed, response, served>>

\* m_request_parser.parse(): the parser starts where the last request left it,
\* at the final line feed. There it takes a line feed for the end of the
\* request that m_http_request still holds, and nothing else.
Parses(c) ==
    IF c \in parsed THEN input[c] = LineFeed ELSE input[c] \in Requests
Parsed(c) == IF c \in parsed THEN req[c] ELSE input[c]

\* content_length has no value before a Content-Length header sets it.
LengthOf(r) == IF r.length = "absent" THEN Lengths ELSE {r.length}

\* Mutant: the connection is kept reading, whatever the request asks.
ServeReads(c, r) ==
    /\ served' = Add(served, c, 1)
    /\ owed' = Add(owed, c, 1)
    /\ rd' = [rd EXCEPT ![c] = "headers"]

\* Mutant: database::availability_check posts both its results.
ServeTwice(c, r) ==
    /\ served' = Add(served, c, 1)
    /\ owed' = Add(owed, c, 2)
    /\ rd' = [rd EXCEPT ![c] = IF r.keep THEN "headers" ELSE "none"]

\* handle_request finds a handler, which has the database post the response;
\* then the next headers are read if the connection is to be kept.
Serve(c, r) ==
    /\ served' = Add(served, c, 1)
    /\ owed' = Add(owed, c, 1)
    /\ rd' = [rd EXCEPT ![c] = IF r.keep THEN "headers" ELSE "none"]

Ready(c) == rd[c] = "gotHeaders" /\ c \notin abort

Store(c) ==
    /\ parsed' = parsed \union {c}
    /\ req' = [req EXCEPT ![c] = Parsed(c)]
    /\ UNCHANGED <<input, inputs>>

\* handle_read_headers: not a request, a POST of a length that is refused, or
\* no handler for the URI (of a POST whose body came along, too).
Refuse(c) ==
    /\ Ready(c)
    /\ \/ ~Parses(c) /\ UNCHANGED request
       \/ /\ Parses(c) /\ Store(c)
          /\ IF Parsed(c).post
             THEN \E n \in LengthOf(Parsed(c)) : n # "small" \/ ~Parsed(c).known
             ELSE ~Parsed(c).known
    /\ Stop(c)
    /\ rd' = [rd EXCEPT ![c] = "none"]
    /\ UNCHANGED <<accepting, owed, response, served>>

\* handle_read_headers: anything but a POST, or a POST whose body is there.
HandleRequest(c) ==
    /\ Ready(c) /\ Parses(c) /\ Parsed(c).known
    /\ Parsed(c).post => "small" \in LengthOf(Parsed(c))
    /\ Store(c)
    /\ Serve(c, Parsed(c))
    /\ UNCHANGED <<life, accepting, response>>

\* handle_read_headers: the body of a POST is still to come.
ReadBody(c) ==
    /\ Ready(c) /\ Parses(c) /\ Parsed(c).post /\ "small" \in LengthOf(Parsed(c))
    /\ Store(c)
    /\ rd' = [rd EXCEPT ![c] = "body"]
    /\ UNCHANGED <<life, accepting, owed, response, served>>

\* handle_read_body
HandleReadBody(c) ==
    /\ rd[c] = "gotBody" /\ c \notin abort
    /\ IF req[c].known
       THEN Serve(c, req[c]) /\ UNCHANGED life
       ELSE Stop(c) /\ rd' = [rd EXCEPT ![c] = "none"] /\ UNCHANGED <<owed, served>>
    /\ UNCHANGED <<accepting, request, response>>

-----------------------------------------------------------------------------
(* The response                                                              *)

\* Mutant: no response on a connection that already reads its next request.
WriteResponseIdle(c) ==
    /\ owed[c] > 0
    /\ owed' = Subtract(owed, c)
    /\ IF rd[c] = "none" THEN flight' = Add(flight, c, 1) ELSE UNCHANGED flight
    /\ UNCHANGED <<life, accepting, rd, request, landed, answered, cut, served>>

\* write_response, on the database's thread.
WriteResponse(c) ==
    /\ owed[c] > 0
    /\ owed' = Subtract(owed, c)
    /\ flight' = Add(flight, c, 1)
    /\ UNCHANGED <<life, accepting, rd, request, landed, answered, cut, served>>

WriteCompletes(c) ==
    /\ flight[c] > 0 /\ sock[c] = "open"
    /\ flight' = Subtract(flight, c)
    /\ landed' = [landed EXCEPT ![c] = Append(@, TRUE)]
    /\ answered' = Add(answered, c, 1)
    /\ UNCHANGED <<life, accepting, rd, request, owed, cut, served>>

WriteFails(c) ==
    /\ flight[c] > 0
    /\ flight' = Subtract(flight, c)
    /\ landed' = [landed EXCEPT ![c] = Append(@, FALSE)]
    /\ cut' = cut \union {c}
    /\ UNCHANGED <<life, accepting, rd, request, owed, answered, served>>

\* Mutant: only a failed write ends the connection.
HandleWriteKeeps(c) ==
    /\ landed[c] # <<>>
    /\ landed' = [landed EXCEPT ![c] = Tail(@)]
    /\ IF ~Head(landed[c]) \/ c \in abort THEN Stop(c) ELSE UNCHANGED life
    /\ UNCHANGED <<accepting, rd, request, owed, flight, answered, cut, served>>

\* handle_write_http: on an error, and after a request that does not keep the
\* connection, it is stopped.
HandleWriteHttp(c) ==
    /\ landed[c] # <<>>
    /\ landed' = [landed EXCEPT ![c] = Tail(@)]
    /\ IF ~Head(landed[c]) \/ c \in abort \/ ~req[c].keep THEN Stop(c) ELSE UNCHANGED life
    /\ UNCHANGED <<accepting, rd, request, owed, flight, answered, cut, served>>

-----------------------------------------------------------------------------
\* Nothing of the server holds c any more.
Released(c) ==
    c \notin managed /\ rd[c] = "none" /\ owed[c] = 0 /\ flight[c] = 0 /\ landed[c] = <<>>

\* Every client is gone, or was never accepted.
Done ==
    /\ \A c \in Conns : Released(c) /\ (sock[c] = "closed" \/ ~accepting)
    /\ UNCHANGED hvars

Next ==
    \/ AcceptError \/ Done
    \/ \E c \in Conns :
        \/ Accept(c) \/ HeadersArrive(c) \/ BodyArrives(c) \/ ReadFails(c)
        \/ HandleReadError(c) \/ Refuse(c) \/ HandleRequest(c) \/ ReadBody(c)
        \/ HandleReadBody(c) \/ WriteResponse(c) \/ WriteCompletes(c) \/ WriteFails(c)
        \/ HandleWriteHttp(c)

Spec == Init /\ [][Next]_hvars

\* The threads run their handlers and the database answers; operations on a
\* closed socket fail. Nothing is assumed of the peers.
ReadAborted(c) == sock[c] = "closed" /\ ReadFails(c)
WriteAborted(c) == sock[c] = "closed" /\ WriteFails(c)

Fairness ==
    \A c \in Conns :
        /\ WF_hvars(ReadAborted(c)) /\ WF_hvars(WriteAborted(c))
        /\ WF_hvars(HandleReadError(c) \/ HandleReadBody(c))
        /\ WF_hvars(Refuse(c) \/ HandleRequest(c) \/ ReadBody(c))
        /\ WF_hvars(WriteResponse(c)) /\ WF_hvars(HandleWriteHttp(c))

FairSpec == Spec /\ Fairness

-----------------------------------------------------------------------------
\* The type invariant; no more responses are sent than requests were served.
TypeOK ==
    /\ sock \in [Conns -> {"new", "open", "closed"}]
    /\ abort \subseteq Conns /\ managed \subseteq Conns
    /\ parsed \subseteq Conns /\ cut \subseteq Conns
    /\ accepting \in BOOLEAN
    /\ rd \in [Conns -> RdStates]
    /\ input \in [Conns -> Inputs]
    /\ req \in [Conns -> Requests]
    /\ owed \in [Conns -> Nat] /\ flight \in [Conns -> Nat]
    /\ landed \in [Conns -> Seq(BOOLEAN)]
    /\ served \in [Conns -> 0 .. MaxInputs] /\ inputs \in [Conns -> 0 .. MaxInputs]
    /\ answered \in [Conns -> Nat]
    /\ \A c \in Conns : answered[c] + owed[c] + flight[c] <= served[c]

\* No connection is left open and forgotten, whichever of the reader and the
\* response ends first: an open one is in the manager's set and either reads,
\* or has a response to come whose handler will look after it.
Attended ==
    \A c \in Conns : sock[c] = "open" =>
        /\ c \in managed
        /\ rd[c] # "none" \/ owed[c] > 0 \/ flight[c] > 0 \/ landed[c] # <<>>

\* A request that does not keep the connection is answered before the server
\* closes it, unless the peer breaks it first.
AnsweredBeforeClose ==
    \A c \in Conns :
        c \in abort /\ served[c] > 0 /\ ~req[c].keep => answered[c] = served[c] \/ c \in cut

\* A closed connection is released once its operations are aborted and the
\* database has answered, although the answer is still written to it.
ClosedIsReleased == \A c \in Conns : sock[c] = "closed" ~> Released(c)

\* While the peer reads, every request that was handed to a handler is
\* answered, or the connection ends.
PeerReads == \A c \in Conns : WF_hvars(WriteCompletes(c) \/ WriteFails(c))
ServedIsAnswered ==
    PeerReads => \A c \in Conns : served[c] > 0 ~> (answered[c] = served[c] \/ c \in abort)
=============================================================================

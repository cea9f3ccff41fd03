----------------------------- MODULE Connection -----------------------------
(***************************************************************************)
(* connection and connection_manager (src/src/connection.cpp,              *)
(* src/include/connection.hpp).  Every connection has one read operation   *)
(* and at most one write operation in progress; their completion handlers  *)
(* run on the thread of its io_service, stop_all() on the signal's thread, *)
(* start() on the acceptor's.                                              *)
(***************************************************************************)
EXTENDS Naturals, Sequences

CONSTANTS
    Conns,    \* the connections
    Msgs,     \* the encoded messages
    MaxMsgs   \* bound: conn -> messages write_msg accepts on it

ASSUME MaxMsgsAssumption == MaxMsgs \in [Conns -> Nat]

VARIABLES
    sock,     \* "new" (not accepted), "open" or "closed"
    abort,    \* the connections whose m_abort is true
    rd,       \* the read operation and its handler, see RdStates
    wr,       \* the write operation: "idle", "flight" (in progress),
              \* "sent" or "failed" (complete, handle_write to run)
    posted,   \* the do_write calls posted to the io_service, oldest first
    queue,    \* m_write_queue
    wire,     \* history: the messages that left the socket, whole
    managed,  \* m_connections
    phase     \* stop_all(): "up", "stopping" (it holds m_mutex), "down"

cvars == <<sock, abort, rd, wr, posted, queue, wire, managed, phase>>
reader == <<rd>>
writer == <<wr, posted, queue, wire>>
life == <<sock, abort, managed, phase>>

\* "none"; "header"/"body": async_read in progress; "gotHeader"/"gotBody":
\* complete, handler to run; "failed": complete with an error, handler to run;
\* "handling": inside do_message.
RdStates == {"none", "header", "body", "gotHeader", "gotBody", "failed", "handling"}

Init ==
    /\ sock = [c \in Conns |-> "new"]
    /\ abort = {}
    /\ rd = [c \in Conns |-> "none"]
    /\ wr = [c \in Conns |-> "idle"]
    /\ posted = [c \in Conns |-> <<>>]
    /\ queue = [c \in Conns |-> <<>>]
    /\ wire = [c \in Conns |-> <<>>]
    /\ managed = {}
    /\ phase = "up"

MutexFree == phase # "stopping"

-----------------------------------------------------------------------------
(* connection_manager                                                        *)

\* start(c): insert it, then connection::start() under the mutex: m_abort is
\* cleared and the first header read is issued.
Start(c) ==
    /\ MutexFree
    /\ sock[c] = "new"
    /\ sock' = [sock EXCEPT ![c] = "open"]
    /\ abort' = abort \ {c}
    /\ managed' = managed \union {c}
    /\ rd' = [rd EXCEPT ![c] = "header"]
    /\ UNCHANGED <<phase, writer>>

\* connection::stop(), less the notification (which Router adds).
Stop(c) ==
    /\ abort' = abort \union {c}
    /\ sock' = [sock EXCEPT ![c] = "closed"]

\* Mutant: connection_manager::stop() leaves the connection in the set.
CloseNoErase(c) ==
    /\ MutexFree
    /\ Stop(c)
    /\ UNCHANGED <<managed, phase>>

\* connection::close(), through connection_manager::stop(): also when the
\* connection was erased and stopped before.
Close(c) ==
    /\ MutexFree
    /\ managed' = managed \ {c}
    /\ Stop(c)
    /\ UNCHANGED phase

\* stop_all(): the mutex is taken, every connection of the set is stopped in
\* the set's order (of addresses, hence any), the set is cleared.
StopAllBegin ==
    /\ phase = "up"
    /\ phase' = "stopping"
    /\ UNCHANGED <<sock, abort, managed, reader, writer>>

StopAllEach(c) ==
    /\ phase = "stopping" /\ c \in managed /\ c \notin abort
    /\ Stop(c)
    /\ UNCHANGED <<managed, phase, reader, writer>>

StopAllEnd ==
    /\ phase = "stopping" /\ managed \subseteq abort
    /\ managed' = {}
    /\ phase' = "down"
    /\ UNCHANGED <<sock, abort, reader, writer>>

-----------------------------------------------------------------------------
(* The reader                                                                *)

\* The peer's bytes complete the read in progress.
ReadCompletes(c) ==
    /\ sock[c] = "open"
    /\ \/ rd[c] = "header" /\ rd' = [rd EXCEPT ![c] = "gotHeader"]
       \/ rd[c] = "body" /\ rd' = [rd EXCEPT ![c] = "gotBody"]
    /\ UNCHANGED <<life, writer>>

\* The peer is gone, or the socket was closed under the read.
ReadFails(c) ==
    /\ rd[c] \in {"header", "body"}
    /\ rd' = [rd EXCEPT ![c] = "failed"]
    /\ UNCHANGED <<life, writer>>

\* handle_read_header or handle_read_body with error || m_abort.
HandleReadError(c) ==
    /\ \/ rd[c] = "failed"
       \/ rd[c] \in {"gotHeader", "gotBody"} /\ c \in abort
    /\ Close(c)
    /\ rd' = [rd EXCEPT ![c] = "none"]
    /\ UNCHANGED writer

\* handle_read_header: the length is acceptable, read the body.
HandleReadHeader(c) ==
    /\ rd[c] = "gotHeader" /\ c \notin abort
    /\ rd' = [rd EXCEPT ![c] = "body"]
    /\ UNCHANGED <<life, writer>>

\* Mutant: the connection is dropped without close().
RejectQuietly(c) ==
    /\ rd[c] \in {"gotHeader", "gotBody"} /\ c \notin abort
    /\ rd' = [rd EXCEPT ![c] = "none"]
    /\ UNCHANGED <<life, writer>>

\* packet_length > 64 * 1024, or decode() finds no message in the body.
Reject(c) ==
    /\ rd[c] \in {"gotHeader", "gotBody"} /\ c \notin abort
    /\ Close(c)
    /\ rd' = [rd EXCEPT ![c] = "none"]
    /\ UNCHANGED writer

\* handle_read_body up to do_message ...
Dispatch(c) ==
    /\ rd[c] = "gotBody" /\ c \notin abort
    /\ rd' = [rd EXCEPT ![c] = "handling"]
    /\ UNCHANGED <<life, writer>>

\* ... and after it: the next header read, without looking at m_abort again.
Resume(c) ==
    /\ rd[c] = "handling"
    /\ rd' = [rd EXCEPT ![c] = "header"]
    /\ UNCHANGED <<life, writer>>

-----------------------------------------------------------------------------
(* The writer                                                                *)

\* Messages accepted and not lost: the bound's counter.
Held(c) == Len(wire[c]) + Len(queue[c]) + Len(posted[c])

\* Mutant: the handler keeps a reference to the caller's string, gone by then.
PostWriteReference(c, m) ==
    /\ sock[c] # "new"
    /\ posted' = [posted EXCEPT ![c] = Append(@, "freed")]
    /\ UNCHANGED <<wr, queue, wire>>

\* write_msg, from any thread: the message is copied into the handler.
PostWrite(c, m) ==
    /\ sock[c] # "new"
    /\ posted' = [posted EXCEPT ![c] = Append(@, m)]
    /\ UNCHANGED <<wr, queue, wire>>

\* A module of the server that holds the connection writes to it.
WriteMsg(c, m) ==
    /\ Held(c) < MaxMsgs[c]
    /\ PostWrite(c, m)
    /\ UNCHANGED <<life, reader>>

\* do_write: queue the message; start writing when the queue was empty.
DoWrite(c) ==
    /\ posted[c] # <<>>
    /\ queue' = [queue EXCEPT ![c] = Append(@, Head(posted[c]))]
    /\ posted' = [posted EXCEPT ![c] = Tail(@)]
    /\ wr' = IF queue[c] = <<>> THEN [wr EXCEPT ![c] = "flight"] ELSE wr
    /\ UNCHANGED <<life, reader, wire>>

\* async_write has sent the front message.
WriteCompletes(c) ==
    /\ wr[c] = "flight" /\ sock[c] = "open"
    /\ wr' = [wr EXCEPT ![c] = "sent"]
    /\ wire' = [wire EXCEPT ![c] = Append(@, Head(queue[c]))]
    /\ UNCHANGED <<life, reader, posted, queue>>

\* The peer is gone, or the socket was closed under the write.
WriteFails(c) ==
    /\ wr[c] = "flight"
    /\ wr' = [wr EXCEPT ![c] = "failed"]
    /\ UNCHANGED <<life, reader, posted, queue, wire>>

\* Mutant: the message that was sent stays at the front.
HandleWriteNoPop(c) ==
    /\ wr[c] = "sent"
    /\ wr' = [wr EXCEPT ![c] = "flight"]
    /\ UNCHANGED <<life, reader, posted, queue, wire>>

\* Mutant: the next message is left to the next do_write.
HandleWriteNoNext(c) ==
    /\ wr[c] = "sent"
    /\ queue' = [queue EXCEPT ![c] = Tail(@)]
    /\ wr' = [wr EXCEPT ![c] = "idle"]
    /\ UNCHANGED <<life, reader, posted, wire>>

\* handle_write: pop the message sent, write the next one if there is one.
HandleWrite(c) ==
    /\ wr[c] = "sent"
    /\ queue' = [queue EXCEPT ![c] = Tail(@)]
    /\ wr' = [wr EXCEPT ![c] = IF Tail(queue[c]) = <<>> THEN "idle" ELSE "flight"]
    /\ UNCHANGED <<life, reader, posted, wire>>

\* handle_write with an error: close(); the queue keeps what it holds.
HandleWriteError(c) ==
    /\ wr[c] = "failed"
    /\ Close(c)
    /\ wr' = [wr EXCEPT ![c] = "idle"]
    /\ UNCHANGED <<reader, posted, queue, wire>>

-----------------------------------------------------------------------------
\* No operation or handler of this module holds c: its last reference is gone.
Released(c) == c \notin managed /\ rd[c] = "none" /\ wr[c] = "idle" /\ posted[c] = <<>>

\* Every connection is over: only idle callers are left.
Done ==
    /\ \A c \in Conns : c \in abort /\ Released(c)
    /\ phase # "stopping"
    /\ UNCHANGED cvars

Next ==
    \/ \E c \in Conns :
        \/ Start(c) \/ StopAllEach(c)
        \/ ReadCompletes(c) \/ ReadFails(c) \/ HandleReadError(c)
        \/ HandleReadHeader(c) \/ Reject(c) \/ Dispatch(c) \/ Resume(c)
        \/ \E m \in Msgs : WriteMsg(c, m)
        \/ DoWrite(c) \/ WriteCompletes(c) \/ WriteFails(c)
        \/ HandleWrite(c) \/ HandleWriteError(c)
    \/ StopAllBegin \/ StopAllEnd
    \/ Done

Spec == Init /\ [][Next]_cvars

\* Every io_service thread runs its handlers and a handler runs to its end; an
\* operation on a closed socket completes with an error.  Nothing is assumed of
\* the peer: an operation on an open socket may take forever.
ReadAborted(c) == sock[c] = "closed" /\ ReadFails(c)
WriteAborted(c) == sock[c] = "closed" /\ WriteFails(c)

Fairness ==
    /\ WF_cvars(StopAllEnd)
    /\ \A c \in Conns :
        /\ WF_cvars(StopAllEach(c))
        /\ WF_cvars(ReadAborted(c)) /\ WF_cvars(WriteAborted(c))
        /\ WF_cvars(HandleReadError(c))
        /\ WF_cvars(HandleReadHeader(c) \/ Reject(c) \/ Dispatch(c))
        /\ WF_cvars(Resume(c)) /\ WF_cvars(DoWrite(c))
        /\ WF_cvars(HandleWrite(c) \/ HandleWriteError(c))

FairSpec == Spec /\ Fairness

-----------------------------------------------------------------------------
\* The type invariant.
TypeOK ==
    /\ sock \in [Conns -> {"new", "open", "closed"}]
    /\ abort \subseteq Conns
    /\ rd \in [Conns -> RdStates]
    /\ wr \in [Conns -> {"idle", "flight", "sent", "failed"}]
    /\ posted \in [Conns -> Seq(Msgs)]
    /\ queue \in [Conns -> Seq(Msgs)]
    /\ wire \in [Conns -> Seq(Msgs)]
    /\ managed \subseteq Conns
    /\ phase \in {"up", "stopping", "down"}

\* handle_write and do_write keep the writer going between them: a queued
\* message of a live connection always has a write operation in progress or a
\* handle_write to come, and handle_write always finds its message in front
\* (m_write_queue.front() of an empty deque is undefined).
NoStalledQueue ==
    \A c \in Conns :
        /\ wr[c] # "idle" => queue[c] # <<>>
        /\ queue[c] # <<>> /\ wr[c] = "idle" => c \in abort

\* No socket is left open that stop_all() could not reach, whichever of the
\* reader, the writer and stop_all() ended the connection, in whatever order:
\* an open connection is in the manager's set, and has a read in progress or a
\* handler to run, so that the peer's leaving is noticed; a stopped one is out
\* of the set, except while stop_all() is at work.
NoSocketLeak ==
    \A c \in Conns :
        /\ sock[c] = "open" => c \in managed /\ rd[c] # "none"
        /\ c \in abort <=> sock[c] = "closed"
        /\ c \in managed /\ sock[c] = "closed" => phase = "stopping"

\* Nothing leaks: once a connection is closed its operations are aborted, its
\* handlers run, and the last reference goes, although a late handler may
\* still issue an operation on the closed socket.
ClosedIsReleased == \A c \in Conns : sock[c] = "closed" ~> Released(c)

\* While the peer reads, every message written is sent, unless the connection
\* breaks: no interleaving of do_write and handle_write strands a message.
PeerReads == \A c \in Conns : WF_cvars(WriteCompletes(c) \/ WriteFails(c))
Unsent(c) == IF wr[c] = "sent" THEN Tail(queue[c]) \o posted[c] ELSE queue[c] \o posted[c]
WrittenIsSent ==
    PeerReads => \A c \in Conns : Unsent(c) # <<>> ~> (Unsent(c) = <<>> \/ c \in abort)

\* write_msg, do_write and handle_write together are a stream: in order, at
\* most once, nothing after the connection broke.
Broken == abort \union {c \in Conns : wr[c] = "failed"}
Stream == INSTANCE MessageStream WITH
    pending <- [c \in Conns |-> Unsent(c)], delivered <- wire, broken <- Broken
ImplementsStream == Stream!StreamSpec
=============================================================================

------------------------------- MODULE Router -------------------------------
(***************************************************************************)
(* router_server, forward_moudle and terminator() over Connection: the     *)
(* connections are accepted, the packets they send are forwarded through   *)
(* m_routing_table, closing one removes its route.  Every handler runs on  *)
(* the thread of its io_service and m_routing_table has no lock, so the    *)
(* steps of process_packet interleave with those of other threads.         *)
(***************************************************************************)
EXTENDS Connection

CONSTANTS
    Names,       \* user names; a client's packets may have any of them as src
    Dests,       \* the dest names clients put in packets
    TTLs,        \* the time_to_live values clients put in packets
    PoolSize,    \* io_services, one thread each
    ThreadOf,    \* conn -> the thread of its io_service
    MaxPackets,  \* bound: packets handled in one behaviour
    NoConn, NoName

Threads == 0 .. PoolSize - 1

ASSUME RouterAssumption ==
    /\ Dests \subseteq Names
    /\ TTLs \subseteq Nat
    /\ PoolSize \in Nat \ {0} /\ ThreadOf \in [Conns -> Threads]
    /\ MaxPackets \in Nat
    /\ NoConn \notin Conns /\ NoName \notin Names

\* main() takes services in a fixed order: the router's acceptor is the first
\* call of get_io_service(), the signal set the seventh.
AcceptThread == 0
SignalThread == 6 % PoolSize

\* A packet, with what identifies it in the history: the connection it came
\* from and its number among all packets received.
Packets == [src : Names, dest : Names, ttl : Nat, from : Conns, nth : Nat]

VARIABLES
    route,      \* m_routing_table: name -> connection or NoConn
    username,   \* the module private "username" of a connection, or NoName
    job,        \* thread -> where it is in process_packet
    acc,        \* handle_accept: "armed", "checked" (past is_open()) or "off"
    listening,  \* m_acceptor is open; terminator() begins by closing it
    run,        \* the process: "running", "stopped" (by ios.stop()), "crashed"
    received,   \* how many packets were handled
    claims,     \* history: conn -> the src names it has sent
    sole,       \* history: conn -> the names of which nobody else that had
                \* used them was left when its latest packet under them came
    astray,     \* history: the packets whose iterator's node was used again
    raced,      \* history: two threads were in the table, one changing it
    late        \* history: the acceptor was closed behind is_open()

history == <<claims, sole, astray, raced>>
rvars == <<route, username, job, received, history>>
svars == <<acc, listening, run, late>>
vars == <<cvars, rvars, svars>>

\* process_packet's locals: the packet and the iterator forward_target. it is
\* the connection in the iterator's node, or NoConn for end(); node, the name
\* the table has the node under, or NoName; freed, that the node was erased.
NoJob == [at |-> "idle"]
NewJob(p) == [at |-> "find", pkt |-> p, it |-> NoConn, node |-> NoName, freed |-> FALSE]
Jobs == {NoJob} \union
    [at : {"find", "insert", "lookup", "deref"}, pkt : Packets,
     it : Conns \union {NoConn}, node : Names \union {NoName}, freed : BOOLEAN]

RouterInit ==
    /\ Init
    /\ route = [n \in Names |-> NoConn]
    /\ username = [c \in Conns |-> NoName]
    /\ job = [t \in Threads |-> NoJob]
    /\ acc = "armed" /\ listening = TRUE /\ run = "running"
    /\ received = 0
    /\ claims = [c \in Conns |-> {}] /\ sole = [c \in Conns |-> {}]
    /\ astray = {} /\ raced = FALSE /\ late = FALSE

\* Thread t is inside a handler.
Busy(t) ==
    \/ \E c \in Conns : ThreadOf[c] = t /\ rd[c] = "handling"
    \/ t = AcceptThread /\ acc = "checked"
    \/ t = SignalThread /\ ~listening
Idle(c) == ~Busy(ThreadOf[c])

-----------------------------------------------------------------------------
(* Accepting                                                                 *)

\* handle_accept finds the acceptor open and no error ...
AcceptCheck ==
    /\ acc = "armed" /\ listening /\ ~Busy(AcceptThread)
    /\ \E c \in Conns : sock[c] = "new"
    /\ acc' = "checked"
    /\ UNCHANGED <<cvars, rvars, listening, run, late>>

\* ... starts the connection, and start_impl() accepts the next one. The
\* notification of type 0 changes nothing.
AcceptStart(c) ==
    /\ acc = "checked"
    /\ Start(c)
    /\ acc' = "armed"
    /\ UNCHANGED <<rvars, listening, run, late>>

\* ... or finds an error, and nothing is accepted any more.
AcceptError ==
    /\ acc = "armed" /\ ~Busy(AcceptThread)
    /\ \E c \in Conns : sock[c] = "new"
    /\ acc' = "off"
    /\ UNCHANGED <<cvars, rvars, listening, run, late>>

-----------------------------------------------------------------------------
(* m_routing_table, a std::map without a lock                                *)

\* Thread t is at a find or an insert; the insert is to make an entry.
InTable(t) == job[t].at \in {"find", "insert", "lookup"}
Inserts(t) == job[t].at = "insert" /\ route[job[t].pkt.src] = NoConn

\* Thread t may be closing c, to erase an entry. m_mutex admits one close.
Closing(t, c) ==
    /\ username[c] # NoName
    /\ IF phase = "stopping"
       THEN t = SignalThread /\ c \in managed \ abort
       ELSE /\ t = ThreadOf[c] /\ Idle(c)
            /\ rd[c] \in {"failed", "gotHeader", "gotBody"} \/ wr[c] = "failed"
Erases(c) == route[username[c]] # NoConn

\* Thread t is in the table, or closes c, together with another thread, and one
\* of the two changes the table. A find may then see no entry, a change lose
\* entries or not be made, or the process end.
Race(t) ==
    \E u \in Threads \ {t} :
        \/ InTable(u) /\ (Inserts(t) \/ Inserts(u))
        \/ \E c \in Conns : Closing(u, c) /\ (Inserts(t) \/ Erases(c))
CloseRace(t, c) == \E u \in Threads \ {t} : InTable(u) /\ (Erases(c) \/ Inserts(u))

\* The iterators after entries were erased, and their nodes freed, or lost.
Unlink(erased, lost) ==
    [t \in Threads |->
        IF job[t].at = "deref" /\ job[t].node \in erased \union lost
        THEN [job[t] EXCEPT !.node = NoName, !.freed = job[t].node \in erased]
        ELSE job[t]]

\* connection_notify on thread t: every close, also the second one of a
\* connection, erases the entry of the name it stored last.
Notify(t, c) ==
    IF username[c] = NoName
    THEN UNCHANGED rvars
    ELSE /\ \E erased \in SUBSET {username[c]} : \E lost \in SUBSET (Names \ erased) :
            /\ CloseRace(t, c) \/ (erased # {} /\ lost = {})
            /\ route' = [n \in Names |-> IF n \in erased \union lost THEN NoConn ELSE route[n]]
            /\ job' = Unlink(erased, lost)
         /\ raced' = (raced \/ CloseRace(t, c))
         /\ UNCHANGED <<username, received, claims, sole, astray>>

-----------------------------------------------------------------------------
(* process_packet                                                            *)

\* d is closed, no handler or operation of it is left, nor an entry under n.
LeftNothing(d, n) == sock[d] = "closed" /\ Released(d) /\ route[n] # d

\* c sends under the name n: whose alone the name is.
SoleAfter(c, n) ==
    LET alone == \A d \in Conns \ {c} : n \in claims[d] => LeftNothing(d, n)
    IN  [d \in Conns |-> IF d = c /\ alone THEN sole[d] \union {n} ELSE sole[d] \ {n}]

\* handle_read_body passes an avpacket to process_packet.
PacketArrives(c) ==
    /\ Idle(c) /\ received < MaxPackets
    /\ Dispatch(c)
    /\ \E s \in Names, d \in Dests, l \in TTLs :
        /\ job' = [job EXCEPT ![ThreadOf[c]] =
              NewJob([src |-> s, dest |-> d, ttl |-> l, from |-> c, nth |-> received])]
        /\ claims' = [claims EXCEPT ![c] = @ \union {s}]
        /\ sole' = SoleAfter(c, s)
    /\ received' = received + 1
    /\ UNCHANGED <<route, username, astray, raced, svars>>

\* Any other message: do_message finds no handler, or one that does not touch
\* the routing table.
OtherMessage(c) ==
    /\ Idle(c)
    /\ Dispatch(c)
    /\ UNCHANGED <<rvars, svars>>

\* m_routing_table.find(src)
FindSrc(t) ==
    /\ job[t].at = "find"
    /\ \E seen \in BOOLEAN :
        /\ seen \/ Race(t)
        /\ job' = [job EXCEPT ![t].at =
                    IF seen /\ route[job[t].pkt.src] # NoConn THEN "lookup" ELSE "insert"]
    /\ raced' = (raced \/ Race(t))
    /\ UNCHANGED <<cvars, svars, route, username, received, claims, sole, astray>>

\* Thread t inserts its sender under n, and keeps an entry another thread made.
\* The node allocated for it can be the memory of erased ones; reused are the
\* threads with iterators to these. Without an entry it is freed once more.
Enter(t, n) ==
    LET c == job[t].pkt.from
        new == route[n] = NoConn
    IN  \E lost \in SUBSET Names :
        \E reused \in SUBSET {u \in Threads : job[u].at = "deref" /\ job[u].freed} :
        /\ Race(t) \/ lost = {}
        /\ route' = [m \in Names |->
               IF m \in lost THEN NoConn ELSE IF m = n /\ new THEN c ELSE route[m]]
        /\ job' = [u \in Threads |->
               IF u = t THEN [job[u] EXCEPT !.at = "lookup"]
               ELSE IF u \notin reused THEN Unlink({}, lost)[u]
               ELSE [job[u] EXCEPT !.it = c, !.freed = ~new,
                        !.node = IF new /\ n \notin lost THEN n ELSE NoName]]
        /\ astray' = astray \union {job[u].pkt.nth : u \in reused}
        /\ raced' = (raced \/ Race(t))
        /\ UNCHANGED <<cvars, svars, received, claims, sole>>

\* Mutant: the sender is entered under the destination's name.
InsertSwapped(t) ==
    /\ job[t].at = "insert"
    /\ username' = [username EXCEPT ![job[t].pkt.from] = job[t].pkt.dest]
    /\ Enter(t, job[t].pkt.dest)

\* Mutant: the name is not stored with the connection.
InsertForgets(t) ==
    /\ job[t].at = "insert"
    /\ Enter(t, job[t].pkt.src)
    /\ UNCHANGED username

\* store_module_private and insert.
InsertSrc(t) ==
    /\ job[t].at = "insert"
    /\ username' = [username EXCEPT ![job[t].pkt.from] = job[t].pkt.src]
    /\ Enter(t, job[t].pkt.src)

\* forward_target = m_routing_table.find(dest)
FindDest(t) ==
    LET d == job[t].pkt.dest IN
    /\ job[t].at = "lookup"
    /\ \E seen \in BOOLEAN :
        /\ seen \/ Race(t)
        /\ job' = [job EXCEPT ![t] = [@ EXCEPT !.at = "deref",
                     !.it = IF seen THEN route[d] ELSE NoConn,
                     !.node = IF seen /\ route[d] # NoConn THEN d ELSE NoName]]
    /\ raced' = (raced \/ Race(t))
    /\ UNCHANGED <<cvars, svars, route, username, received, claims, sole, astray>>

Leave(t) ==
    /\ job' = [job EXCEPT ![t] = NoJob]
    /\ UNCHANGED <<svars, life, reader, route, username, received, history>>

\* Mutant: the packet whose time to live has just run out is sent too.
ForwardZero(t) ==
    LET p == job[t].pkt
        d == job[t].it
    IN  /\ job[t].at = "deref" /\ d # NoConn /\ ~Released(d)
        /\ IF p.ttl > 0 THEN PostWrite(d, [p EXCEPT !.ttl = @ - 1]) ELSE UNCHANGED writer
        /\ Leave(t)

\* The target was found and lives: decrement the time to live and write, unless
\* it has run out. The weak_ptr locks while anything holds the connection.
Forward(t) ==
    LET p == job[t].pkt
        d == job[t].it
    IN  /\ job[t].at = "deref" /\ d # NoConn /\ ~Released(d)
        /\ IF p.ttl > 1 THEN PostWrite(d, [p EXCEPT !.ttl = @ - 1]) ELSE UNCHANGED writer
        /\ Leave(t)

\* No route: the table has no entry, or its connection is gone. Through end()
\* and through an erased node lock() is undefined; that it comes back empty is
\* one outcome, Crash another, and, through an erased node, Forward a third, to
\* the connection the memory held last.
Miss(t) ==
    /\ job[t].at = "deref"
    /\ job[t].it = NoConn \/ job[t].freed \/ job[t].it \in {d \in Conns : Released(d)}
    /\ UNCHANGED writer
    /\ Leave(t)

Crash ==
    /\ \E t \in Threads :
        \/ job[t].at = "deref" /\ (job[t].it = NoConn \/ job[t].freed)
        \/ InTable(t) /\ Race(t)
    /\ run' = "crashed"
    /\ UNCHANGED <<cvars, rvars, acc, listening, late>>

\* process_packet has returned; the next header is read.
NextMessage(c) ==
    /\ job[ThreadOf[c]] = NoJob
    /\ Resume(c)
    /\ UNCHANGED <<rvars, svars>>

-----------------------------------------------------------------------------
(* The other handlers of a connection, each on its own thread                *)

CloseHandler(c) ==
    /\ Idle(c)
    /\ HandleReadError(c) \/ Reject(c) \/ HandleWriteError(c)
    /\ Notify(ThreadOf[c], c)
    /\ UNCHANGED svars

OtherHandler(c) ==
    /\ Idle(c)
    /\ HandleReadHeader(c) \/ DoWrite(c) \/ HandleWrite(c)
    /\ UNCHANGED <<rvars, svars>>

\* The kernel completes an operation.
Completion(c) ==
    /\ ReadCompletes(c) \/ ReadFails(c) \/ WriteCompletes(c) \/ WriteFails(c)
    /\ UNCHANGED <<rvars, svars>>

-----------------------------------------------------------------------------
(* terminator(): router_server::stop(), then ios.stop(), in one handler      *)

CloseAcceptor ==
    /\ listening /\ ~Busy(SignalThread)
    /\ listening' = FALSE /\ late' = (acc = "checked")
    /\ UNCHANGED <<cvars, rvars, acc, run>>

\* Mutant: the connections are not stopped.
StopNothing ==
    /\ ~listening /\ phase' = "down"
    /\ UNCHANGED <<sock, abort, managed, reader, writer, rvars, svars>>

StopConnections ==
    /\ ~listening
    /\ \/ (StopAllBegin \/ StopAllEnd) /\ UNCHANGED rvars
       \/ \E c \in Conns : StopAllEach(c) /\ Notify(SignalThread, c)
    /\ UNCHANGED svars

StopServices ==
    /\ phase = "down"
    /\ run' = "stopped"
    /\ UNCHANGED <<cvars, rvars, acc, listening, late>>

-----------------------------------------------------------------------------
\* The process is over.
Over == run # "running" /\ UNCHANGED vars

Running ==
    /\ run = "running"
    /\ \/ AcceptCheck \/ AcceptError \/ CloseAcceptor \/ StopConnections \/ StopServices \/ Crash
       \/ \E c \in Conns :
            \/ AcceptStart(c) \/ PacketArrives(c) \/ OtherMessage(c) \/ NextMessage(c)
            \/ CloseHandler(c) \/ OtherHandler(c) \/ Completion(c)
       \/ \E t \in Threads :
            FindSrc(t) \/ InsertSrc(t) \/ FindDest(t) \/ Forward(t) \/ Miss(t)

RouterSpec == RouterInit /\ [][Running \/ Over]_vars

-----------------------------------------------------------------------------
\* What c was sent or will be, oldest first.
Traffic(c) == wire[c] \o Unsent(c)

\* The type invariant; a packet that is written has a time to live left.
RouterTypeOK ==
    /\ TypeOK
    /\ route \in [Names -> Conns \union {NoConn}]
    /\ username \in [Conns -> Names \union {NoName}]
    /\ job \in [Threads -> Jobs]
    /\ acc \in {"armed", "checked", "off"} /\ listening \in BOOLEAN
    /\ run \in {"running", "stopped", "crashed"}
    /\ received \in Nat
    /\ claims \in [Conns -> SUBSET Names] /\ sole \in [Conns -> SUBSET Names]
    /\ astray \subseteq Nat /\ raced \in BOOLEAN /\ late \in BOOLEAN
    /\ \A c \in Conns : \A i \in DOMAIN Traffic(c) : Traffic(c)[i].ttl > 0

\* A packet reaches only a connection that has itself sent packets under the
\* destination's name, also when a route is taken down, or taken over by a
\* second connection, between the lookup and the write; except through an
\* iterator whose node was erased and its memory used for another entry.
DeliveredToClaimant ==
    \A c \in Conns : \A i \in DOMAIN Traffic(c) :
        Traffic(c)[i].dest \in claims[c] \/ Traffic(c)[i].nth \in astray

\* The packets one connection sends another arrive in the order they were
\* sent, each at most once, through both handlers' threads and both queues.
InOrder ==
    \A c \in Conns : \A i, j \in DOMAIN Traffic(c) :
        i < j /\ Traffic(c)[i].from = Traffic(c)[j].from
            => Traffic(c)[i].nth < Traffic(c)[j].nth

\* "Delete this connection from the routing table": what a closed connection
\* leaves in the table until the shutdown, where it keeps the client's next
\* connection from being entered, is entries under names it sent before its
\* last one, and nothing if it used one name; unless two threads met in the
\* table.
ClosedNotRouted ==
    phase = "up" /\ ~raced =>
        \A n \in Names : route[n] \in abort =>
            username[route[n]] # n /\ {n, username[route[n]]} \subseteq claims[route[n]]

\* A client is reachable under its name as long as it is connected, whatever
\* others do, from its first packet on, and when it connects again from the
\* first packet that comes after its old connection is gone; unless another
\* connection uses the name too, or two threads met in the table.
SoleClaimantRouted ==
    ~raced => \A c \in Conns, n \in Names :
        sock[c] = "open" /\ rd[c] # "handling" /\ n \in sole[c] => route[n] = c

\* When the services are stopped, at most one connection is left open, the one
\* whose handle_accept was past is_open() when stop() closed the acceptor on
\* another thread, so that it was started after stop_all().
StoppedMeansClosed ==
    LET Open == {c \in Conns : sock[c] = "open"} IN
    run = "stopped" =>
        /\ \A c, d \in Open : c = d
        /\ Open # {} => late /\ SignalThread # AcceptThread

\* Only its own close takes a connection's route away.
RouteUntilClose ==
    [][\A n \in Names : route[n] # NoConn /\ route'[n] # route[n] => route[n] \in abort']_vars
=============================================================================

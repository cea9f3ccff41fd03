---------------------------- MODULE Router_proofs ----------------------------
(***************************************************************************)
(* Theorems about Router, for any number of connections, threads, names    *)
(* and packets.  The packets must be messages write_msg can take, which    *)
(* every theorem assumes.                                                  *)
(***************************************************************************)
EXTENDS Router, Connection_proofs

Step == [Running \/ Over]_vars

-----------------------------------------------------------------------------
(* What the connections do under Router                                      *)

\* write_msg on a connection keeps Connection's invariant, whatever bound the
\* caller observes.
LEMMA PostKeeps ==
    ASSUME IInv, NEW c \in Conns, NEW m \in Msgs, PostWrite(c, m), UNCHANGED <<life, reader>>
    PROVE  IInv'
  <1> USE DEF IInv, TypeOK, RdStates, life, reader, PostWrite
  <1>1. Append(posted[c], m) \in Seq(Msgs) OBVIOUS
  <1>2. TypeOK' BY <1>1
  <1>3. NoStalledQueue' BY DEF NoStalledQueue
  <1>4. NoSocketLeak' /\ Fresh' BY DEF NoSocketLeak, Fresh
  <1> QED BY <1>2, <1>3, <1>4

\* Every step but a Forward that writes is one of Connection's, and not one
\* of its WriteMsg.
Kernel ==
    \/ \E c \in Conns :
        \/ Start(c) \/ StopAllEach(c)
        \/ ReadCompletes(c) \/ ReadFails(c) \/ HandleReadError(c)
        \/ HandleReadHeader(c) \/ Reject(c) \/ Dispatch(c) \/ Resume(c)
        \/ DoWrite(c) \/ WriteCompletes(c) \/ WriteFails(c)
        \/ HandleWrite(c) \/ HandleWriteError(c)
    \/ StopAllBegin \/ StopAllEnd

Writes(t) ==
    /\ Forward(t) /\ job[t].pkt.ttl > 1
    /\ job[t].it \in Conns
    /\ [job[t].pkt EXCEPT !.ttl = @ - 1] \in Packets
    /\ PostWrite(job[t].it, [job[t].pkt EXCEPT !.ttl = @ - 1])

\* What a job is made of.
LEMMA JobShape ==
    ASSUME RouterTypeOK, NEW t \in Threads, job[t].at # "idle"
    PROVE  /\ job[t] \in [at : {"find", "insert", "lookup", "deref"}, pkt : Packets,
                          it : Conns \union {NoConn}, node : Names \union {NoName},
                          freed : BOOLEAN]
           /\ job[t].at \in {"find", "insert", "lookup", "deref"}
           /\ job[t].pkt \in Packets
           /\ job[t].pkt.src \in Names /\ job[t].pkt.dest \in Names /\ job[t].pkt.ttl \in Nat
           /\ job[t].pkt.from \in Conns /\ job[t].pkt.nth \in Nat
           /\ job[t].it \in Conns \union {NoConn} /\ job[t].node \in Names \union {NoName}
  <1>1. job[t] \in Jobs BY DEF RouterTypeOK
  <1>2. job[t] # NoJob BY DEF NoJob
  <1>3. job[t] \in [at : {"find", "insert", "lookup", "deref"}, pkt : Packets,
                    it : Conns \union {NoConn}, node : Names \union {NoName},
                    freed : BOOLEAN]
    BY <1>1, <1>2 DEF Jobs
  <1>4. job[t].pkt \in Packets BY <1>3
  <1> QED BY <1>3, <1>4 DEF Packets

LEMMA StepOfConnection ==
    ASSUME RouterTypeOK, Step
    PROVE  Kernel \/ UNCHANGED cvars \/ \E t \in Threads : Writes(t)
  <1>1. CASE UNCHANGED vars BY <1>1 DEF vars
  <1>2. CASE AcceptCheck \/ AcceptError \/ CloseAcceptor \/ StopServices \/ Crash
    BY <1>2 DEF AcceptCheck, AcceptError, CloseAcceptor, StopServices, Crash
  <1>3. CASE StopConnections BY <1>3 DEF StopConnections, Kernel
  <1>4. ASSUME NEW c \in Conns,
               \/ AcceptStart(c) \/ PacketArrives(c) \/ OtherMessage(c) \/ NextMessage(c)
               \/ CloseHandler(c) \/ OtherHandler(c) \/ Completion(c)
        PROVE  Kernel
    BY <1>4 DEF AcceptStart, PacketArrives, OtherMessage, NextMessage, CloseHandler, OtherHandler,
                Completion, Kernel
  <1>5. ASSUME NEW t \in Threads, FindSrc(t) \/ InsertSrc(t) \/ FindDest(t)
        PROVE  UNCHANGED cvars
    BY <1>5 DEF FindSrc, InsertSrc, Enter, FindDest
  <1>6. ASSUME NEW t \in Threads, Miss(t) PROVE UNCHANGED cvars
    BY <1>6 DEF Miss, Leave, cvars, life, reader, writer
  <1>7. ASSUME NEW t \in Threads, Forward(t) PROVE UNCHANGED cvars \/ Writes(t)
    <2>1. CASE job[t].pkt.ttl > 1
      <3>1. job[t].at = "deref" /\ job[t].it # NoConn
            /\ PostWrite(job[t].it, [job[t].pkt EXCEPT !.ttl = @ - 1])
        BY <1>7, <2>1 DEF Forward
      <3>2. job[t].pkt \in Packets /\ job[t].pkt.ttl \in Nat /\ job[t].it \in Conns
        BY <3>1, JobShape
      <3>3. [job[t].pkt EXCEPT !.ttl = @ - 1] \in Packets
        BY <2>1, <3>2 DEF Packets
      <3> QED BY <1>7, <2>1, <3>1, <3>2, <3>3 DEF Writes
    <2>2. CASE ~(job[t].pkt.ttl > 1)
      BY <1>7, <2>2 DEF Forward, Leave, cvars, life, reader, writer
    <2> QED BY <2>1, <2>2
  <1> QED BY <1>1, <1>2, <1>3, <1>4, <1>5, <1>6, <1>7 DEF Step, Running, Over

LEMMA WritesFrame ==
    ASSUME NEW t \in Threads, Writes(t)
    PROVE  UNCHANGED <<life, reader>> /\ job[t].at = "deref" /\ job[t].it \in Conns
  BY DEF Writes, Forward, Leave, life, reader

LEMMA ConnectionKept ==
    ASSUME Packets \subseteq Msgs, RouterTypeOK, IInv, Step
    PROVE  IInv'
  <1>1. CASE Kernel \/ UNCHANGED cvars
    <2>1. [Next]_cvars BY <1>1 DEF Kernel, Next
    <2> QED BY <2>1, TypeStep, WriterStep, LeakStep DEF IInv
  <1>2. ASSUME NEW t \in Threads, Writes(t) PROVE IInv'
    BY <1>2, WritesFrame, PostKeeps DEF Writes
  <1> QED BY <1>1, <1>2, StepOfConnection

-----------------------------------------------------------------------------
(* Traffic: written to a connection, on its way through the queues, or sent  *)

LEMMA TrafficType ==
    ASSUME IInv, NEW c \in Conns
    PROVE  Unsent(c) \in Seq(Msgs) /\ wire[c] \in Seq(Msgs) /\ Traffic(c) \in Seq(Msgs)
  <1>1. queue[c] \in Seq(Msgs) /\ posted[c] \in Seq(Msgs) /\ wire[c] \in Seq(Msgs)
    BY DEF IInv, TypeOK
  <1>2. wr[c] = "sent" => Tail(queue[c]) \in Seq(Msgs)
    BY <1>1 DEF IInv, NoStalledQueue
  <1>3. Unsent(c) \in Seq(Msgs) BY <1>1, <1>2 DEF Unsent
  <1> QED BY <1>1, <1>3 DEF Traffic

LEMMA SentMoves ==
    ASSUME NEW S, NEW w \in Seq(S), NEW u \in Seq(S), u # <<>>
    PROVE  Append(w, Head(u)) \o Tail(u) = w \o u
  BY MoveHead

\* A write that completes moves a message from one end of Traffic to the
\* other; only Forward adds one.
LEMMA KernelTraffic ==
    ASSUME IInv, Kernel \/ UNCHANGED cvars, NEW d \in Conns
    PROVE  Traffic(d)' = Traffic(d)
  <1>1. CASE UNCHANGED Stream!svars
    BY <1>1 DEF Stream!svars, Traffic
  <1>2. CASE UNCHANGED writer
    BY <1>2 DEF writer, Traffic, Unsent
  <1>3. ASSUME NEW c \in Conns, WriteCompletes(c) PROVE Traffic(d)' = Traffic(d)
    <2>1. Stream!Deliver(c) BY <1>3, WriteCompletesDelivers
    <2>2. CASE c = d
      <3>1. Unsent(d) # <<>> /\ Unsent(d)' = Tail(Unsent(d))
            /\ wire'[d] = Append(wire[d], Head(Unsent(d)))
        BY <2>1, <2>2 DEF Stream!Deliver, IInv, TypeOK
      <3> QED BY <3>1, TrafficType, SentMoves DEF Traffic
    <2>3. CASE c # d
      BY <1>3, <2>3 DEF WriteCompletes, Traffic, Unsent, IInv, TypeOK
    <2> QED BY <2>2, <2>3
  <1>4. ASSUME NEW c \in Conns, WriteFails(c) PROVE Traffic(d)' = Traffic(d)
    BY <1>4 DEF WriteFails, Traffic, Unsent, IInv, TypeOK
  <1>5. ASSUME NEW c \in Conns, DoWrite(c) \/ HandleWrite(c) \/ HandleWriteError(c)
        PROVE  UNCHANGED Stream!svars
    BY <1>5, DoWriteStutters, HandleWriteStutters, HandleWriteErrorStutters
  <1>6. ASSUME NEW c \in Conns,
               \/ Start(c) \/ StopAllEach(c)
               \/ ReadCompletes(c) \/ ReadFails(c) \/ HandleReadError(c)
               \/ HandleReadHeader(c) \/ Reject(c) \/ Dispatch(c) \/ Resume(c)
        PROVE  UNCHANGED writer
    BY <1>6 DEF Start, StopAllEach, ReadCompletes, ReadFails, HandleReadError, HandleReadHeader,
                Reject, Dispatch, Resume, writer
  <1>7. CASE StopAllBegin \/ StopAllEnd \/ UNCHANGED cvars
    BY <1>2, <1>7 DEF StopAllBegin, StopAllEnd, cvars, writer
  <1> QED BY <1>1, <1>2, <1>3, <1>4, <1>5, <1>6, <1>7 DEF Kernel

LEMMA WritesTraffic ==
    ASSUME Packets \subseteq Msgs, IInv, NEW t \in Threads, Writes(t), NEW d \in Conns
    PROVE  /\ d = job[t].it => Traffic(d)' = Append(Traffic(d), [job[t].pkt EXCEPT !.ttl = @ - 1])
           /\ d # job[t].it => Traffic(d)' = Traffic(d)
  <1> DEFINE m == [job[t].pkt EXCEPT !.ttl = @ - 1]
             c == job[t].it
  <1>1. c \in Conns /\ m \in Msgs /\ PostWrite(c, m) /\ UNCHANGED <<life, reader>>
    BY WritesFrame DEF Writes
  <1> HIDE DEF m, c
  <1>2. Stream!Accept(c, m) BY <1>1, PostWriteAccepts
  <1>3. CASE d = c
    <2>1. Unsent(d)' = Append(Unsent(d), m) /\ wire' = wire
      BY <1>1, <1>2, <1>3 DEF Stream!Accept
    <2>2. wire[d] \o Append(Unsent(d), m) = Append(wire[d] \o Unsent(d), m)
      <3>1. wire[d] \in Seq(Msgs) /\ Unsent(d) \in Seq(Msgs) BY TrafficType
      <3>2. m \in Msgs BY <1>1
      <3>3. \A w, u \in Seq(Msgs), x \in Msgs : w \o Append(u, x) = Append(w \o u, x)
        BY ConcatAppend
      <3> QED BY <3>1, <3>2, <3>3
    <2>3. Traffic(d)' = wire[d] \o Unsent(d)' BY <2>1 DEF Traffic
    <2>4. Traffic(d)' = Append(Traffic(d), m) BY <2>1, <2>2, <2>3 DEF Traffic
    <2> QED BY <1>3, <2>4 DEF m, c
  <1>4. CASE d # c
    BY <1>1, <1>4 DEF PostWrite, Traffic, Unsent, IInv, TypeOK, m, c
  <1> QED BY <1>3, <1>4 DEF c

-----------------------------------------------------------------------------
(* The type invariant                                                        *)

RInv == IInv /\ RouterTypeOK

LEMMA RouterStart == RouterInit => RInv /\ \A c \in Conns : Traffic(c) = <<>>
  <1> SUFFICES ASSUME RouterInit PROVE RInv /\ \A c \in Conns : Traffic(c) = <<>>
    OBVIOUS
  <1>1. IInv BY InitIInv DEF RouterInit
  <1>2. \A c \in Conns : Traffic(c) = <<>>
    <2>1. <<>> \o <<>> = <<>>
      BY ConcatEmptySeq, EmptySeq
    <2>2. \A c \in Conns : Unsent(c) = <<>>
      BY <2>1 DEF RouterInit, Init, Unsent
    <2> QED BY <2>1, <2>2 DEF RouterInit, Init, Traffic
  <1>3. NoJob \in Jobs BY DEF Jobs
  <1>4. RouterTypeOK
    <2>1. \A c \in Conns : DOMAIN Traffic(c) = {}
      <3>1. \A s \in Seq(Msgs) : s = <<>> => DOMAIN s = {}
        OBVIOUS
      <3>2. \A c \in Conns : Traffic(c) \in Seq(Msgs) BY <1>1, TrafficType
      <3> QED BY <1>2, <3>1, <3>2
    <2> QED BY <1>1, <1>3, <2>1 DEF RouterTypeOK, RouterInit, IInv
  <1> QED BY <1>1, <1>2, <1>4 DEF RInv

\* A packet arrives: its connection's thread begins a job.
LEMMA ArrivesShape ==
    ASSUME RouterTypeOK, NEW c \in Conns, PacketArrives(c)
    PROVE  \E p \in Packets :
            /\ job' = [job EXCEPT ![ThreadOf[c]] = NewJob(p)]
            /\ claims' = [claims EXCEPT ![c] = @ \union {p.src}]
            /\ sole' = SoleAfter(c, p.src)
            /\ p.from = c /\ p.nth = received /\ p.src \in Names
            /\ NewJob(p) \in Jobs /\ NewJob(p) # NoJob
            /\ NewJob(p).at = "find" /\ NewJob(p).pkt = p /\ NewJob(p).it = NoConn
  <1>1. PICK s \in Names, d \in Dests, l \in TTLs :
            /\ job' = [job EXCEPT ![ThreadOf[c]] =
                  NewJob([src |-> s, dest |-> d, ttl |-> l, from |-> c, nth |-> received])]
            /\ claims' = [claims EXCEPT ![c] = @ \union {s}]
            /\ sole' = SoleAfter(c, s)
    BY DEF PacketArrives
  <1> DEFINE p == [src |-> s, dest |-> d, ttl |-> l, from |-> c, nth |-> received]
  <1>2. p \in Packets BY RouterAssumption DEF Packets, RouterTypeOK
  <1>3. p.from = c /\ p.nth = received /\ p.src = s
    OBVIOUS
  <1> HIDE DEF p
  <1>4. NewJob(p).at = "find" /\ NewJob(p).pkt = p /\ NewJob(p).it = NoConn
        /\ NewJob(p) \in Jobs
    BY <1>2 DEF NewJob, Jobs
  <1>5. NewJob(p) # NoJob BY <1>4 DEF NoJob
  <1> QED BY <1>1, <1>2, <1>3, <1>4, <1>5 DEF p

\* Erasing and losing entries leaves a job its packet and what its iterator
\* reads.
LEMMA UnlinkKeeps ==
    ASSUME RouterTypeOK, NEW E, NEW L, NEW t \in Threads
    PROVE  /\ Unlink(E, L)[t] \in Jobs
           /\ Unlink(E, L)[t].at = job[t].at
           /\ job[t].at # "idle" =>
                Unlink(E, L)[t].pkt = job[t].pkt /\ Unlink(E, L)[t].it = job[t].it
  <1>1. CASE job[t].at = "deref" /\ job[t].node \in E \union L
    <2>1. Unlink(E, L)[t] = [job[t] EXCEPT !.node = NoName, !.freed = job[t].node \in E]
      BY <1>1 DEF Unlink
    <2>2. /\ job[t] \in [at : {"find", "insert", "lookup", "deref"}, pkt : Packets,
                         it : Conns \union {NoConn}, node : Names \union {NoName}, freed : BOOLEAN]
      BY <1>1, JobShape
    <2> DEFINE b == job[t].node \in E
    <2>3. b \in BOOLEAN OBVIOUS
    <2> HIDE DEF b
    <2>4. [job[t] EXCEPT !.node = NoName, !.freed = b] \in
             [at : {"find", "insert", "lookup", "deref"}, pkt : Packets,
              it : Conns \union {NoConn}, node : Names \union {NoName}, freed : BOOLEAN]
          /\ [job[t] EXCEPT !.node = NoName, !.freed = b].at = job[t].at
          /\ [job[t] EXCEPT !.node = NoName, !.freed = b].pkt = job[t].pkt
          /\ [job[t] EXCEPT !.node = NoName, !.freed = b].it = job[t].it
      BY <2>2, <2>3
    <2> QED BY <2>1, <2>4 DEF Jobs, b
  <1>2. CASE ~(job[t].at = "deref" /\ job[t].node \in E \union L)
    <2>1. Unlink(E, L)[t] = job[t] BY <1>2 DEF Unlink
    <2> QED BY <2>1 DEF RouterTypeOK
  <1> QED BY <1>1, <1>2

\* An insert takes its own job on, and other jobs' iterators elsewhere only
\* when their nodes are used again.
LEMMA EnterKeeps ==
    ASSUME RouterTypeOK, NEW t \in Threads, job[t].at = "insert", NEW n \in Names, Enter(t, n)
    PROVE  /\ job' \in [Threads -> Jobs]
           /\ astray \subseteq astray' /\ astray' \subseteq Nat
           /\ \A u \in Threads :
                /\ job'[u].at = IF u = t THEN "lookup" ELSE job[u].at
                /\ job[u].at # "idle" =>
                    /\ job'[u].pkt = job[u].pkt
                    /\ job'[u].it = job[u].it \/ job[u].pkt.nth \in astray'
  <1> DEFINE c == job[t].pkt.from
  <1>1. c \in Conns BY JobShape
  <1>2. PICK lost \in SUBSET Names,
             reused \in SUBSET {u \in Threads : job[u].at = "deref" /\ job[u].freed} :
          /\ job' = [u \in Threads |->
               IF u = t THEN [job[u] EXCEPT !.at = "lookup"]
               ELSE IF u \notin reused THEN Unlink({}, lost)[u]
               ELSE [job[u] EXCEPT !.it = c, !.freed = ~(route[n] = NoConn),
                        !.node = IF route[n] = NoConn /\ n \notin lost THEN n ELSE NoName]]
          /\ astray' = astray \union {job[u].pkt.nth : u \in reused}
    BY DEF Enter
  <1> HIDE DEF c
  <1>3. astray \subseteq astray' /\ astray' \subseteq Nat
    <2>1. \A u \in reused : job[u].pkt.nth \in Nat BY JobShape
    <2> QED BY <1>2, <2>1 DEF RouterTypeOK
  <1>4. ASSUME NEW u \in Threads
        PROVE  /\ job'[u] \in Jobs
               /\ job'[u].at = IF u = t THEN "lookup" ELSE job[u].at
               /\ job[u].at # "idle" =>
                    /\ job'[u].pkt = job[u].pkt
                    /\ job'[u].it = job[u].it \/ job[u].pkt.nth \in astray'
    <2>1. CASE u = t
      <3>1. job'[u] = [job[u] EXCEPT !.at = "lookup"] BY <1>2, <2>1
      <3> QED BY <2>1, <3>1, JobShape DEF Jobs
    <2>2. CASE u # t /\ u \notin reused
      <3>1. job'[u] = Unlink({}, lost)[u] BY <1>2, <2>2
      <3> QED BY <2>2, <3>1, UnlinkKeeps
    <2>3. CASE u # t /\ u \in reused
      <3> DEFINE b == ~(route[n] = NoConn)
                 m == IF route[n] = NoConn /\ n \notin lost THEN n ELSE NoName
      <3>1. job'[u] = [job[u] EXCEPT !.it = c, !.freed = b, !.node = m]
        BY <1>2, <2>3
      <3>2. b \in BOOLEAN /\ m \in Names \union {NoName} OBVIOUS
      <3> HIDE DEF b, m
      <3>3. job[u].at = "deref" BY <1>2, <2>3
      <3>4. job'[u] \in [at : {"find", "insert", "lookup", "deref"}, pkt : Packets,
              it : Conns \union {NoConn}, node : Names \union {NoName}, freed : BOOLEAN]
            /\ job'[u].at = "deref" /\ job'[u].pkt = job[u].pkt
        BY <1>1, <3>1, <3>2, <3>3, JobShape
      <3>5. job[u].pkt.nth \in astray' BY <1>2, <2>3
      <3> QED BY <2>3, <3>3, <3>4, <3>5 DEF Jobs
    <2> QED BY <2>1, <2>2, <2>3
  <1>5. job' \in [Threads -> Jobs]
    <2>1. DOMAIN job' = Threads /\ job' = [u \in Threads |-> job'[u]]
      BY <1>2
    <2> QED BY <1>4, <2>1
  <1> QED BY <1>3, <1>4, <1>5

LEMMA RvarsType ==
    ASSUME RouterTypeOK, Step
    PROVE  /\ route' \in [Names -> Conns \union {NoConn}]
           /\ username' \in [Conns -> Names \union {NoName}]
           /\ job' \in [Threads -> Jobs]
           /\ acc' \in {"armed", "checked", "off"} /\ listening' \in BOOLEAN
           /\ run' \in {"running", "stopped", "crashed"}
           /\ received' \in Nat
           /\ claims' \in [Conns -> SUBSET Names] /\ sole' \in [Conns -> SUBSET Names]
           /\ astray' \subseteq Nat /\ raced' \in BOOLEAN /\ late' \in BOOLEAN
  <1> DEFINE Table == /\ route' \in [Names -> Conns \union {NoConn}]
                      /\ username' \in [Conns -> Names \union {NoName}]
                      /\ job' \in [Threads -> Jobs]
                      /\ received' \in Nat
                      /\ claims' \in [Conns -> SUBSET Names] /\ sole' \in [Conns -> SUBSET Names]
                      /\ astray' \subseteq Nat /\ raced' \in BOOLEAN
             Server == /\ acc' \in {"armed", "checked", "off"} /\ listening' \in BOOLEAN
                       /\ run' \in {"running", "stopped", "crashed"} /\ late' \in BOOLEAN
             Goal == Table /\ Server
  <1>0. /\ route \in [Names -> Conns \union {NoConn}]
        /\ username \in [Conns -> Names \union {NoName}]
        /\ job \in [Threads -> Jobs]
        /\ received \in Nat
        /\ claims \in [Conns -> SUBSET Names] /\ sole \in [Conns -> SUBSET Names]
        /\ astray \subseteq Nat /\ raced \in BOOLEAN
        /\ acc \in {"armed", "checked", "off"} /\ listening \in BOOLEAN
        /\ run \in {"running", "stopped", "crashed"} /\ late \in BOOLEAN
    BY DEF RouterTypeOK
  <1>1. UNCHANGED rvars => Table BY <1>0 DEF rvars, history
  <1>2. UNCHANGED svars => Server BY <1>0 DEF svars
  <1>3. ASSUME NEW t, NEW c \in Conns, Notify(t, c) PROVE Table
    <2>1. CASE username[c] = NoName BY <1>1, <1>3, <2>1 DEF Notify
    <2>2. CASE username[c] # NoName
      <3>1. PICK erased \in SUBSET {username[c]}, lost \in SUBSET Names :
              /\ route' = [n \in Names |-> IF n \in erased \union lost THEN NoConn ELSE route[n]]
              /\ job' = Unlink(erased, lost)
        BY <1>3, <2>2 DEF Notify
      <3>2. job' \in [Threads -> Jobs]
        <4>1. job' = [t2 \in Threads |-> Unlink(erased, lost)[t2]]
          BY <3>1 DEF Unlink
        <4> QED BY <4>1, UnlinkKeeps
      <3>3. route' \in [Names -> Conns \union {NoConn}] BY <1>0, <3>1
      <3>4. raced' \in BOOLEAN
        <4>1. raced' = (raced \/ CloseRace(t, c)) BY <1>3, <2>2 DEF Notify
        <4> QED BY <4>1, <1>0
      <3>5. UNCHANGED <<username, received, claims, sole, astray>>
        BY <1>3, <2>2 DEF Notify
      <3> QED BY <1>0, <3>2, <3>3, <3>4, <3>5
    <2> QED BY <2>1, <2>2
  <1>4. ASSUME NEW c \in Conns, PacketArrives(c) PROVE Goal
    <2>1. PICK p \in Packets :
            /\ job' = [job EXCEPT ![ThreadOf[c]] = NewJob(p)]
            /\ claims' = [claims EXCEPT ![c] = @ \union {p.src}]
            /\ sole' = SoleAfter(c, p.src)
            /\ p.src \in Names /\ NewJob(p) \in Jobs
      BY <1>4, ArrivesShape
    <2>2. job' \in [Threads -> Jobs] BY <1>0, <2>1
    <2>3. claims' \in [Conns -> SUBSET Names] BY <1>0, <2>1
    <2>4. sole' \in [Conns -> SUBSET Names] BY <1>0, <2>1 DEF SoleAfter
    <2>5. UNCHANGED <<route, username, astray, raced>> /\ received' = received + 1 /\ UNCHANGED svars
      BY <1>4 DEF PacketArrives
    <2> QED BY <1>0, <1>2, <2>2, <2>3, <2>4, <2>5
  <1>5. ASSUME NEW t \in Threads, FindSrc(t) PROVE Goal
    <2>1. PICK seen \in BOOLEAN : job' = [job EXCEPT ![t].at =
                    IF seen /\ route[job[t].pkt.src] # NoConn THEN "lookup" ELSE "insert"]
      BY <1>5 DEF FindSrc
    <2>2. [job[t] EXCEPT !.at =
              IF seen /\ route[job[t].pkt.src] # NoConn THEN "lookup" ELSE "insert"] \in Jobs
      BY <1>5, JobShape DEF FindSrc, Jobs
    <2>3. job' \in [Threads -> Jobs] BY <1>0, <2>1, <2>2
    <2>4. raced' \in BOOLEAN
      <3>1. raced' = (raced \/ Race(t)) BY <1>5 DEF FindSrc
      <3> QED BY <3>1, <1>0
    <2>5. UNCHANGED <<svars, route, username, received, claims, sole, astray>>
      BY <1>5 DEF FindSrc
    <2> QED BY <1>0, <1>2, <2>3, <2>4, <2>5
  <1>6. ASSUME NEW t \in Threads, InsertSrc(t) PROVE Goal
    <2>1. job[t].at = "insert" /\ job[t].pkt.src \in Names /\ job[t].pkt.from \in Conns
          /\ Enter(t, job[t].pkt.src)
      BY <1>6, JobShape DEF InsertSrc
    <2>2. job' \in [Threads -> Jobs] /\ astray' \subseteq Nat BY <2>1, EnterKeeps
    <2>3. route' \in [Names -> Conns \union {NoConn}] BY <1>0, <2>1 DEF Enter
    <2>4. username' \in [Conns -> Names \union {NoName}] BY <1>0, <1>6, <2>1 DEF InsertSrc
    <2>5. raced' \in BOOLEAN
      <3>1. raced' = (raced \/ Race(t)) BY <2>1 DEF Enter
      <3> QED BY <3>1, <1>0
    <2>6. UNCHANGED <<svars, received, claims, sole>> BY <2>1 DEF Enter
    <2> QED BY <1>0, <1>2, <2>2, <2>3, <2>4, <2>5, <2>6
  <1>7. ASSUME NEW t \in Threads, FindDest(t) PROVE Goal
    <2> DEFINE d == job[t].pkt.dest
    <2>1. job[t].at # "idle" /\ d \in Names BY <1>7, JobShape DEF FindDest
    <2>2. PICK seen \in BOOLEAN :
            job' = [job EXCEPT ![t] = [@ EXCEPT !.at = "deref",
                     !.it = IF seen THEN route[d] ELSE NoConn,
                     !.node = IF seen /\ route[d] # NoConn THEN d ELSE NoName]]
      BY <1>7 DEF FindDest
    <2> HIDE DEF d
    <2> DEFINE x == IF seen THEN route[d] ELSE NoConn
               y == IF seen /\ route[d] # NoConn THEN d ELSE NoName
    <2>3. x \in Conns \union {NoConn} /\ y \in Names \union {NoName} BY <1>0, <2>1
    <2>4. job' = [job EXCEPT ![t] = [job[t] EXCEPT !.at = "deref", !.it = x, !.node = y]]
      BY <2>2
    <2> HIDE DEF x, y
    <2>5. [job[t] EXCEPT !.at = "deref", !.it = x, !.node = y] \in Jobs
      BY <2>1, <2>3, JobShape DEF Jobs
    <2>6. job' \in [Threads -> Jobs] BY <1>0, <2>4, <2>5
    <2>7. raced' \in BOOLEAN
      <3>1. raced' = (raced \/ Race(t)) BY <1>7 DEF FindDest
      <3> QED BY <3>1, <1>0
    <2>8. UNCHANGED <<svars, route, username, received, claims, sole, astray>>
      BY <1>7 DEF FindDest
    <2> QED BY <1>0, <1>2, <2>6, <2>7, <2>8
  <1>8. ASSUME NEW t \in Threads, Forward(t) \/ Miss(t) PROVE Goal
    <2>1. NoJob \in Jobs BY DEF Jobs
    <2>2. Leave(t) BY <1>8 DEF Forward, Miss
    <2> QED BY <1>0, <1>2, <2>1, <2>2 DEF Leave, history
  <1>9. CASE AcceptCheck \/ AcceptError \/ CloseAcceptor
    <2>1. Table BY <1>1, <1>9 DEF AcceptCheck, AcceptError, CloseAcceptor
    <2>2. Server BY <1>0, <1>9 DEF AcceptCheck, AcceptError, CloseAcceptor
    <2> QED BY <2>1, <2>2
  <1>10. CASE StopConnections
    BY <1>1, <1>2, <1>3, <1>10 DEF StopConnections
  <1>11. CASE StopServices \/ Crash
    <2>1. Table BY <1>1, <1>11 DEF StopServices, Crash
    <2>2. Server BY <1>0, <1>11 DEF StopServices, Crash
    <2> QED BY <2>1, <2>2
  <1>12. ASSUME NEW c \in Conns, AcceptStart(c) PROVE Goal
    <2>1. Table BY <1>1, <1>12 DEF AcceptStart
    <2>2. Server BY <1>0, <1>12 DEF AcceptStart
    <2> QED BY <2>1, <2>2
  <1>13. ASSUME NEW c \in Conns,
                \/ OtherMessage(c) \/ NextMessage(c) \/ OtherHandler(c) \/ Completion(c)
         PROVE  Goal
    BY <1>1, <1>2, <1>13 DEF OtherMessage, NextMessage, OtherHandler, Completion
  <1>14. ASSUME NEW c \in Conns, CloseHandler(c) PROVE Goal
    BY <1>2, <1>3, <1>14 DEF CloseHandler
  <1>15. CASE UNCHANGED vars BY <1>1, <1>2, <1>15 DEF vars
  <1> QED BY <1>4, <1>5, <1>6, <1>7, <1>8, <1>9, <1>10, <1>11, <1>12, <1>13, <1>14, <1>15
          DEF Step, Running, Over

LEMMA RouterTypeStep ==
    ASSUME Packets \subseteq Msgs, RInv, Step
    PROVE  RInv'
  <1>1. IInv' BY ConnectionKept DEF RInv
  <1>2. \A c \in Conns : \A i \in DOMAIN Traffic(c)' : Traffic(c)'[i].ttl > 0
    <2>1. CASE Kernel \/ UNCHANGED cvars
      <3>1. \A c \in Conns : Traffic(c)' = Traffic(c) BY <2>1, KernelTraffic DEF RInv
      <3> QED BY <3>1 DEF RInv, RouterTypeOK
    <2>2. ASSUME NEW t \in Threads, Writes(t), NEW c \in Conns, NEW i \in DOMAIN Traffic(c)'
          PROVE  Traffic(c)'[i].ttl > 0
      <3> DEFINE m == [job[t].pkt EXCEPT !.ttl = @ - 1]
      <3>1. m.ttl > 0
        <4>1. job[t].pkt \in Packets /\ job[t].pkt.ttl \in Nat
          BY <2>2, WritesFrame, JobShape DEF RInv
        <4>2. m.ttl = job[t].pkt.ttl - 1 BY <4>1 DEF Packets
        <4> QED BY <2>2, <4>1, <4>2 DEF Writes
      <3> HIDE DEF m
      <3>2. Traffic(c) \in Seq(Msgs) BY TrafficType DEF RInv
      <3>3. Traffic(c)' = Traffic(c) \/ Traffic(c)' = Append(Traffic(c), m)
        BY <2>2, WritesTraffic DEF RInv, m
      <3>4. \A j \in DOMAIN Traffic(c) : Traffic(c)[j].ttl > 0 BY DEF RInv, RouterTypeOK
      <3> QED BY <2>2, <3>1, <3>2, <3>3, <3>4
    <2> QED BY <2>1, <2>2, StepOfConnection DEF RInv
  <1>3. RouterTypeOK'
    BY <1>1, <1>2, RvarsType DEF RInv, RouterTypeOK, IInv
  <1> QED BY <1>1, <1>3 DEF RInv

LEMMA RInvInvariant ==
    ASSUME Packets \subseteq Msgs
    PROVE  RouterSpec => []RInv
  <1>1. RInv /\ [Running \/ Over]_vars => RInv'
    BY RouterTypeStep DEF Step
  <1>2. RouterInit => RInv BY RouterStart
  <1> QED BY <1>1, <1>2, PTL DEF RouterSpec

\* The type invariant, and that no packet is written whose time to live has
\* run out.
THEOREM RouterTypes ==
    ASSUME Packets \subseteq Msgs
    PROVE  RouterSpec => []RouterTypeOK
  <1>1. RInv => RouterTypeOK BY DEF RInv
  <1> QED BY <1>1, RInvInvariant, PTL

-----------------------------------------------------------------------------
(* The connections do under Router what they promise on their own            *)

\* No interleaving of the routing table's threads with a connection's own
\* handlers strands a message in a queue, or has handle_write find it empty.
THEOREM RouterWriterNeverStalls ==
    ASSUME Packets \subseteq Msgs
    PROVE  RouterSpec => []NoStalledQueue
  <1>1. RInv => NoStalledQueue BY DEF RInv, IInv
  <1> QED BY <1>1, RInvInvariant, PTL

\* However accepting, close handlers and terminator() interleave, no open socket
\* is out of the manager's reach.
THEOREM RouterSocketsNeverLeak ==
    ASSUME Packets \subseteq Msgs
    PROVE  RouterSpec => []NoSocketLeak
  <1>1. RInv => NoSocketLeak BY DEF RInv, IInv
  <1> QED BY <1>1, RInvInvariant, PTL

LEMMA RouterStepRefines ==
    ASSUME Packets \subseteq Msgs, RInv, Step
    PROVE  [Stream!StreamNext]_(Stream!svars)
  <1>1. CASE Kernel \/ UNCHANGED cvars
    <2>1. [Next]_cvars BY <1>1 DEF Kernel, Next
    <2> QED BY <2>1, StepRefines DEF RInv
  <1>2. ASSUME NEW t \in Threads, Writes(t) PROVE Stream!StreamNext
    <2> DEFINE m == [job[t].pkt EXCEPT !.ttl = @ - 1]
               c == job[t].it
    <2>1. c \in Conns /\ m \in Msgs /\ PostWrite(c, m) /\ UNCHANGED <<life, reader>>
      BY <1>2, WritesFrame DEF Writes
    <2> HIDE DEF m, c
    <2>2. Stream!Accept(c, m) BY <2>1, PostWriteAccepts DEF RInv
    <2> QED BY <2>1, <2>2 DEF Stream!StreamNext
  <1> QED BY <1>1, <1>2, StepOfConnection DEF RInv

\* process_packet, run by any number of threads at once, uses write_msg as it may
\* be used: every packet forwarded leaves its connection whole, in the order it
\* was written, at most once, and none after the connection broke.
THEOREM RouterImplementsStream ==
    ASSUME Packets \subseteq Msgs
    PROVE  RouterSpec => ImplementsStream
  <1>1. RouterInit => Stream!StreamInit
    <2>1. Init => Stream!StreamInit BY StreamStart
    <2> QED BY <2>1 DEF RouterInit
  <1>2. RInv /\ [Running \/ Over]_vars => [Stream!StreamNext]_(Stream!svars)
    BY RouterStepRefines DEF Step
  <1> QED BY <1>1, <1>2, RInvInvariant, PTL DEF RouterSpec, ImplementsStream, Stream!StreamSpec

-----------------------------------------------------------------------------
(* How a packet, a table entry and a name come about                         *)

\* A close, with its notification.
Closes(c) ==
    /\ \E t \in {ThreadOf[c], SignalThread} : Notify(t, c)
    /\ sock' = [sock EXCEPT ![c] = "closed"] /\ abort' = abort \union {c}
    /\ phase' = phase /\ (phase = "up" => Idle(c))
    /\ ~Released(c)

LEMMA RouterMoves ==
    ASSUME Step
    PROVE  \/ UNCHANGED rvars
           \/ \E c \in Conns : Closes(c) \/ PacketArrives(c)
           \/ \E t \in Threads : FindSrc(t) \/ InsertSrc(t) \/ FindDest(t) \/ Forward(t) \/ Miss(t)
  <1>1. ASSUME NEW c \in Conns, CloseHandler(c) PROVE Closes(c)
    BY <1>1 DEF CloseHandler, Closes, HandleReadError, Reject, HandleWriteError, Close, Stop, Released
  <1>2. ASSUME StopConnections PROVE UNCHANGED rvars \/ \E c \in Conns : Closes(c)
    BY <1>2 DEF StopConnections, Closes, StopAllEach, Stop, Released
  <1>3. CASE UNCHANGED vars BY <1>3 DEF vars
  <1>4. CASE Running
    BY <1>1, <1>2, <1>4 DEF Running, AcceptCheck, AcceptError, CloseAcceptor, StopServices, Crash,
       AcceptStart, OtherMessage, NextMessage, OtherHandler, Completion
  <1> QED BY <1>3, <1>4 DEF Step, Over

\* What connection_notify changes.
LEMMA NotifyMoves ==
    ASSUME RouterTypeOK, NEW s, NEW c \in Conns, Notify(s, c)
    PROVE  /\ UNCHANGED <<username, received, claims, sole, astray>> /\ (raced => raced')
           /\ \A t \in Threads :
                /\ job'[t].at = job[t].at
                /\ job[t].at # "idle" => job'[t].pkt = job[t].pkt /\ job'[t].it = job[t].it
           /\ \A n \in Names :
                /\ route'[n] \in {route[n], NoConn}
                /\ ~raced' => route'[n] = IF n = username[c] THEN NoConn ELSE route[n]
  <1>1. CASE username[c] = NoName
    BY <1>1, RouterAssumption DEF Notify, rvars, history
  <1>2. CASE username[c] # NoName
    <2>1. PICK erased \in SUBSET {username[c]}, lost \in SUBSET Names :
              /\ CloseRace(s, c) \/ (erased # {} /\ lost = {})
              /\ route' = [n \in Names |-> IF n \in erased \union lost THEN NoConn ELSE route[n]]
              /\ job' = Unlink(erased, lost)
      BY <1>2 DEF Notify
    <2>2. /\ UNCHANGED <<username, received, claims, sole, astray>>
          /\ raced' = (raced \/ CloseRace(s, c))
      BY <1>2 DEF Notify
    <2>3. ~raced' => erased = {username[c]} /\ lost = {}
      BY <2>1, <2>2
    <2>4. \A n \in Names :
                /\ route'[n] \in {route[n], NoConn}
                /\ ~raced' => route'[n] = IF n = username[c] THEN NoConn ELSE route[n]
      BY <2>1, <2>3
    <2>5. \A t \in Threads :
                /\ job'[t].at = job[t].at
                /\ job[t].at # "idle" => job'[t].pkt = job[t].pkt /\ job'[t].it = job[t].it
      BY <2>1, UnlinkKeeps
    <2> QED BY <2>2, <2>4, <2>5
  <1> QED BY <1>1, <1>2

\* A job keeps its packet until it is over, and its iterator's connection
\* unless the node is used again.
JobMove(t) ==
    /\ job'[t].at = "idle" => job[t].at \in {"idle", "deref"}
    /\ job'[t].at # "idle" =>
        /\ job[t].at # "idle" /\ job'[t].pkt = job[t].pkt
        /\ \/ job'[t].at = job[t].at /\ (job'[t].it = job[t].it \/ job[t].pkt.nth \in astray')
           \/ FindSrc(t) /\ job'[t].at \in {"insert", "lookup"}
              /\ (job'[t].at = "lookup" => route[job[t].pkt.src] # NoConn)
           \/ InsertSrc(t) /\ job'[t].at = "lookup"
           \/ FindDest(t) /\ job'[t].at = "deref" /\ job'[t].it \in {NoConn, route[job[t].pkt.dest]}

LEMMA JobMoves ==
    ASSUME RouterTypeOK, Step, \A c \in Conns : ~PacketArrives(c), NEW t \in Threads
    PROVE  JobMove(t)
  <1>0. job \in [Threads -> Jobs] BY DEF RouterTypeOK
  <1>1. CASE UNCHANGED rvars BY <1>1 DEF rvars, JobMove
  <1>2. ASSUME NEW s, NEW c \in Conns, Notify(s, c) PROVE JobMove(t)
    BY <1>2, NotifyMoves DEF JobMove
  <1>3. ASSUME NEW u \in Threads, u # t, FindSrc(u) \/ FindDest(u) \/ Forward(u) \/ Miss(u)
        PROVE  JobMove(t)
    <2>1. job'[t] = job[t]
      BY <1>0, <1>3 DEF FindSrc, FindDest, Forward, Miss, Leave
    <2> QED BY <2>1 DEF JobMove
  <1>4. CASE FindSrc(t)
    <2>1. PICK seen \in BOOLEAN : job' = [job EXCEPT ![t].at =
                    IF seen /\ route[job[t].pkt.src] # NoConn THEN "lookup" ELSE "insert"]
      BY <1>4 DEF FindSrc
    <2> DEFINE a == IF seen /\ route[job[t].pkt.src] # NoConn THEN "lookup" ELSE "insert"
    <2>2. job'[t] = [job[t] EXCEPT !.at = a] /\ job[t].at # "idle"
      BY <1>0, <1>4, <2>1 DEF FindSrc
    <2>3. a \in {"insert", "lookup"} /\ (a = "lookup" => route[job[t].pkt.src] # NoConn)
      OBVIOUS
    <2> HIDE DEF a
    <2>4. job'[t].at = a /\ job'[t].pkt = job[t].pkt BY <2>2, JobShape
    <2> QED BY <1>4, <2>2, <2>3, <2>4 DEF JobMove
  <1>5. ASSUME NEW u \in Threads, InsertSrc(u) PROVE JobMove(t)
    <2>1. job[u].at = "insert" /\ job[u].pkt.src \in Names /\ Enter(u, job[u].pkt.src)
      BY <1>5, JobShape DEF InsertSrc
    <2>2. /\ job'[t].at = IF t = u THEN "lookup" ELSE job[t].at
          /\ job[t].at # "idle" =>
                    /\ job'[t].pkt = job[t].pkt
                    /\ job'[t].it = job[t].it \/ job[t].pkt.nth \in astray'
      BY <2>1, EnterKeeps
    <2> QED BY <1>5, <2>1, <2>2 DEF JobMove
  <1>6. CASE FindDest(t)
    <2>1. PICK seen \in BOOLEAN :
            job' = [job EXCEPT ![t] = [@ EXCEPT !.at = "deref",
                     !.it = IF seen THEN route[job[t].pkt.dest] ELSE NoConn,
                     !.node = IF seen /\ route[job[t].pkt.dest] # NoConn
                              THEN job[t].pkt.dest ELSE NoName]]
      BY <1>6 DEF FindDest
    <2> DEFINE x == IF seen THEN route[job[t].pkt.dest] ELSE NoConn
               y == IF seen /\ route[job[t].pkt.dest] # NoConn THEN job[t].pkt.dest ELSE NoName
    <2>2. job'[t] = [job[t] EXCEPT !.at = "deref", !.it = x, !.node = y]
      BY <1>0, <2>1
    <2>3. x \in {NoConn, route[job[t].pkt.dest]} OBVIOUS
    <2> HIDE DEF x, y
    <2>4. job[t].at # "idle" BY <1>6 DEF FindDest
    <2>5. job'[t].at = "deref" /\ job'[t].pkt = job[t].pkt /\ job'[t].it = x
      BY <2>2, <2>4, JobShape
    <2> QED BY <1>6, <2>3, <2>4, <2>5 DEF JobMove
  <1>7. CASE Forward(t) \/ Miss(t)
    <2>1. job'[t] = NoJob /\ job[t].at = "deref" BY <1>0, <1>7 DEF Forward, Miss, Leave
    <2> QED BY <2>1 DEF NoJob, JobMove
  <1> QED BY <1>1, <1>2, <1>3, <1>4, <1>5, <1>6, <1>7, RouterMoves DEF Closes

\* Only a packet that arrives changes what is remembered of its connection.
LEMMA ClaimsSame ==
    ASSUME RouterTypeOK, Step, \A c \in Conns : ~PacketArrives(c)
    PROVE  claims' = claims /\ sole' = sole /\ received' = received
  <1>1. ASSUME NEW c \in Conns, Closes(c)
        PROVE claims' = claims /\ sole' = sole /\ received' = received
    BY <1>1, NotifyMoves DEF Closes
  <1>2. CASE UNCHANGED rvars BY <1>2 DEF rvars, history
  <1>3. ASSUME NEW t \in Threads,
               FindSrc(t) \/ InsertSrc(t) \/ FindDest(t) \/ Forward(t) \/ Miss(t)
        PROVE claims' = claims /\ sole' = sole /\ received' = received
    BY <1>3 DEF FindSrc, InsertSrc, Enter, FindDest, Forward, Miss, Leave, history
  <1> QED BY <1>1, <1>2, <1>3, RouterMoves

LEMMA ClaimsGrow ==
    ASSUME RouterTypeOK, Step, NEW c \in Conns
    PROVE  claims[c] \subseteq claims'[c]
  <1>1. ASSUME NEW d \in Conns, PacketArrives(d) PROVE claims[c] \subseteq claims'[c]
    <2>1. PICK p \in Packets : claims' = [claims EXCEPT ![d] = @ \union {p.src}]
      BY <1>1, ArrivesShape
    <2> QED BY <2>1 DEF RouterTypeOK
  <1> QED BY <1>1, ClaimsSame

\* A node that was used again and a race are remembered.
LEMMA HistoryGrows ==
    ASSUME RouterTypeOK, Step
    PROVE  astray \subseteq astray' /\ (raced => raced')
  <1>1. ASSUME NEW c \in Conns, Closes(c) PROVE astray' = astray /\ (raced => raced')
    BY <1>1, NotifyMoves DEF Closes
  <1>2. CASE UNCHANGED <<astray, raced>> BY <1>2
  <1>3. ASSUME NEW t \in Threads, InsertSrc(t) PROVE astray \subseteq astray' /\ (raced => raced')
    BY <1>3, JobShape DEF InsertSrc, Enter
  <1>4. ASSUME NEW t \in Threads, FindSrc(t) \/ FindDest(t) PROVE astray' = astray /\ (raced => raced')
    BY <1>4 DEF FindSrc, FindDest
  <1>5. ASSUME NEW t \in Threads, Forward(t) \/ Miss(t) PROVE UNCHANGED <<astray, raced>>
    BY <1>5 DEF Forward, Miss, Leave, history
  <1> QED BY <1>1, <1>2, <1>3, <1>4, <1>5, RouterMoves DEF rvars, history, PacketArrives

\* An entry is made by InsertSrc and goes with a close, or in a race; a name is
\* stored by InsertSrc.
LEMMA RouteMoves ==
    ASSUME RouterTypeOK, Step, NEW n \in Names
    PROVE  \/ route'[n] = route[n]
           \/ route'[n] = NoConn /\ (raced' \/ \E c \in Conns : Closes(c) /\ username[c] = n)
           \/ \E t \in Threads : InsertSrc(t) /\ n = job[t].pkt.src /\ route'[n] = job[t].pkt.from
  <1>1. ASSUME NEW t \in Threads, InsertSrc(t)
        PROVE  \/ route'[n] = route[n]
               \/ route'[n] = NoConn /\ raced'
               \/ n = job[t].pkt.src /\ route'[n] = job[t].pkt.from
    <2>1. PICK lost \in SUBSET Names :
            /\ Race(t) \/ lost = {}
            /\ route' = [m \in Names |-> IF m \in lost THEN NoConn
                            ELSE IF m = job[t].pkt.src /\ route[job[t].pkt.src] = NoConn
                            THEN job[t].pkt.from ELSE route[m]]
            /\ raced' = (raced \/ Race(t))
      BY <1>1 DEF InsertSrc, Enter
    <2> QED BY <2>1
  <1>2. ASSUME NEW c \in Conns, Closes(c)
        PROVE  route'[n] = route[n] \/ (route'[n] = NoConn /\ (raced' \/ username[c] = n))
    BY <1>2, NotifyMoves DEF Closes
  <1>3. CASE UNCHANGED rvars BY <1>3 DEF rvars
  <1> QED BY <1>1, <1>2, <1>3, RouterMoves
          DEF PacketArrives, FindSrc, FindDest, Forward, Miss, Leave

LEMMA NameMoves ==
    ASSUME RouterTypeOK, Step, NEW c \in Conns
    PROVE  \/ username'[c] = username[c]
           \/ \E t \in Threads :
                InsertSrc(t) /\ c = job[t].pkt.from /\ username'[c] = job[t].pkt.src
  <1>1. ASSUME NEW t \in Threads, InsertSrc(t)
        PROVE  username'[c] = username[c] \/ (c = job[t].pkt.from /\ username'[c] = job[t].pkt.src)
    BY <1>1 DEF InsertSrc, RouterTypeOK
  <1>2. ASSUME NEW d \in Conns, Closes(d) PROVE username' = username
    BY <1>2, NotifyMoves DEF Closes
  <1>3. CASE UNCHANGED rvars BY <1>3 DEF rvars
  <1> QED BY <1>1, <1>2, <1>3, RouterMoves
          DEF PacketArrives, FindSrc, FindDest, Forward, Miss, Leave

-----------------------------------------------------------------------------
(* Names belong to the connections that used them                            *)

Claimed ==
    /\ \A n \in Names : route[n] # NoConn => n \in claims[route[n]]
    /\ \A c \in Conns : username[c] # NoName => username[c] \in claims[c]
    /\ \A t \in Threads : job[t].at # "idle" =>
        /\ job[t].pkt.src \in claims[job[t].pkt.from]
        /\ job[t].at = "deref" /\ job[t].it # NoConn
            => job[t].pkt.dest \in claims[job[t].it] \/ job[t].pkt.nth \in astray

LEMMA ClaimedStep ==
    ASSUME RouterTypeOK, RouterTypeOK', Claimed, Step
    PROVE  Claimed'
  <1>1. ASSUME NEW t \in Threads, InsertSrc(t)
        PROVE  job[t].pkt.src \in claims[job[t].pkt.from] /\ job[t].pkt.from \in Conns
    BY <1>1, JobShape DEF InsertSrc, Claimed
  <1>2. \A n \in Names : route'[n] # NoConn => n \in claims'[route'[n]]
    <2> SUFFICES ASSUME NEW n \in Names, route'[n] # NoConn PROVE n \in claims'[route'[n]]
      OBVIOUS
    <2>1. CASE route'[n] = route[n]
      BY <2>1, ClaimsGrow DEF Claimed, RouterTypeOK
    <2>2. CASE \E t \in Threads : InsertSrc(t) /\ n = job[t].pkt.src /\ route'[n] = job[t].pkt.from
      BY <1>1, <2>2, ClaimsGrow
    <2> QED BY <2>1, <2>2, RouteMoves
  <1>3. \A c \in Conns : username'[c] # NoName => username'[c] \in claims'[c]
    BY <1>1, NameMoves, ClaimsGrow DEF Claimed
  <1>4. ASSUME NEW t \in Threads, job'[t].at # "idle"
        PROVE  /\ job'[t].pkt.src \in claims'[job'[t].pkt.from]
               /\ job'[t].at = "deref" /\ job'[t].it # NoConn
                    => job'[t].pkt.dest \in claims'[job'[t].it] \/ job'[t].pkt.nth \in astray'
    <2>1. CASE \A c \in Conns : ~PacketArrives(c)
      <3>1. job[t].at # "idle" /\ job'[t].pkt = job[t].pkt /\ claims' = claims
        <4>1. claims' = claims BY <2>1, ClaimsSame
        <4> QED BY <1>4, <2>1, <4>1, JobMoves DEF JobMove
      <3>2. ASSUME job'[t].at = "deref", job'[t].it # NoConn
            PROVE  job[t].pkt.dest \in claims[job'[t].it] \/ job[t].pkt.nth \in astray'
        <4>1. CASE job'[t].at = job[t].at /\ (job'[t].it = job[t].it \/ job[t].pkt.nth \in astray')
          BY <3>1, <3>2, <4>1, HistoryGrows DEF Claimed
        <4>2. CASE job'[t].it \in {NoConn, route[job[t].pkt.dest]}
          BY <3>1, <3>2, <4>2, JobShape DEF Claimed
        <4> QED BY <1>4, <2>1, <3>2, <4>1, <4>2, JobMoves DEF JobMove
      <3> QED BY <3>1, <3>2 DEF Claimed
    <2>2. ASSUME NEW c \in Conns, PacketArrives(c)
          PROVE  /\ job'[t].pkt.src \in claims'[job'[t].pkt.from]
                 /\ job'[t].at = "deref" /\ job'[t].it # NoConn
                        => job'[t].pkt.dest \in claims'[job'[t].it] \/ job'[t].pkt.nth \in astray'
      <3>0. job \in [Threads -> Jobs] /\ claims \in [Conns -> SUBSET Names]
        BY DEF RouterTypeOK
      <3>1. PICK p \in Packets :
              /\ job' = [job EXCEPT ![ThreadOf[c]] = NewJob(p)]
              /\ claims' = [claims EXCEPT ![c] = @ \union {p.src}]
              /\ p.from = c /\ NewJob(p).at = "find" /\ NewJob(p).pkt = p
        BY <2>2, ArrivesShape
      <3>2. CASE t = ThreadOf[c]
        <4>1. job'[t] = NewJob(p)
          BY <3>0, <3>1, <3>2
        <4> QED BY <3>0, <3>1, <4>1
      <3>3. CASE t # ThreadOf[c]
        <4>1. job'[t] = job[t] BY <3>0, <3>1, <3>3
        <4>2. job[t].at # "idle" BY <1>4, <4>1
        <4>3. job[t].pkt.from \in Conns /\ job[t].it \in Conns \union {NoConn}
          BY <4>2, JobShape
        <4>4. astray \subseteq astray' BY HistoryGrows
        <4> QED BY <4>1, <4>2, <4>3, <4>4, ClaimsGrow DEF Claimed
      <3> QED BY <3>2, <3>3
    <2> QED BY <2>1, <2>2
  <1> QED BY <1>2, <1>3, <1>4 DEF Claimed

LEMMA DeliveredStep ==
    ASSUME Packets \subseteq Msgs, RInv, Claimed, DeliveredToClaimant, Step
    PROVE  DeliveredToClaimant'
  <1>1. CASE Kernel \/ UNCHANGED cvars
    BY <1>1, KernelTraffic, ClaimsGrow, HistoryGrows DEF RInv, DeliveredToClaimant
  <1>2. ASSUME NEW t \in Threads, Writes(t), NEW c \in Conns, NEW i \in DOMAIN Traffic(c)'
        PROVE  Traffic(c)'[i].dest \in claims'[c] \/ Traffic(c)'[i].nth \in astray'
    <2> DEFINE m == [job[t].pkt EXCEPT !.ttl = @ - 1]
    <2>1. job[t].at = "deref" /\ job[t].it \in Conns BY <1>2, WritesFrame
    <2>2. m.dest \in claims[job[t].it] \/ m.nth \in astray
      <3>1. m.dest = job[t].pkt.dest /\ m.nth = job[t].pkt.nth BY <2>1, JobShape DEF RInv, Packets
      <3> QED BY <2>1, <3>1, RouterAssumption DEF Claimed
    <2> HIDE DEF m
    <2>3. Traffic(c) \in Seq(Msgs) BY TrafficType DEF RInv
    <2>4. Traffic(c)' = Traffic(c) \/ (c = job[t].it /\ Traffic(c)' = Append(Traffic(c), m))
      BY <1>2, WritesTraffic DEF RInv, m
    <2>5. \A j \in DOMAIN Traffic(c) : Traffic(c)[j].dest \in claims[c] \/ Traffic(c)[j].nth \in astray
      BY DEF DeliveredToClaimant
    <2>6. Traffic(c)'[i].dest \in claims[c] \/ Traffic(c)'[i].nth \in astray
      BY <1>2, <2>2, <2>3, <2>4, <2>5
    <2> QED BY <2>6, ClaimsGrow, HistoryGrows DEF RInv
  <1> QED BY <1>1, <1>2, StepOfConnection DEF RInv, DeliveredToClaimant

\* A packet goes only to a connection that has used the destination's name,
\* whatever happens to the route between the lookup and the write, unless the
\* node of its iterator was erased and used again.
THEOREM RouterDelivers ==
    ASSUME Packets \subseteq Msgs
    PROVE  RouterSpec => []DeliveredToClaimant
  <1>1. RouterInit => Claimed /\ DeliveredToClaimant
    <2> SUFFICES ASSUME RouterInit PROVE Claimed /\ DeliveredToClaimant
      OBVIOUS
    <2>1. Claimed BY DEF RouterInit, Claimed, NoJob
    <2>2. \A c \in Conns : Traffic(c) = <<>> /\ Traffic(c) \in Seq(Msgs)
      BY RouterStart, TrafficType DEF RInv
    <2> QED BY <2>1, <2>2 DEF DeliveredToClaimant
  <1>2. RInv /\ RInv' /\ Claimed /\ DeliveredToClaimant /\ [Running \/ Over]_vars
            => Claimed' /\ DeliveredToClaimant'
    BY ClaimedStep, DeliveredStep DEF Step, RInv
  <1> QED BY <1>1, <1>2, RInvInvariant, PTL DEF RouterSpec

-----------------------------------------------------------------------------
(* A packet is handled while its connection's handler runs                   *)

\* Jobs belong to connections inside do_message, which nothing but the
\* shutdown closes; a job's packet is one of those received.
Served ==
    \A t \in Threads : job[t].at # "idle" =>
        LET c == job[t].pkt.from IN
        /\ rd[c] = "handling" /\ ThreadOf[c] = t
        /\ phase = "up" => c \notin abort
        /\ job[t].pkt.nth < received

LEMMA HandlingEnds ==
    ASSUME RInv, Step, NEW c \in Conns, rd[c] = "handling"
    PROVE  rd'[c] = "handling" \/ NextMessage(c)
  <1> DEFINE Goal == rd'[c] = "handling" \/ NextMessage(c)
  <1>0. rd \in [Conns -> RdStates] BY DEF RInv, IInv, TypeOK
  <1>1. CASE UNCHANGED reader BY <1>1 DEF reader
  <1>2. ASSUME NEW d \in Conns, AcceptStart(d) PROVE Goal
    BY <1>0, <1>2 DEF AcceptStart, Start, RInv, IInv, Fresh
  <1>3. ASSUME NEW d \in Conns, PacketArrives(d) \/ OtherMessage(d) PROVE Goal
    BY <1>0, <1>3 DEF PacketArrives, OtherMessage, Dispatch
  <1>4. ASSUME NEW d \in Conns, NextMessage(d) PROVE Goal
    BY <1>0, <1>4 DEF NextMessage, Resume
  <1>5. ASSUME NEW d \in Conns, CloseHandler(d) PROVE Goal
    BY <1>0, <1>5 DEF CloseHandler, HandleReadError, Reject, HandleWriteError, reader
  <1>6. ASSUME NEW d \in Conns, OtherHandler(d) \/ Completion(d) PROVE Goal
    BY <1>0, <1>6 DEF OtherHandler, HandleReadHeader, DoWrite, HandleWrite, Completion,
       ReadCompletes, ReadFails, WriteCompletes, WriteFails, reader
  <1>7. ASSUME NEW t \in Threads,
               FindSrc(t) \/ InsertSrc(t) \/ FindDest(t) \/ Forward(t) \/ Miss(t)
        PROVE  Goal
    BY <1>7 DEF FindSrc, InsertSrc, Enter, FindDest, Forward, Miss, Leave, cvars, reader
  <1>8. CASE \/ AcceptCheck \/ AcceptError \/ CloseAcceptor \/ StopServices \/ Crash
             \/ StopConnections \/ UNCHANGED vars
    BY <1>8 DEF AcceptCheck, AcceptError, CloseAcceptor, StopServices, Crash, StopConnections,
       StopAllBegin, StopAllEach, StopAllEnd, vars, cvars, reader
  <1> QED BY <1>1, <1>2, <1>3, <1>4, <1>5, <1>6, <1>7, <1>8 DEF Step, Running, Over

\* A connection is stopped in Closes, and only there.
LEMMA AbortMoves ==
    ASSUME RInv, Step
    PROVE  /\ phase' = "up" => phase = "up"
           /\ abort' = abort \/ \E c \in Conns : Closes(c)
           /\ \A c \in Conns : sock'[c] \in {sock[c], "closed"} \/ AcceptStart(c)
  <1> USE DEF RInv, IInv, TypeOK
  <1>1. ASSUME NEW c \in Conns, CloseHandler(c)
        PROVE  Closes(c) /\ phase' = phase
    BY <1>1 DEF CloseHandler, Closes, HandleReadError, Reject, HandleWriteError, Close, Stop, Released
  <1>2. ASSUME NEW c \in Conns, StopAllEach(c), Notify(SignalThread, c)
        PROVE  Closes(c) /\ phase' = phase
    BY <1>2 DEF StopAllEach, Stop, Closes, Released
  <1>3. CASE UNCHANGED <<sock, abort>> /\ (phase' = "up" => phase = "up")
    BY <1>3
  <1>4. ASSUME NEW c \in Conns, AcceptStart(c)
        PROVE  abort' = abort /\ phase' = phase /\ sock' = [sock EXCEPT ![c] = "open"]
    BY <1>4 DEF AcceptStart, Start, NoSocketLeak
  <1>5. CASE StopConnections
    BY <1>2, <1>5 DEF StopConnections, StopAllBegin, StopAllEnd, Closes
  <1>6. CASE AcceptCheck \/ AcceptError \/ CloseAcceptor \/ StopServices \/ Crash \/ UNCHANGED vars
    BY <1>6 DEF AcceptCheck, AcceptError, CloseAcceptor, StopServices, Crash, vars, cvars
  <1>7. ASSUME NEW c \in Conns,
               \/ PacketArrives(c) \/ OtherMessage(c) \/ NextMessage(c)
               \/ OtherHandler(c) \/ Completion(c)
        PROVE  UNCHANGED life
    BY <1>7 DEF PacketArrives, OtherMessage, NextMessage, Dispatch, Resume,
       OtherHandler, HandleReadHeader, DoWrite, HandleWrite, Completion,
       ReadCompletes, ReadFails, WriteCompletes, WriteFails
  <1>8. ASSUME NEW t \in Threads,
               FindSrc(t) \/ InsertSrc(t) \/ FindDest(t) \/ Forward(t) \/ Miss(t)
        PROVE  UNCHANGED life
    BY <1>8 DEF FindSrc, InsertSrc, Enter, FindDest, Forward, Miss, Leave, cvars, life
  <1>9. CASE UNCHANGED life BY <1>9 DEF life
  <1>10. ASSUME NEW c \in Conns, Closes(c), phase' = phase
         PROVE  \A d \in Conns : sock'[d] \in {sock[d], "closed"}
    BY <1>10 DEF Closes
  <1> QED BY <1>1, <1>4, <1>5, <1>6, <1>7, <1>8, <1>9, <1>10
          DEF Step, Running, Over, Closes, StopConnections

LEMMA ServedStep ==
    ASSUME RInv, Served, Step
    PROVE  Served'
  <1>0. received \in Nat /\ received' \in Nat /\ received <= received'
    <2>1. received \in Nat BY DEF RInv, RouterTypeOK
    <2>2. ASSUME NEW c \in Conns, PacketArrives(c) PROVE received' = received + 1
      BY <2>2 DEF PacketArrives
    <2>3. CASE \A c \in Conns : ~PacketArrives(c)
      BY <2>1, <2>3, ClaimsSame DEF RInv
    <2> QED BY <2>1, <2>2, <2>3
  <1> SUFFICES ASSUME NEW t \in Threads, job'[t].at # "idle"
               PROVE  /\ rd'[job'[t].pkt.from] = "handling" /\ ThreadOf[job'[t].pkt.from] = t
                      /\ phase' = "up" => job'[t].pkt.from \notin abort'
                      /\ job'[t].pkt.nth < received'
    BY DEF Served
  <1> DEFINE c == job[t].pkt.from
  <1>1. ASSUME job[t].at # "idle", job'[t] # NoJob
        PROVE  /\ c \in Conns /\ rd'[c] = "handling" /\ ThreadOf[c] = t
               /\ phase' = "up" => c \notin abort'
               /\ job[t].pkt.nth < received'
    <2>1. /\ c \in Conns /\ rd[c] = "handling" /\ ThreadOf[c] = t
          /\ phase = "up" => c \notin abort
          /\ job[t].pkt.nth < received /\ job[t].pkt.nth \in Nat
      BY <1>1, JobShape DEF Served, RInv
    <2> HIDE DEF c
    <2>2. ~NextMessage(c)
      BY <1>1, <2>1 DEF NextMessage, NoJob
    <2>3. rd'[c] = "handling" BY <2>1, <2>2, HandlingEnds
    <2>4. phase' = "up" => c \notin abort'
      <3> SUFFICES ASSUME phase' = "up" PROVE c \notin abort'
        OBVIOUS
      <3>1. phase = "up" /\ c \notin abort BY <2>1, AbortMoves
      <3>2. ASSUME NEW d \in Conns, Closes(d) PROVE d # c
        BY <2>1, <3>1, <3>2 DEF Closes, Idle, Busy
      <3>3. \/ abort' = abort
            \/ \E d \in Conns : Closes(d)
        BY AbortMoves
      <3> QED BY <3>1, <3>2, <3>3 DEF Closes
    <2> QED BY <1>0, <2>1, <2>3, <2>4
  <1>2. CASE \A d \in Conns : ~PacketArrives(d)
    <2>1. job[t].at # "idle" /\ job'[t].pkt = job[t].pkt /\ job'[t] # NoJob
      BY <1>2, JobMoves DEF JobMove, RInv, NoJob
    <2> QED BY <1>1, <2>1
  <1>3. ASSUME NEW d \in Conns, PacketArrives(d)
        PROVE  /\ rd'[job'[t].pkt.from] = "handling" /\ ThreadOf[job'[t].pkt.from] = t
               /\ phase' = "up" => job'[t].pkt.from \notin abort'
               /\ job'[t].pkt.nth < received'
    <2>1. PICK p \in Packets :
            /\ job' = [job EXCEPT ![ThreadOf[d]] = NewJob(p)]
            /\ p.from = d /\ p.nth = received /\ NewJob(p).pkt = p
      BY <1>3, ArrivesShape DEF RInv
    <2>2. job \in [Threads -> Jobs] BY DEF RInv, RouterTypeOK
    <2>3. rd'[d] = "handling" /\ d \notin abort' /\ received' = received + 1
      BY <1>3 DEF PacketArrives, Dispatch, life, RInv, IInv, TypeOK
    <2>4. CASE t = ThreadOf[d]
      <3>1. job'[t] = NewJob(p) BY <2>1, <2>2, <2>4
      <3> QED BY <1>0, <2>1, <2>3, <2>4, <3>1
    <2>5. CASE t # ThreadOf[d]
      <3>1. job'[t] = job[t] BY <2>1, <2>2, <2>5
      <3> QED BY <1>1, <3>1 DEF NoJob
    <2> QED BY <2>4, <2>5
  <1> QED BY <1>2, <1>3

LEMMA ServedInvariant ==
    ASSUME Packets \subseteq Msgs
    PROVE  RouterSpec => [](RInv /\ Claimed /\ Served)
  <1>1. RouterInit => Claimed /\ Served
    BY DEF RouterInit, Claimed, Served, NoJob
  <1>2. RInv /\ RInv' /\ Claimed /\ Served /\ [Running \/ Over]_vars => Claimed' /\ Served'
    BY ClaimedStep, ServedStep DEF Step, RInv
  <1> QED BY <1>1, <1>2, RInvInvariant, PTL DEF RouterSpec

-----------------------------------------------------------------------------
(* Order                                                                     *)

\* What is on its way was received before, and before the packet its sender's
\* handler is at.
Sequel ==
    /\ \A c \in Conns : \A i \in DOMAIN Traffic(c) :
        Traffic(c)[i].nth \in Nat /\ Traffic(c)[i].nth < received
    /\ \A t \in Threads : job[t].at # "idle" =>
        \A c \in Conns : \A i \in DOMAIN Traffic(c) :
            Traffic(c)[i].from = job[t].pkt.from => Traffic(c)[i].nth < job[t].pkt.nth

LEMMA OrderStep ==
    ASSUME Packets \subseteq Msgs, RInv, Served, Sequel, InOrder, Step
    PROVE  Sequel' /\ InOrder'
  <1>1. CASE /\ \A c \in Conns : Traffic(c)' = Traffic(c)
             /\ \A c \in Conns : ~PacketArrives(c)
    <2>1. received' = received
      BY <1>1, ClaimsSame DEF RInv
    <2>2. InOrder' BY <1>1 DEF InOrder
    <2>3. \A t \in Threads : job'[t].at # "idle" => job[t].at # "idle" /\ job'[t].pkt = job[t].pkt
      BY <1>1, JobMoves DEF JobMove, RInv
    <2>4. Sequel' BY <1>1, <2>1, <2>3 DEF Sequel
    <2> QED BY <2>2, <2>4
  <1>2. ASSUME NEW c \in Conns, PacketArrives(c) PROVE Sequel' /\ InOrder'
    <2>1. PICK p \in Packets :
            /\ job' = [job EXCEPT ![ThreadOf[c]] = NewJob(p)]
            /\ p.from = c /\ p.nth = received /\ NewJob(p).pkt = p
      BY <1>2, ArrivesShape DEF RInv
    <2>2. \A d \in Conns : Traffic(d)' = Traffic(d)
      BY <1>2 DEF PacketArrives, Dispatch, Traffic, Unsent, writer
    <2>3. received' = received + 1 /\ received \in Nat /\ job \in [Threads -> Jobs]
      BY <1>2 DEF PacketArrives, RInv, RouterTypeOK
    <2>4. InOrder' BY <2>2 DEF InOrder
    <2>5. \A d \in Conns : \A i \in DOMAIN Traffic(d) :
            /\ Traffic(d)[i].nth \in Nat
            /\ Traffic(d)[i].nth < received /\ Traffic(d)[i].nth < received + 1
      <3> SUFFICES ASSUME NEW d \in Conns, NEW i \in DOMAIN Traffic(d)
                   PROVE  /\ Traffic(d)[i].nth \in Nat /\ Traffic(d)[i].nth < received
                          /\ Traffic(d)[i].nth < received + 1
        OBVIOUS
      <3> QED BY <2>3 DEF Sequel
    <2>6. ASSUME NEW t \in Threads, job'[t].at # "idle",
                 NEW d \in Conns, NEW i \in DOMAIN Traffic(d),
                 Traffic(d)[i].from = job'[t].pkt.from
          PROVE  Traffic(d)[i].nth < job'[t].pkt.nth
      <3>1. CASE t = ThreadOf[c]
        <4>1. job'[t].pkt = p BY <2>1, <2>3, <3>1, Zenon
        <4> QED BY <2>1, <2>5, <4>1
      <3>2. CASE t # ThreadOf[c]
        <4>1. job'[t] = job[t] BY <2>1, <2>3, <3>2
        <4> QED BY <2>6, <4>1 DEF Sequel
      <3> QED BY <3>1, <3>2
    <2>7. Sequel' BY <2>2, <2>3, <2>5, <2>6 DEF Sequel
    <2> QED BY <2>4, <2>7
  <1>3. ASSUME NEW t \in Threads, Writes(t) PROVE Sequel' /\ InOrder'
    <2> DEFINE m == [job[t].pkt EXCEPT !.ttl = @ - 1]
    <2>1. job[t].at = "deref" /\ job[t].it \in Conns BY <1>3, WritesFrame
    <2>2. m.from = job[t].pkt.from /\ m.nth = job[t].pkt.nth
      BY <2>1, JobShape DEF RInv, Packets
    <2> HIDE DEF m
    <2>3. received' = received /\ job' = [job EXCEPT ![t] = NoJob] /\ job \in [Threads -> Jobs]
      BY <1>3 DEF Writes, Forward, Leave, RInv, RouterTypeOK
    <2>4. \A c \in Conns : /\ Traffic(c) \in Seq(Msgs)
                           /\ Traffic(c)' = Traffic(c) \/ Traffic(c)' = Append(Traffic(c), m)
      BY <1>3, WritesTraffic, TrafficType DEF RInv, m
    <2>5. m.nth < received /\ m.nth \in Nat BY <2>1, <2>2, JobShape DEF Served, RInv
    <2>6. \A c \in Conns : \A i \in DOMAIN Traffic(c) : Traffic(c)[i].from = m.from
                => Traffic(c)[i].nth < m.nth
      BY <2>1, <2>2 DEF Sequel
    <2>7. \A c \in Conns : \A i \in DOMAIN Traffic(c)' :
            Traffic(c)'[i].nth \in Nat /\ Traffic(c)'[i].nth < received'
      <3>1. \A c \in Conns : \A i \in DOMAIN Traffic(c) :
                Traffic(c)[i].nth \in Nat /\ Traffic(c)[i].nth < received
        BY DEF Sequel
      <3>2. \A c \in Conns : \A i \in DOMAIN Traffic(c)' :
                (i \in DOMAIN Traffic(c) /\ Traffic(c)'[i] = Traffic(c)[i]) \/ Traffic(c)'[i] = m
        BY <2>4
      <3> QED BY <2>3, <2>5, <3>1, <3>2
    <2>8. ASSUME NEW u \in Threads, job'[u].at # "idle",
                 NEW c \in Conns, NEW i \in DOMAIN Traffic(c)',
                 Traffic(c)'[i].from = job'[u].pkt.from
          PROVE  Traffic(c)'[i].nth < job'[u].pkt.nth
      <3>1. u # t /\ job'[u] = job[u] BY <2>3, <2>8 DEF NoJob
      <3>2. job[u].pkt.from # m.from BY <2>1, <2>2, <2>8, <3>1 DEF Served
      <3>3. \A j \in DOMAIN Traffic(c) :
                Traffic(c)[j].from = job[u].pkt.from => Traffic(c)[j].nth < job[u].pkt.nth
        BY <2>8, <3>1 DEF Sequel
      <3> QED BY <2>4, <2>8, <3>1, <3>2, <3>3
    <2>9. InOrder'
      <3> SUFFICES ASSUME NEW c \in Conns, NEW i \in DOMAIN Traffic(c)', NEW j \in DOMAIN Traffic(c)',
                          i < j, Traffic(c)'[i].from = Traffic(c)'[j].from
                   PROVE  Traffic(c)'[i].nth < Traffic(c)'[j].nth
        BY DEF InOrder
      <3>1. \A k, l \in DOMAIN Traffic(c) :
                k < l /\ Traffic(c)[k].from = Traffic(c)[l].from => Traffic(c)[k].nth < Traffic(c)[l].nth
        BY DEF InOrder
      <3> QED BY <2>4, <2>6, <3>1
    <2> QED BY <2>7, <2>8, <2>9 DEF Sequel
  <1>4. ASSUME Kernel \/ UNCHANGED cvars PROVE \A c \in Conns : Traffic(c)' = Traffic(c)
    BY <1>4, KernelTraffic DEF RInv
  <1> QED BY <1>1, <1>2, <1>3, <1>4, StepOfConnection DEF RInv

\* The packets of one connection to another arrive in the order they were
\* sent, each at most once.
THEOREM RouterKeepsOrder ==
    ASSUME Packets \subseteq Msgs
    PROVE  RouterSpec => []InOrder
  <1>1. RouterInit => Sequel /\ InOrder
    <2> SUFFICES ASSUME RouterInit PROVE Sequel /\ InOrder
      OBVIOUS
    <2>1. \A c \in Conns : Traffic(c) = <<>> /\ Traffic(c) \in Seq(Msgs)
      BY RouterStart, TrafficType DEF RInv
    <2> QED BY <2>1 DEF Sequel, InOrder, RouterInit, NoJob
  <1>2. RInv /\ Served /\ Sequel /\ InOrder /\ [Running \/ Over]_vars => Sequel' /\ InOrder'
    BY OrderStep DEF Step
  <1> QED BY <1>1, <1>2, ServedInvariant, PTL DEF RouterSpec

-----------------------------------------------------------------------------
(* A client whose name nobody else uses is entered under it                  *)

\* A closed connection that nothing holds any more stays so.
LEMMA ReleasedStays ==
    ASSUME RInv, Step, NEW d \in Conns, sock[d] = "closed", Released(d)
    PROVE  sock'[d] = "closed" /\ Released(d)'
  <1> USE DEF RInv, IInv, TypeOK
  <1>1. CASE UNCHANGED cvars BY <1>1 DEF cvars, Released
  <1>2. ASSUME NEW t \in Threads, Writes(t) PROVE sock'[d] = "closed" /\ Released(d)'
    <2>1. job[t].it # d /\ job[t].it \in Conns
      BY <1>2 DEF Writes, Forward
    <2>2. /\ UNCHANGED <<life, reader>>
          /\ PostWrite(job[t].it, [job[t].pkt EXCEPT !.ttl = @ - 1])
      BY <1>2, WritesFrame DEF Writes
    <2> QED BY <2>1, <2>2 DEF PostWrite, Released, life, reader
  <1>3. ASSUME NEW c \in Conns,
               \/ Start(c) \/ StopAllEach(c)
               \/ ReadCompletes(c) \/ ReadFails(c) \/ HandleReadError(c)
               \/ HandleReadHeader(c) \/ Reject(c) \/ Dispatch(c) \/ Resume(c)
        PROVE  sock'[d] = "closed" /\ Released(d)'
    BY <1>3 DEF Start, StopAllEach, ReadCompletes, ReadFails, HandleReadError, HandleReadHeader,
       Reject, Dispatch, Resume, Close, Stop, Released, life, reader, writer
  <1>4. ASSUME NEW c \in Conns,
               \/ DoWrite(c) \/ WriteCompletes(c) \/ WriteFails(c)
               \/ HandleWrite(c) \/ HandleWriteError(c)
        PROVE  sock'[d] = "closed" /\ Released(d)'
    BY <1>4 DEF DoWrite, WriteCompletes, WriteFails, HandleWrite, HandleWriteError,
       Close, Stop, Released, life, reader
  <1>5. CASE StopAllBegin \/ StopAllEnd
    BY <1>5 DEF StopAllBegin, StopAllEnd, Released, reader, writer
  <1> QED BY <1>1, <1>2, <1>3, <1>4, <1>5, StepOfConnection DEF Kernel

LEMMA LeftNothingStays ==
    ASSUME RInv, Served, Step, NEW d \in Conns, NEW n \in Names, LeftNothing(d, n)
    PROVE  LeftNothing(d, n)'
  <1>1. sock'[d] = "closed" /\ Released(d)' BY ReleasedStays DEF LeftNothing
  <1>2. ASSUME NEW t \in Threads, InsertSrc(t), job[t].pkt.from = d PROVE FALSE
    <2>1. rd[d] = "handling" BY <1>2 DEF InsertSrc, Served
    <2> QED BY <2>1 DEF LeftNothing, Released
  <1>3. route'[n] # d BY <1>2, RouteMoves, RouterAssumption DEF LeftNothing, RInv
  <1> QED BY <1>1, <1>3 DEF LeftNothing

\* c's handler is about to look its name up, or to enter it.
Entering(c, n) ==
    LET j == job[ThreadOf[c]] IN j.at \in {"find", "insert"} /\ j.pkt.from = c /\ j.pkt.src = n

Entered ==
    \A c \in Conns :
        /\ sock[c] = "new" => claims[c] = {}
        /\ sole[c] \subseteq claims[c]
        /\ \A n \in sole[c] :
            /\ \A d \in Conns \ {c} : n \in claims[d] => LeftNothing(d, n)
            /\ sock[c] = "open" /\ ~raced => route[n] = c \/ Entering(c, n)

\* What a packet's arrival makes of sole.
LEMMA SoleMoves ==
    ASSUME RouterTypeOK, NEW d \in Conns, NEW s \in Names, sole' = SoleAfter(d, s),
           NEW c \in Conns, NEW n \in sole'[c]
    PROVE  \/ n # s /\ n \in sole[c]
           \/ d = c /\ n = s /\ \A e \in Conns \ {c} : n \in claims[e] => LeftNothing(e, n)
  <1> DEFINE alone == \A e \in Conns \ {d} : s \in claims[e] => LeftNothing(e, s)
  <1>1. sole'[c] = IF c = d /\ alone THEN sole[c] \union {s} ELSE sole[c] \ {s}
    BY DEF SoleAfter
  <1>2. CASE c = d /\ alone BY <1>1, <1>2
  <1>3. CASE ~(c = d /\ alone)
    <2> HIDE DEF alone
    <2> QED BY <1>1, <1>3
  <1> QED BY <1>2, <1>3

LEMMA EnteredStep ==
    ASSUME RInv, RInv', Claimed, Served, Entered, Step
    PROVE  Entered'
  <1> USE DEF RInv
  <1>0. job \in [Threads -> Jobs] BY DEF RouterTypeOK
  <1>1. ASSUME NEW c \in Conns, NEW d \in Conns, PacketArrives(d)
        PROVE  /\ sock'[c] = "new" => claims'[c] = {}
               /\ sole'[c] \subseteq claims'[c]
               /\ \A n \in sole'[c] :
                    /\ \A e \in Conns \ {c} : n \in claims'[e] => LeftNothing(e, n)'
                    /\ sock'[c] = "open" /\ ~raced' => route'[n] = c \/ Entering(c, n)'
    <2>1. PICK p \in Packets :
              /\ job' = [job EXCEPT ![ThreadOf[d]] = NewJob(p)]
              /\ claims' = [claims EXCEPT ![d] = @ \union {p.src}]
              /\ sole' = SoleAfter(d, p.src)
              /\ p.from = d /\ p.src \in Names
              /\ NewJob(p).at = "find" /\ NewJob(p).pkt = p
      BY <1>1, ArrivesShape
    <2>2. sock' = sock /\ route' = route /\ raced' = raced
      BY <1>1 DEF PacketArrives, Dispatch, life
    <2>3. claims'[c] = IF c = d THEN claims[c] \union {p.src} ELSE claims[c]
      BY <2>1 DEF RouterTypeOK
    <2>4. sock[d] # "new" BY <1>1 DEF PacketArrives, Dispatch, IInv, Fresh
    <2>5. sock'[c] = "new" => claims'[c] = {} BY <2>2, <2>3, <2>4 DEF Entered
    <2>6. ThreadOf[d] \in Threads BY RouterAssumption
    <2>7. ASSUME NEW n \in sole'[c]
          PROVE  /\ n \in claims'[c]
                 /\ \A e \in Conns \ {c} : n \in claims'[e] => LeftNothing(e, n)'
                 /\ sock'[c] = "open" /\ ~raced' => route'[n] = c \/ Entering(c, n)'
      <3>0. n \in Names BY <2>7 DEF RouterTypeOK
      <3>1. CASE d = c /\ n = p.src /\ \A e \in Conns \ {c} : n \in claims[e] => LeftNothing(e, n)
        <4>1. job'[ThreadOf[c]] = NewJob(p) BY <1>0, <2>1, <2>6, <3>1, Zenon
        <4>2. Entering(c, n)' BY <2>1, <3>1, <4>1 DEF Entering
        <4>3. \A e \in Conns \ {c} : claims'[e] = claims[e]
          BY <2>1, <3>1 DEF RouterTypeOK
        <4>4. \A e \in Conns \ {c} : n \in claims'[e] => LeftNothing(e, n)'
          BY <3>0, <3>1, <4>3, LeftNothingStays
        <4> QED BY <2>3, <3>1, <4>2, <4>4
      <3>2. CASE n # p.src /\ n \in sole[c]
        <4>1. n \in claims[c] /\ \A e \in Conns \ {c} : n \in claims[e] => LeftNothing(e, n)
          BY <3>2 DEF Entered
        <4>2. \A e \in Conns : n \in claims'[e] => n \in claims[e]
          BY <2>1, <3>2 DEF RouterTypeOK
        <4>3. \A e \in Conns \ {c} : n \in claims'[e] => LeftNothing(e, n)'
          BY <3>0, <4>1, <4>2, LeftNothingStays
        <4>4. ASSUME sock'[c] = "open", ~raced' PROVE route'[n] = c \/ Entering(c, n)'
          <5>1. route[n] = c \/ Entering(c, n)
            BY <2>2, <3>2, <4>4 DEF Entered
          <5>2. ASSUME Entering(c, n) PROVE Entering(c, n)'
            <6>1. ThreadOf[c] \in Threads BY RouterAssumption
            <6>2. rd[c] = "handling" BY <5>2, <6>1 DEF Served, Entering
            <6>3. ThreadOf[d] # ThreadOf[c] BY <1>1, <6>2 DEF PacketArrives, Idle, Busy
            <6>4. job'[ThreadOf[c]] = job[ThreadOf[c]] BY <1>0, <2>1, <6>1, <6>3
            <6> QED BY <5>2, <6>4 DEF Entering
          <5> QED BY <2>2, <5>1, <5>2
        <4> QED BY <2>3, <4>1, <4>3, <4>4
      <3> QED BY <2>1, <2>7, <3>1, <3>2, SoleMoves
    <2> QED BY <2>5, <2>7
  <1>2. ASSUME \A e \in Conns : ~PacketArrives(e), NEW c \in Conns
        PROVE  /\ sock'[c] = "new" => claims'[c] = {}
               /\ sole'[c] \subseteq claims'[c]
               /\ \A n \in sole'[c] :
                    /\ \A e \in Conns \ {c} : n \in claims'[e] => LeftNothing(e, n)'
                    /\ sock'[c] = "open" /\ ~raced' => route'[n] = c \/ Entering(c, n)'
    <2>1. claims' = claims /\ sole' = sole BY <1>2, ClaimsSame
    <2>2. sock'[c] = "new" => sock[c] = "new"
      <3>1. AcceptStart(c) => sock'[c] # "new" BY DEF AcceptStart, Start, IInv, TypeOK
      <3> QED BY <3>1, AbortMoves
    <2>3. ASSUME NEW n \in sole[c]
          PROVE  /\ \A e \in Conns \ {c} : n \in claims[e] => LeftNothing(e, n)'
                 /\ sock'[c] = "open" /\ ~raced' => route'[n] = c \/ Entering(c, n)'
      <3>0. n \in Names BY DEF RouterTypeOK
      <3>1. \A e \in Conns \ {c} : n \in claims[e] => LeftNothing(e, n)
        BY DEF Entered
      <3>2. \A e \in Conns \ {c} : n \in claims[e] => LeftNothing(e, n)'
        BY <3>0, <3>1, LeftNothingStays
      <3>3. ASSUME sock'[c] = "open", ~raced' PROVE route'[n] = c \/ Entering(c, n)'
        <4>1. sock[c] = "open"
          <5>1. AcceptStart(c) => sock[c] = "new" BY DEF AcceptStart, Start
          <5> QED BY <3>3, <5>1, AbortMoves DEF Entered
        <4>2. ~raced BY <3>3, HistoryGrows
        <4>3. route[n] = c \/ Entering(c, n) BY <4>1, <4>2 DEF Entered
        <4>4. route[n] \in {c, NoConn}
          <5>1. ASSUME route[n] # NoConn, route[n] # c PROVE FALSE
            <6>1. route[n] \in Conns \ {c} BY <3>0, <5>1 DEF RouterTypeOK
            <6>2. n \in claims[route[n]] BY <3>0, <5>1 DEF Claimed
            <6> QED BY <3>1, <6>1, <6>2 DEF LeftNothing
          <5> QED BY <5>1
        <4>5. ASSUME NEW u \in Threads, InsertSrc(u), n = job[u].pkt.src
              PROVE  job[u].pkt.from = c
          <5> DEFINE f == job[u].pkt.from
          <5>1. f \in Conns /\ n \in claims[f] /\ rd[f] = "handling"
            BY <4>5, JobShape DEF InsertSrc, Claimed, Served
          <5> HIDE DEF f
          <5>2. f = c BY <3>1, <5>1 DEF LeftNothing, Released
          <5> QED BY <5>2 DEF f
        <4>6. ASSUME NEW d \in Conns, Closes(d) PROVE username[d] # n
          <5>1. d # c BY <3>3, <4>6 DEF Closes, IInv, TypeOK
          <5>2. ~LeftNothing(d, n) BY <4>6 DEF Closes, LeftNothing
          <5> QED BY <3>0, <3>1, <5>1, <5>2, RouterAssumption DEF Claimed
        <4>7. ASSUME route[n] = c PROVE route'[n] = c
          BY <3>0, <3>3, <4>5, <4>6, <4>7, RouteMoves
        <4>8. ASSUME Entering(c, n) PROVE route'[n] = c \/ Entering(c, n)'
          <5> DEFINE t == ThreadOf[c]
          <5>1. t \in Threads BY RouterAssumption
          <5>2. job[t].at \in {"find", "insert"} /\ job[t].pkt.from = c /\ job[t].pkt.src = n
            BY <4>8 DEF Entering
          <5> HIDE DEF t
          <5>3. JobMove(t) BY <1>2, <5>1, JobMoves
          <5>4. job'[t].at # "idle" /\ job'[t].pkt = job[t].pkt
            BY <5>2, <5>3 DEF JobMove
          <5>5. CASE job'[t].at \in {"find", "insert"}
            BY <5>2, <5>4, <5>5 DEF Entering, t
          <5>6. CASE FindSrc(t) /\ job'[t].at = "lookup"
            <6>1. FindSrc(t) => job[t].at = "find" BY DEF FindSrc
            <6>2. route[n] # NoConn
              <7>1. \/ job'[t].at = job[t].at
                    \/ FindSrc(t) /\ (job'[t].at = "lookup" => route[n] # NoConn)
                    \/ InsertSrc(t) \/ FindDest(t)
                BY <5>2, <5>3, <5>4 DEF JobMove
              <7>2. ~InsertSrc(t) /\ ~FindDest(t)
                BY <5>6, <6>1 DEF InsertSrc, FindDest
              <7> QED BY <5>6, <6>1, <7>1, <7>2
            <6> QED BY <4>4, <4>7, <6>2
          <5>7. CASE InsertSrc(t)
            <6>1. route'[n] = c
              <7>1. PICK lost \in SUBSET Names :
                      /\ Race(t) \/ lost = {}
                      /\ route' = [m \in Names |-> IF m \in lost THEN NoConn
                                    ELSE IF m = job[t].pkt.src /\ route[job[t].pkt.src] = NoConn
                                    THEN job[t].pkt.from ELSE route[m]]
                      /\ raced' = (raced \/ Race(t))
                BY <5>7 DEF InsertSrc, Enter
              <7>2. lost = {} BY <3>3, <7>1
              <7> QED BY <3>0, <4>4, <5>2, <7>1, <7>2
            <6> QED BY <6>1
          <5>8. ~FindDest(t) BY <5>2 DEF FindDest
          <5> QED BY <5>2, <5>3, <5>4, <5>5, <5>6, <5>7, <5>8 DEF JobMove
        <4> QED BY <4>3, <4>7, <4>8
      <3> QED BY <3>2, <3>3
    <2> QED BY <2>1, <2>2, <2>3 DEF Entered
  <1> QED BY <1>1, <1>2 DEF Entered

\* A client is reachable under its name while it is connected, and again from
\* the first packet after its old connection is gone, unless another connection
\* uses the name or two threads met in the table.
THEOREM RouterReaches ==
    ASSUME Packets \subseteq Msgs
    PROVE  RouterSpec => []SoleClaimantRouted
  <1>1. RouterInit => Entered
    BY DEF RouterInit, Init, Entered
  <1>2. RInv /\ RInv' /\ Claimed /\ Served /\ Entered /\ [Running \/ Over]_vars => Entered'
    BY EnteredStep DEF Step
  <1>3. Served /\ Entered => SoleClaimantRouted
    <2> SUFFICES ASSUME Served, Entered, ~raced, NEW c \in Conns, NEW n \in Names,
                        sock[c] = "open", rd[c] # "handling", n \in sole[c]
                 PROVE  route[n] = c
      BY DEF SoleClaimantRouted
    <2>1. ~Entering(c, n) BY RouterAssumption DEF Served, Entering
    <2> QED BY <2>1 DEF Entered
  <1> QED BY <1>1, <1>2, <1>3, ServedInvariant, PTL DEF RouterSpec

-----------------------------------------------------------------------------
(* What a closed connection leaves in the table                              *)

\* A connection in the table has a name, and after its close no entry under the
\* one it stored last.
Left ==
    /\ \A n \in Names : route[n] # NoConn => username[route[n]] # NoName
    /\ phase = "up" /\ ~raced =>
        \A n \in Names : route[n] \in abort => username[route[n]] # n

LEMMA LeftStep ==
    ASSUME RInv, RInv', Served, Left, Step
    PROVE  Left'
  <1> USE DEF RInv
  <1>0. NoConn \notin abort' BY RouterAssumption DEF IInv, TypeOK
  <1>1. ASSUME NEW n \in Names, route'[n] # NoConn PROVE username'[route'[n]] # NoName
    <2>1. CASE route'[n] = route[n]
      <3> DEFINE c == route[n]
      <3>1. c \in Conns /\ username[c] # NoName BY <1>1, <2>1 DEF RouterTypeOK, Left
      <3> HIDE DEF c
      <3>2. \A t \in Threads : InsertSrc(t) => job[t].pkt.src # NoName
        BY JobShape, RouterAssumption DEF InsertSrc
      <3>3. username'[c] # NoName BY <3>1, <3>2, NameMoves
      <3> QED BY <2>1, <3>3 DEF c
    <2>2. ASSUME NEW t \in Threads, InsertSrc(t), route'[n] = job[t].pkt.from
          PROVE  username'[route'[n]] # NoName
      <3>1. job[t].pkt.from \in Conns /\ job[t].pkt.src \in Names BY <2>2, JobShape DEF InsertSrc
      <3>2. username'[job[t].pkt.from] = job[t].pkt.src BY <2>2, <3>1 DEF InsertSrc, RouterTypeOK
      <3> QED BY <2>2, <3>1, <3>2, RouterAssumption
    <2> QED BY <1>1, <2>1, <2>2, RouteMoves
  <1>2. ASSUME phase' = "up", ~raced', NEW n \in Names, route'[n] \in abort'
        PROVE  username'[route'[n]] # n
    <2>1. phase = "up" /\ ~raced BY <1>2, AbortMoves, HistoryGrows
    <2>2. ASSUME NEW t \in Threads, InsertSrc(t)
          PROVE  job[t].pkt.from \notin abort /\ abort' = abort
      BY <2>1, <2>2 DEF InsertSrc, Enter, Served, cvars
    <2>3. route'[n] = route[n] /\ route[n] \in Conns
      <3>1. route'[n] # NoConn BY <1>0, <1>2
      <3>2. route'[n] = route[n] BY <1>2, <2>2, <3>1, RouteMoves
      <3> QED BY <3>1, <3>2 DEF RouterTypeOK
    <2> DEFINE c == route[n]
    <2>4. c \in Conns /\ c \in abort' BY <1>2, <2>3
    <2>5. CASE c \in abort
      <3>1. username[c] # n BY <2>1, <2>5 DEF Left
      <3> HIDE DEF c
      <3>2. username'[c] = username[c] BY <2>2, <2>4, <2>5, NameMoves
      <3> QED BY <2>3, <3>1, <3>2 DEF c
    <2>6. CASE c \notin abort
      <3>1. PICK d \in Conns : Closes(d) BY <2>4, <2>6, AbortMoves
      <3>2. d = c BY <2>4, <2>6, <3>1 DEF Closes
      <3>3. username' = username /\ (n = username[c] => route'[n] = NoConn)
        BY <1>2, <3>1, <3>2, NotifyMoves DEF Closes
      <3> QED BY <1>0, <1>2, <2>3, <3>3
    <2> QED BY <2>5, <2>6
  <1> QED BY <1>1, <1>2 DEF Left

\* Until the shutdown a closed connection is in the table only under names it
\* sent before its last one, unless two threads met in the table.
THEOREM RouterForgets ==
    ASSUME Packets \subseteq Msgs
    PROVE  RouterSpec => []ClosedNotRouted
  <1>1. RouterInit => Left
    BY RouterAssumption DEF RouterInit, Init, Left
  <1>2. RInv /\ RInv' /\ Served /\ Left /\ [Running \/ Over]_vars => Left'
    BY LeftStep DEF Step
  <1>3. RInv /\ Claimed /\ Left => ClosedNotRouted
    <2> SUFFICES ASSUME RInv, Claimed, Left, phase = "up", ~raced,
                        NEW n \in Names, route[n] \in abort
                 PROVE  /\ username[route[n]] # n
                        /\ {n, username[route[n]]} \subseteq claims[route[n]]
      BY DEF ClosedNotRouted
    <2>1. route[n] # NoConn /\ route[n] \in Conns
      BY RouterAssumption DEF RInv, IInv, TypeOK
    <2> QED BY <2>1 DEF Left, Claimed
  <1> QED BY <1>1, <1>2, <1>3, ServedInvariant, PTL DEF RouterSpec

-----------------------------------------------------------------------------
(* The shutdown                                                              *)

\* Once the acceptor is closed, a connection can be accepted only by the
\* handler that was past is_open() then; after stop_all() it is the only one.
Shut ==
    /\ run = "stopped" => phase = "down"
    /\ phase # "up" => ~listening
    /\ late => SignalThread # AcceptThread
    /\ ~listening /\ acc = "checked" => late
    /\ phase = "down" =>
        \/ managed = {}
        \/ late /\ acc # "checked" /\ \E c \in Conns : managed = {c}

LEMMA ShutStep ==
    ASSUME RInv, Shut, Step
    PROVE  Shut'
  <1>0. listening \in BOOLEAN /\ late \in BOOLEAN /\ managed \subseteq Conns
    BY DEF RInv, RouterTypeOK, IInv, TypeOK
  <1>1. CASE UNCHANGED <<phase, managed, svars>>
    BY <1>1 DEF Shut, svars
  <1>2. ASSUME NEW c \in Conns, AcceptStart(c) PROVE Shut'
    <2>1. acc = "checked" /\ acc' = "armed" /\ managed' = managed \union {c}
          /\ UNCHANGED <<phase, listening, run, late>>
      BY <1>2 DEF AcceptStart, Start
    <2>2. CASE phase = "down"
      <3>1. managed = {} /\ late BY <2>1, <2>2 DEF Shut
      <3>2. managed' = {c} BY <2>1, <3>1
      <3> QED BY <2>1, <3>1, <3>2 DEF Shut
    <2>3. CASE phase # "down" BY <2>1, <2>3 DEF Shut
    <2> QED BY <2>2, <2>3
  <1>3. CASE AcceptCheck \/ AcceptError
    <2>1. UNCHANGED <<phase, managed, listening, run, late>> /\ acc = "armed"
          /\ (acc' = "off" \/ (acc' = "checked" /\ listening))
      BY <1>3 DEF AcceptCheck, AcceptError, cvars
    <2> QED BY <2>1 DEF Shut
  <1>4. CASE CloseAcceptor
    <2>1. UNCHANGED <<phase, managed, acc, run>> /\ listening /\ ~listening'
          /\ late' = (acc = "checked")
      BY <1>4 DEF CloseAcceptor, cvars
    <2>2. acc = "checked" => SignalThread # AcceptThread BY <1>4 DEF CloseAcceptor, Busy
    <2> QED BY <2>1, <2>2 DEF Shut
  <1>5. CASE StopServices \/ Crash
    BY <1>5 DEF StopServices, Crash, cvars, Shut
  <1>6. CASE StopConnections
    BY <1>6 DEF StopConnections, StopAllBegin, StopAllEnd, StopAllEach, svars, Shut
  <1>7. ASSUME NEW c \in Conns, CloseHandler(c) PROVE Shut'
    <2>1. managed' = managed \ {c} /\ UNCHANGED <<phase, acc, listening, run, late>>
      BY <1>7 DEF CloseHandler, HandleReadError, Reject, HandleWriteError, Close, svars
    <2>2. \A d \in Conns : managed = {d} => managed' = {} \/ managed' = managed
      BY <2>1
    <2> QED BY <2>1, <2>2 DEF Shut
  <1>8. ASSUME NEW c \in Conns,
               \/ PacketArrives(c) \/ OtherMessage(c) \/ NextMessage(c)
               \/ OtherHandler(c) \/ Completion(c)
        PROVE  UNCHANGED <<phase, managed, svars>>
    BY <1>8 DEF PacketArrives, OtherMessage, NextMessage, Dispatch, Resume,
       OtherHandler, HandleReadHeader, DoWrite, HandleWrite, Completion,
       ReadCompletes, ReadFails, WriteCompletes, WriteFails, life
  <1>9. ASSUME NEW t \in Threads,
               FindSrc(t) \/ InsertSrc(t) \/ FindDest(t) \/ Forward(t) \/ Miss(t)
        PROVE  UNCHANGED <<phase, managed, svars>>
    BY <1>9 DEF FindSrc, InsertSrc, Enter, FindDest, Forward, Miss, Leave, cvars, life
  <1>10. CASE UNCHANGED vars BY <1>1, <1>10 DEF vars, cvars
  <1> QED BY <1>1, <1>2, <1>3, <1>4, <1>5, <1>6, <1>7, <1>8, <1>9, <1>10 DEF Step, Running, Over

\* When the services are stopped, on a pool of any size, no connection is open
\* but the one whose handle_accept was past is_open() on another thread when the
\* acceptor was closed.
THEOREM RouterShutsDown ==
    ASSUME Packets \subseteq Msgs
    PROVE  RouterSpec => []StoppedMeansClosed
  <1>1. RouterInit => Shut
    BY DEF RouterInit, Init, Shut
  <1>2. RInv /\ Shut /\ [Running \/ Over]_vars => Shut'
    BY ShutStep DEF Step
  <1>3. RInv /\ Shut => StoppedMeansClosed
    <2> SUFFICES ASSUME RInv, Shut, run = "stopped"
                 PROVE  LET Open == {c \in Conns : sock[c] = "open"} IN
                        /\ \A c, d \in Open : c = d
                        /\ Open # {} => late /\ SignalThread # AcceptThread
      BY DEF StoppedMeansClosed
    <2>1. \A c \in Conns : sock[c] = "open" => c \in managed
      BY DEF RInv, IInv, NoSocketLeak
    <2> QED BY <2>1 DEF Shut
  <1> QED BY <1>1, <1>2, <1>3, RInvInvariant, PTL DEF RouterSpec
=============================================================================

------------------------- MODULE Connection_proofs -------------------------
(***************************************************************************)
(* Proofs about Connection, for any connections, messages and bounds.  The *)
(* three invariants are proved together: a write operation finds its       *)
(* message in the queue (NoStalledQueue), which TypeOK needs for Head and  *)
(* Tail, and NoStalledQueue needs to know which connections are stopped    *)
(* (NoSocketLeak) and what one is like before it is started (Fresh).  From  *)
(* the same invariant, Connection implements MessageStream.                *)
(***************************************************************************)
EXTENDS Connection, SequenceTheorems, TLAPS

\* A connection that is not started is idle and empty.
Fresh ==
    \A c \in Conns : sock[c] = "new" =>
        rd[c] = "none" /\ wr[c] = "idle" /\ posted[c] = <<>> /\ queue[c] = <<>> /\ c \notin managed

IInv == TypeOK /\ NoStalledQueue /\ NoSocketLeak /\ Fresh

LEMMA InitIInv == Init => IInv
  BY DEF Init, IInv, TypeOK, RdStates, NoStalledQueue, NoSocketLeak, Fresh

\* The type invariant is kept.
LEMMA TypeStep == IInv /\ [Next]_cvars => TypeOK'
<1> SUFFICES ASSUME TypeOK, NoStalledQueue, [Next]_cvars PROVE TypeOK'
  BY DEF IInv
<1> USE DEF TypeOK, RdStates, life, reader, writer, Stop, Close
<1>1. CASE UNCHANGED cvars
  BY <1>1 DEF cvars
<1>2. ASSUME NEW c \in Conns, Start(c) PROVE TypeOK'
  BY <1>2 DEF Start
<1>3. ASSUME NEW c \in Conns, StopAllEach(c) PROVE TypeOK'
  BY <1>3 DEF StopAllEach
<1>4. ASSUME NEW c \in Conns, ReadCompletes(c) PROVE TypeOK'
  BY <1>4 DEF ReadCompletes
<1>5. ASSUME NEW c \in Conns, ReadFails(c) PROVE TypeOK'
  BY <1>5 DEF ReadFails
<1>6. ASSUME NEW c \in Conns, HandleReadError(c) PROVE TypeOK'
  BY <1>6 DEF HandleReadError
<1>7. ASSUME NEW c \in Conns, HandleReadHeader(c) PROVE TypeOK'
  BY <1>7 DEF HandleReadHeader
<1>8. ASSUME NEW c \in Conns, Reject(c) PROVE TypeOK'
  BY <1>8 DEF Reject
<1>9. ASSUME NEW c \in Conns, Dispatch(c) PROVE TypeOK'
  BY <1>9 DEF Dispatch
<1>10. ASSUME NEW c \in Conns, Resume(c) PROVE TypeOK'
  BY <1>10 DEF Resume
<1>11. ASSUME NEW c \in Conns, NEW m \in Msgs, WriteMsg(c, m) PROVE TypeOK'
  <2>1. Append(posted[c], m) \in Seq(Msgs)
    OBVIOUS
  <2> QED BY <1>11, <2>1 DEF WriteMsg, PostWrite
<1>12. ASSUME NEW c \in Conns, DoWrite(c) PROVE TypeOK'
  <2>1. Append(queue[c], Head(posted[c])) \in Seq(Msgs) /\ Tail(posted[c]) \in Seq(Msgs)
    BY <1>12 DEF DoWrite
  <2> QED BY <1>12, <2>1 DEF DoWrite
<1>13. ASSUME NEW c \in Conns, WriteCompletes(c) PROVE TypeOK'
  <2>1. Append(wire[c], Head(queue[c])) \in Seq(Msgs)
    BY <1>13 DEF WriteCompletes, NoStalledQueue
  <2> QED BY <1>13, <2>1 DEF WriteCompletes
<1>14. ASSUME NEW c \in Conns, WriteFails(c) PROVE TypeOK'
  BY <1>14 DEF WriteFails
<1>15. ASSUME NEW c \in Conns, HandleWrite(c) PROVE TypeOK'
  <2>1. Tail(queue[c]) \in Seq(Msgs)
    BY <1>15 DEF HandleWrite, NoStalledQueue
  <2> QED BY <1>15, <2>1 DEF HandleWrite
<1>16. ASSUME NEW c \in Conns, HandleWriteError(c) PROVE TypeOK'
  BY <1>16 DEF HandleWriteError
<1>17. CASE StopAllBegin
  BY <1>17 DEF StopAllBegin
<1>18. CASE StopAllEnd
  BY <1>18 DEF StopAllEnd
<1>19. CASE Done
  BY <1>19 DEF Done, cvars
<1> QED
  BY <1>1, <1>2, <1>3, <1>4, <1>5, <1>6, <1>7, <1>8, <1>9, <1>10, <1>11, <1>12, <1>13, <1>14, <1>15, <1>16, <1>17, <1>18, <1>19 DEF Next

\* The writer keeps going.
LEMMA WriterStep == IInv /\ [Next]_cvars => NoStalledQueue'
<1> SUFFICES ASSUME TypeOK, NoStalledQueue, NoSocketLeak, Fresh, [Next]_cvars
             PROVE  NoStalledQueue'
  BY DEF IInv
<1> USE DEF TypeOK, NoStalledQueue, life, reader, writer, Stop, Close
<1>1. CASE UNCHANGED cvars
  BY <1>1 DEF cvars
<1>2. ASSUME NEW c \in Conns, Start(c) PROVE NoStalledQueue'
  BY <1>2 DEF Start, Fresh
<1>3. ASSUME NEW c \in Conns, StopAllEach(c) PROVE NoStalledQueue'
  BY <1>3 DEF StopAllEach
<1>4. ASSUME NEW c \in Conns, ReadCompletes(c) PROVE NoStalledQueue'
  BY <1>4 DEF ReadCompletes
<1>5. ASSUME NEW c \in Conns, ReadFails(c) PROVE NoStalledQueue'
  BY <1>5 DEF ReadFails
<1>6. ASSUME NEW c \in Conns, HandleReadError(c) PROVE NoStalledQueue'
  BY <1>6 DEF HandleReadError
<1>7. ASSUME NEW c \in Conns, HandleReadHeader(c) PROVE NoStalledQueue'
  BY <1>7 DEF HandleReadHeader
<1>8. ASSUME NEW c \in Conns, Reject(c) PROVE NoStalledQueue'
  BY <1>8 DEF Reject
<1>9. ASSUME NEW c \in Conns, Dispatch(c) PROVE NoStalledQueue'
  BY <1>9 DEF Dispatch
<1>10. ASSUME NEW c \in Conns, Resume(c) PROVE NoStalledQueue'
  BY <1>10 DEF Resume
<1>11. ASSUME NEW c \in Conns, NEW m \in Msgs, WriteMsg(c, m) PROVE NoStalledQueue'
  BY <1>11 DEF WriteMsg, PostWrite
<1>12. ASSUME NEW c \in Conns, DoWrite(c) PROVE NoStalledQueue'
  <2>1. Append(queue[c], Head(posted[c])) # <<>>
    BY <1>12 DEF DoWrite
  <2> QED BY <1>12, <2>1 DEF DoWrite
<1>13. ASSUME NEW c \in Conns, WriteCompletes(c) PROVE NoStalledQueue'
  BY <1>13 DEF WriteCompletes
<1>14. ASSUME NEW c \in Conns, WriteFails(c) PROVE NoStalledQueue'
  BY <1>14 DEF WriteFails
<1>15. ASSUME NEW c \in Conns, HandleWrite(c) PROVE NoStalledQueue'
  BY <1>15 DEF HandleWrite
<1>16. ASSUME NEW c \in Conns, HandleWriteError(c) PROVE NoStalledQueue'
  BY <1>16 DEF HandleWriteError
<1>17. CASE StopAllBegin
  BY <1>17 DEF StopAllBegin
<1>18. CASE StopAllEnd
  BY <1>18 DEF StopAllEnd
<1>19. CASE Done
  BY <1>19 DEF Done, cvars
<1> QED
  BY <1>1, <1>2, <1>3, <1>4, <1>5, <1>6, <1>7, <1>8, <1>9, <1>10, <1>11, <1>12, <1>13, <1>14, <1>15, <1>16, <1>17, <1>18, <1>19 DEF Next

\* The sockets, the set of connections and the readers stay in step.
LEMMA LeakStep == IInv /\ [Next]_cvars => NoSocketLeak' /\ Fresh'
<1> SUFFICES ASSUME TypeOK, NoStalledQueue, NoSocketLeak, Fresh, [Next]_cvars
             PROVE  NoSocketLeak' /\ Fresh'
  BY DEF IInv
<1> USE DEF TypeOK, NoStalledQueue, NoSocketLeak, Fresh, life, reader, writer, Stop, Close, MutexFree
<1>1. CASE UNCHANGED cvars
  BY <1>1 DEF cvars
<1>2. ASSUME NEW c \in Conns, Start(c) PROVE NoSocketLeak' /\ Fresh'
  BY <1>2 DEF Start
<1>3. ASSUME NEW c \in Conns, StopAllEach(c) PROVE NoSocketLeak' /\ Fresh'
  BY <1>3 DEF StopAllEach
<1>4. ASSUME NEW c \in Conns, ReadCompletes(c) PROVE NoSocketLeak' /\ Fresh'
  BY <1>4 DEF ReadCompletes
<1>5. ASSUME NEW c \in Conns, ReadFails(c) PROVE NoSocketLeak' /\ Fresh'
  BY <1>5 DEF ReadFails
<1>6. ASSUME NEW c \in Conns, HandleReadError(c) PROVE NoSocketLeak' /\ Fresh'
  BY <1>6 DEF HandleReadError
<1>7. ASSUME NEW c \in Conns, HandleReadHeader(c) PROVE NoSocketLeak' /\ Fresh'
  BY <1>7 DEF HandleReadHeader
<1>8. ASSUME NEW c \in Conns, Reject(c) PROVE NoSocketLeak' /\ Fresh'
  BY <1>8 DEF Reject
<1>9. ASSUME NEW c \in Conns, Dispatch(c) PROVE NoSocketLeak' /\ Fresh'
  BY <1>9 DEF Dispatch
<1>10. ASSUME NEW c \in Conns, Resume(c) PROVE NoSocketLeak' /\ Fresh'
  BY <1>10 DEF Resume
<1>11. ASSUME NEW c \in Conns, NEW m \in Msgs, WriteMsg(c, m) PROVE NoSocketLeak' /\ Fresh'
  BY <1>11 DEF WriteMsg, PostWrite
<1>12. ASSUME NEW c \in Conns, DoWrite(c) PROVE NoSocketLeak' /\ Fresh'
  BY <1>12 DEF DoWrite
<1>13. ASSUME NEW c \in Conns, WriteCompletes(c) PROVE NoSocketLeak' /\ Fresh'
  BY <1>13 DEF WriteCompletes
<1>14. ASSUME NEW c \in Conns, WriteFails(c) PROVE NoSocketLeak' /\ Fresh'
  BY <1>14 DEF WriteFails
<1>15. ASSUME NEW c \in Conns, HandleWrite(c) PROVE NoSocketLeak' /\ Fresh'
  BY <1>15 DEF HandleWrite
<1>16. ASSUME NEW c \in Conns, HandleWriteError(c) PROVE NoSocketLeak' /\ Fresh'
  BY <1>16 DEF HandleWriteError
<1>17. CASE StopAllBegin
  BY <1>17 DEF StopAllBegin
<1>18. CASE StopAllEnd
  BY <1>18 DEF StopAllEnd
<1>19. CASE Done
  BY <1>19 DEF Done, cvars
<1> QED
  BY <1>1, <1>2, <1>3, <1>4, <1>5, <1>6, <1>7, <1>8, <1>9, <1>10, <1>11, <1>12, <1>13, <1>14, <1>15, <1>16, <1>17, <1>18, <1>19 DEF Next

LEMMA IInvInvariant == Spec => []IInv
<1>1. IInv /\ [Next]_cvars => IInv'
  BY TypeStep, WriterStep, LeakStep DEF IInv
<1> QED BY InitIInv, <1>1, PTL DEF Spec

\* The type invariant of the connections and their manager.
THEOREM ConnectionTypeOK == Spec => []TypeOK
<1>1. IInv => TypeOK
  BY DEF IInv
<1> QED BY <1>1, IInvInvariant, PTL

\* No interleaving of do_write, handle_write and close() strands a message in
\* the queue of a live connection, or has handle_write find the queue empty.
THEOREM WriterNeverStalls == Spec => []NoStalledQueue
<1>1. IInv => NoStalledQueue
  BY DEF IInv
<1> QED BY <1>1, IInvInvariant, PTL

\* However the reader, the writer and stop_all() end a connection between
\* them, no open socket is out of the manager's reach.
THEOREM SocketsNeverLeak == Spec => []NoSocketLeak
<1>1. IInv => NoSocketLeak
  BY DEF IInv
<1> QED BY <1>1, IInvInvariant, PTL
-----------------------------------------------------------------------------
(* Connection implements MessageStream, for any connections, messages and   *)
(* bounds: what write_msg, do_write and handle_write do between them, on    *)
(* two threads and through two queues, is a stream.                         *)

\* Appending to the second of two queues appends to their concatenation.
LEMMA ConcatAppend ==
    ASSUME NEW S, NEW q \in Seq(S), NEW p \in Seq(S), NEW m \in S
    PROVE  q \o Append(p, m) = Append(q \o p, m)
  OBVIOUS

\* Moving the head of the second queue to the end of the first one leaves
\* their concatenation as it was.
LEMMA MoveHead ==
    ASSUME NEW S, NEW q \in Seq(S), NEW p \in Seq(S), p # <<>>
    PROVE  Append(q, Head(p)) \o Tail(p) = q \o p
  OBVIOUS

LEMMA TailAppend ==
    ASSUME NEW S, NEW q \in Seq(S), q # <<>>, NEW m \in S
    PROVE  Tail(Append(q, m)) = Append(Tail(q), m)
  OBVIOUS

\* The front of two concatenated queues is that of the first one.
LEMMA ConcatFront ==
    ASSUME NEW S, NEW q \in Seq(S), q # <<>>, NEW p \in Seq(S)
    PROVE  q \o p # <<>> /\ Head(q \o p) = Head(q) /\ Tail(q \o p) = Tail(q) \o p
  OBVIOUS

-----------------------------------------------------------------------------
\* A step of the writer of c leaves what is unsent on the others alone.
LEMMA UnsentOfOthers ==
    ASSUME NEW c \in Conns, NEW d \in Conns, d # c,
           wr'[d] = wr[d], queue'[d] = queue[d], posted'[d] = posted[d]
    PROVE  Unsent(d)' = Unsent(d)
  BY DEF Unsent

\* write_msg accepts a message.
LEMMA PostWriteAccepts ==
    ASSUME IInv, NEW c \in Conns, NEW m \in Msgs, PostWrite(c, m), UNCHANGED <<life, reader>>
    PROVE  Stream!Accept(c, m)
<1> USE DEF IInv, TypeOK, life, reader
<1>1. Unsent(c)' = Append(Unsent(c), m)
  <2>1. posted'[c] = Append(posted[c], m) /\ queue' = queue /\ wr' = wr
    BY DEF PostWrite
  <2>2. queue[c] \in Seq(Msgs) /\ posted[c] \in Seq(Msgs)
    OBVIOUS
  <2>3. wr[c] = "sent" => Tail(queue[c]) \in Seq(Msgs)
    BY DEF NoStalledQueue
  <2>4. CASE wr[c] = "sent"
    <3>1. Tail(queue[c]) \o Append(posted[c], m) = Append(Tail(queue[c]) \o posted[c], m)
      BY <2>2, <2>3, <2>4, ConcatAppend
    <3> QED BY <2>1, <2>4, <3>1 DEF Unsent
  <2>5. CASE wr[c] # "sent"
    <3>1. queue[c] \o Append(posted[c], m) = Append(queue[c] \o posted[c], m)
      BY <2>2, ConcatAppend
    <3> QED BY <2>1, <2>5, <3>1 DEF Unsent
  <2> QED BY <2>4, <2>5
<1>2. \A d \in Conns \ {c} : Unsent(d)' = Unsent(d)
  BY DEF PostWrite, Unsent
<1>3. wire' = wire /\ Broken' = Broken
  BY DEF PostWrite, Broken
<1> QED BY <1>1, <1>2, <1>3 DEF Stream!Accept

\* do_write moves a message from one queue to the other: nothing happens.
LEMMA DoWriteStutters ==
    ASSUME IInv, NEW c \in Conns, DoWrite(c)
    PROVE  UNCHANGED Stream!svars
<1> USE DEF IInv, TypeOK, life, reader
<1>1. Unsent(c)' = Unsent(c)
  <2>1. queue[c] \in Seq(Msgs) /\ posted[c] \in Seq(Msgs) /\ posted[c] # <<>>
    BY DEF DoWrite
  <2>2. Head(posted[c]) \in Msgs /\ Tail(posted[c]) \in Seq(Msgs)
    BY <2>1
  <2>3. queue'[c] = Append(queue[c], Head(posted[c])) /\ posted'[c] = Tail(posted[c])
    BY DEF DoWrite
  <2>4. wr[c] = "sent" <=> wr'[c] = "sent"
    BY DEF DoWrite, NoStalledQueue
  <2>5. CASE wr[c] = "sent"
    <3>1. queue[c] # <<>>
      BY <2>5 DEF NoStalledQueue
    <3>2. Tail(queue'[c]) = Append(Tail(queue[c]), Head(posted[c]))
      BY <2>1, <2>2, <2>3, <3>1, TailAppend
    <3>3. Tail(queue[c]) \in Seq(Msgs)
      BY <2>1, <3>1
    <3>4. Append(Tail(queue[c]), Head(posted[c])) \o Tail(posted[c]) = Tail(queue[c]) \o posted[c]
      BY <2>1, <3>3, MoveHead
    <3> QED BY <2>3, <2>4, <2>5, <3>2, <3>4 DEF Unsent
  <2>6. CASE wr[c] # "sent"
    <3>1. Append(queue[c], Head(posted[c])) \o Tail(posted[c]) = queue[c] \o posted[c]
      BY <2>1, MoveHead
    <3> QED BY <2>3, <2>4, <2>6, <3>1 DEF Unsent
  <2> QED BY <2>5, <2>6
<1>2. \A d \in Conns \ {c} : Unsent(d)' = Unsent(d)
  BY DEF DoWrite, Unsent
<1>3. wire' = wire /\ Broken' = Broken
  <2>1. \A d \in Conns : wr[d] = "failed" <=> wr'[d] = "failed"
    BY DEF DoWrite, NoStalledQueue
  <2> QED BY <2>1 DEF DoWrite, Broken
<1> QED BY <1>1, <1>2, <1>3 DEF Stream!svars

\* A write operation that completes delivers the oldest message.
LEMMA WriteCompletesDelivers ==
    ASSUME IInv, NEW c \in Conns, WriteCompletes(c)
    PROVE  Stream!Deliver(c)
<1> USE DEF IInv, TypeOK, life, reader
<1>1. queue[c] \in Seq(Msgs) /\ posted[c] \in Seq(Msgs) /\ queue[c] # <<>>
  BY DEF WriteCompletes, NoStalledQueue
<1>2. Unsent(c) = queue[c] \o posted[c] /\ Unsent(c)' = Tail(queue[c]) \o posted[c]
  BY DEF WriteCompletes, Unsent
<1>3. Unsent(c) # <<>> /\ Head(Unsent(c)) = Head(queue[c]) /\ Unsent(c)' = Tail(Unsent(c))
  BY <1>1, <1>2, ConcatFront
<1>4. \A d \in Conns \ {c} : Unsent(d)' = Unsent(d)
  BY DEF WriteCompletes, Unsent
<1>5. wire' = [wire EXCEPT ![c] = Append(@, Head(Unsent(c)))]
  BY <1>3 DEF WriteCompletes
<1>6. c \notin Broken /\ Broken' = Broken
  BY DEF WriteCompletes, Broken, NoSocketLeak
<1> QED BY <1>3, <1>4, <1>5, <1>6 DEF Stream!Deliver

\* handle_write pops what was delivered: nothing happens.
LEMMA HandleWriteStutters ==
    ASSUME IInv, NEW c \in Conns, HandleWrite(c)
    PROVE  UNCHANGED Stream!svars
<1> USE DEF IInv, TypeOK, life, reader
<1>1. \A d \in Conns : Unsent(d)' = Unsent(d)
  BY DEF HandleWrite, Unsent
<1>2. wire' = wire /\ Broken' = Broken
  BY DEF HandleWrite, Broken
<1> QED BY <1>1, <1>2 DEF Stream!svars

\* Any step that leaves the writers alone and only stops connections breaks
\* them, or changes nothing.
LEMMA StopBreaks ==
    ASSUME IInv, NEW c \in Conns, UNCHANGED writer,
           abort' = abort \union {c}
    PROVE  Stream!Break(c)
<1>1. \A d \in Conns : Unsent(d)' = Unsent(d)
  BY DEF writer, Unsent
<1>2. wire' = wire /\ Broken' = Broken \union {c}
  BY DEF writer, Broken
<1> QED BY <1>1, <1>2 DEF Stream!Break

LEMMA OtherStutters ==
    ASSUME IInv, UNCHANGED writer, abort' = abort
    PROVE  UNCHANGED Stream!svars
<1>1. \A d \in Conns : Unsent(d)' = Unsent(d)
  BY DEF writer, Unsent
<1>2. wire' = wire /\ Broken' = Broken
  BY DEF writer, Broken
<1> QED BY <1>1, <1>2 DEF Stream!svars

\* A failed write breaks the connection ...
LEMMA WriteFailsBreaks ==
    ASSUME IInv, NEW c \in Conns, WriteFails(c)
    PROVE  Stream!Break(c)
<1> USE DEF IInv, TypeOK, life, reader
<1>1. \A d \in Conns : Unsent(d)' = Unsent(d)
  BY DEF WriteFails, Unsent
<1>2. wire' = wire /\ Broken' = Broken \union {c}
  BY DEF WriteFails, Broken
<1> QED BY <1>1, <1>2 DEF Stream!Break

\* ... and its handler closes what is broken already.
LEMMA HandleWriteErrorStutters ==
    ASSUME IInv, NEW c \in Conns, HandleWriteError(c)
    PROVE  UNCHANGED Stream!svars
<1> USE DEF IInv, TypeOK, life, reader
<1>1. \A d \in Conns : Unsent(d)' = Unsent(d)
  BY DEF HandleWriteError, Unsent
<1>2. wire' = wire /\ Broken' = Broken
  BY DEF HandleWriteError, Broken, Close, Stop
<1> QED BY <1>1, <1>2 DEF Stream!svars

-----------------------------------------------------------------------------
LEMMA StepRefines == IInv /\ [Next]_cvars => [Stream!StreamNext]_(Stream!svars)
<1> SUFFICES ASSUME IInv, [Next]_cvars
             PROVE  Stream!StreamNext \/ UNCHANGED Stream!svars
  OBVIOUS
<1> USE DEF life, reader
<1>1. CASE UNCHANGED cvars
  BY <1>1, OtherStutters DEF cvars, writer
<1>2. ASSUME NEW c \in Conns, Start(c) PROVE UNCHANGED Stream!svars
  <2>1. abort' = abort
    BY <1>2 DEF Start, IInv, NoSocketLeak, TypeOK
  <2> QED BY <1>2, <2>1, OtherStutters DEF Start
<1>3. ASSUME NEW c \in Conns, StopAllEach(c) \/ HandleReadError(c) \/ Reject(c)
      PROVE  Stream!StreamNext
  BY <1>3, StopBreaks DEF StopAllEach, HandleReadError, Reject, Close, Stop, Stream!StreamNext
<1>4. ASSUME NEW c \in Conns,
             ReadCompletes(c) \/ ReadFails(c) \/ HandleReadHeader(c) \/ Dispatch(c) \/ Resume(c)
      PROVE  UNCHANGED Stream!svars
  BY <1>4, OtherStutters DEF ReadCompletes, ReadFails, HandleReadHeader, Dispatch, Resume
<1>5. ASSUME NEW c \in Conns, NEW m \in Msgs, WriteMsg(c, m) PROVE Stream!StreamNext
  BY <1>5, PostWriteAccepts DEF WriteMsg, Stream!StreamNext
<1>6. ASSUME NEW c \in Conns, DoWrite(c) \/ HandleWrite(c) \/ HandleWriteError(c)
      PROVE  UNCHANGED Stream!svars
  BY <1>6, DoWriteStutters, HandleWriteStutters, HandleWriteErrorStutters
<1>7. ASSUME NEW c \in Conns, WriteCompletes(c) \/ WriteFails(c) PROVE Stream!StreamNext
  BY <1>7, WriteCompletesDelivers, WriteFailsBreaks DEF Stream!StreamNext
<1>8. CASE StopAllBegin \/ StopAllEnd \/ Done
  BY <1>8, OtherStutters DEF StopAllBegin, StopAllEnd, Done, cvars, writer
<1> QED BY <1>1, <1>2, <1>3, <1>4, <1>5, <1>6, <1>7, <1>8 DEF Next

LEMMA StreamStart == Init => Stream!StreamInit
<1> SUFFICES ASSUME Init PROVE Stream!StreamInit
  OBVIOUS
<1>1. \A c \in Conns : Unsent(c) = <<>>
  <2>1. <<>> \o <<>> = <<>>
    BY ConcatEmptySeq, EmptySeq
  <2> QED BY <2>1 DEF Init, Unsent
<1>2. Broken = {}
  BY DEF Init, Broken
<1> QED BY <1>1, <1>2 DEF Init, Stream!StreamInit

\* The messages handed to write_msg leave in order, each whole and at most
\* once, and none leaves after the connection broke.
THEOREM ConnectionImplementsStream == Spec => ImplementsStream
<1> QED BY StreamStart, StepRefines, IInvInvariant, PTL DEF Spec, ImplementsStream, Stream!StreamSpec
=============================================================================

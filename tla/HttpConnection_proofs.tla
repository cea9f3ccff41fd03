------------------------ MODULE HttpConnection_proofs ------------------------
(***************************************************************************)
(* Theorems about HttpConnection, for any number of connections and of     *)
(* headers that arrive on them.                                            *)
(***************************************************************************)
EXTENDS HttpConnection, SequenceTheorems, TLAPS

\* Every request served came with headers of its own.
Reading(c) == rd[c] \in {"gotHeaders", "body", "gotBody"}
Counted ==
    \A c \in Conns :
        /\ served[c] <= inputs[c]
        /\ Reading(c) => served[c] < inputs[c]

HttpInv == TypeOK /\ Counted

LEMMA HttpInit == Init => HttpInv
  <1> SUFFICES ASSUME Init PROVE HttpInv
    OBVIOUS
  <1>1. [post |-> FALSE, length |-> "absent", keep |-> FALSE, known |-> FALSE] \in Requests
    BY DEF Requests
  <1>2. Garbage \in Inputs BY DEF Inputs
  <1>3. 0 \in 0 .. MaxInputs BY HttpAssumption
  <1> QED BY <1>1, <1>2, <1>3 DEF Init, HttpInv, TypeOK, RdStates, Counted, Reading

\* What a handler of the headers stores is a request.
LEMMA StoresRequest ==
    ASSUME TypeOK, NEW c \in Conns, Parses(c)
    PROVE  Parsed(c) \in Requests
  BY DEF Parses, Parsed, TypeOK

\* What Serve does to the connection, and that it leaves the others alone.
LEMMA ServeEffect ==
    ASSUME TypeOK, NEW c \in Conns, NEW r, Serve(c, r)
    PROVE  /\ served'[c] = served[c] + 1 /\ owed'[c] = owed[c] + 1 /\ owed'[c] > 0
           /\ rd'[c] \in {"headers", "none"} /\ (rd'[c] = "none" => ~r.keep)
           /\ \A d \in Conns : d # c =>
                served'[d] = served[d] /\ owed'[d] = owed[d] /\ rd'[d] = rd[d]
           /\ DOMAIN served' = Conns /\ DOMAIN owed' = Conns /\ DOMAIN rd' = Conns
           /\ served' = [d \in Conns |-> served'[d]]
           /\ owed' = [d \in Conns |-> owed'[d]]
           /\ rd' = [d \in Conns |-> rd'[d]]
  <1> USE DEF TypeOK, Serve, Add
  <1>1. served'[c] = served[c] + 1 /\ owed'[c] = owed[c] + 1 /\ owed[c] \in Nat
    OBVIOUS
  <1>2. rd'[c] = IF r.keep THEN "headers" ELSE "none"
    OBVIOUS
  <1>3. \A d \in Conns : d # c =>
            served'[d] = served[d] /\ owed'[d] = owed[d] /\ rd'[d] = rd[d]
    OBVIOUS
  <1>4. /\ served' = [d \in Conns |-> served'[d]]
        /\ owed' = [d \in Conns |-> owed'[d]]
        /\ rd' = [d \in Conns |-> rd'[d]]
    OBVIOUS
  <1>5. rd'[c] \in {"headers", "none"} /\ (rd'[c] = "none" => ~r.keep)
    BY <1>2
  <1> HIDE DEF Serve, Add
  <1> QED BY <1>1, <1>3, <1>4, <1>5

\* A request served raises its connection's counters within their bounds.
LEMMA ServeKeeps ==
    ASSUME HttpInv, NEW c \in Conns, Reading(c), NEW r, Serve(c, r), UNCHANGED <<inputs, flight, answered>>
    PROVE  /\ served' \in [Conns -> 0 .. MaxInputs] /\ owed' \in [Conns -> Nat]
           /\ rd' \in [Conns -> RdStates]
           /\ \A d \in Conns : answered'[d] + owed'[d] + flight'[d] <= served'[d]
           /\ Counted'
  <1> USE HttpAssumption DEF HttpInv
  <1>1. /\ served'[c] = served[c] + 1 /\ owed'[c] = owed[c] + 1
        /\ rd'[c] \in {"headers", "none"}
        /\ \A d \in Conns : d # c =>
             served'[d] = served[d] /\ owed'[d] = owed[d] /\ rd'[d] = rd[d]
        /\ served' = [d \in Conns |-> served'[d]]
        /\ owed' = [d \in Conns |-> owed'[d]]
        /\ rd' = [d \in Conns |-> rd'[d]]
    BY ServeEffect
  <1>2. /\ served[c] \in Nat /\ served[c] < inputs[c] /\ inputs[c] \in 0 .. MaxInputs
        /\ owed[c] \in Nat
        /\ inputs' = inputs /\ answered' = answered /\ flight' = flight
    BY DEF Counted, TypeOK
  <1>3. ASSUME NEW d \in Conns
        PROVE  /\ served'[d] \in 0 .. MaxInputs /\ owed'[d] \in Nat /\ rd'[d] \in RdStates
               /\ answered'[d] + owed'[d] + flight'[d] <= served'[d]
               /\ served'[d] <= inputs'[d] /\ (Reading(d)' => served'[d] < inputs'[d])
    <2>1. CASE d = c
      <3>1. answered[c] \in Nat /\ flight[c] \in Nat /\ answered[c] + owed[c] + flight[c] <= served[c]
        BY DEF TypeOK
      <3>2. ~Reading(c)' BY <1>1 DEF Reading
      <3> QED BY <1>1, <1>2, <2>1, <3>1, <3>2 DEF RdStates
    <2>2. CASE d # c
      BY <1>1, <1>2, <2>2 DEF TypeOK, Counted, Reading
    <2> QED BY <2>1, <2>2
  <1>4. Counted' BY <1>3 DEF Counted
  <1> QED BY <1>1, <1>3, <1>4

\* One connection's counters move, the others' stay.
LEMMA HttpStep ==
    ASSUME HttpInv, [Next]_hvars
    PROVE  HttpInv'
  <1> USE HttpAssumption
      DEF HttpInv, TypeOK, Counted, Reading, RdStates, request, response, life, Add, Subtract, Stop
  <1>1. CASE UNCHANGED hvars BY <1>1 DEF hvars
  <1>2. CASE AcceptError BY <1>2 DEF AcceptError
  <1>3. CASE Done BY <1>3 DEF Done, hvars
  <1>4. ASSUME NEW c \in Conns, Accept(c) PROVE HttpInv'
    BY <1>4 DEF Accept
  <1>5. ASSUME NEW c \in Conns, HeadersArrive(c) PROVE HttpInv'
    BY <1>5 DEF HeadersArrive
  <1>6. ASSUME NEW c \in Conns, BodyArrives(c) \/ ReadFails(c) PROVE HttpInv'
    BY <1>6 DEF BodyArrives, ReadFails
  <1>7. ASSUME NEW c \in Conns, HandleReadError(c) PROVE HttpInv'
    BY <1>7 DEF HandleReadError
  <1>8. ASSUME NEW c \in Conns, Refuse(c) PROVE HttpInv'
    <2>1. CASE UNCHANGED request BY <1>8, <2>1 DEF Refuse, Ready
    <2>2. CASE Parses(c) /\ Store(c)
      <3>1. Parsed(c) \in Requests BY <2>2, StoresRequest
      <3> QED BY <1>8, <2>2, <3>1 DEF Refuse, Ready, Store
    <2> QED BY <1>8, <2>1, <2>2 DEF Refuse
  <1>9. ASSUME NEW c \in Conns, HandleRequest(c) PROVE HttpInv'
    <2>1. Parsed(c) \in Requests BY <1>9, StoresRequest DEF HandleRequest
    <2>2. /\ served' \in [Conns -> 0 .. MaxInputs] /\ owed' \in [Conns -> Nat]
          /\ rd' \in [Conns -> RdStates]
          /\ \A d \in Conns : answered'[d] + owed'[d] + flight'[d] <= served'[d]
          /\ Counted'
      BY <1>9, ServeKeeps DEF HandleRequest, Ready, Store
    <2> QED BY <1>9, <2>1, <2>2 DEF HandleRequest, Store
  <1>10. ASSUME NEW c \in Conns, ReadBody(c) PROVE HttpInv'
    <2>1. Parsed(c) \in Requests BY <1>10, StoresRequest DEF ReadBody
    <2> QED BY <1>10, <2>1 DEF ReadBody, Ready, Store
  <1>11. ASSUME NEW c \in Conns, HandleReadBody(c) PROVE HttpInv'
    <2>1. CASE req[c].known
      <3>1. /\ served' \in [Conns -> 0 .. MaxInputs] /\ owed' \in [Conns -> Nat]
            /\ rd' \in [Conns -> RdStates]
            /\ \A d \in Conns : answered'[d] + owed'[d] + flight'[d] <= served'[d]
            /\ Counted'
        BY <1>11, <2>1, ServeKeeps DEF HandleReadBody
      <3>2. UNCHANGED <<life, accepting, request, response>>
        BY <1>11, <2>1 DEF HandleReadBody
      <3> QED BY <3>1, <3>2
    <2>2. CASE ~req[c].known
      <3>1. /\ Stop(c) /\ rd' = [rd EXCEPT ![c] = "none"]
            /\ UNCHANGED <<owed, served, accepting, request, response>>
        BY <1>11, <2>2 DEF HandleReadBody
      <3> QED BY <3>1
    <2> QED BY <2>1, <2>2
  <1>12. ASSUME NEW c \in Conns, WriteResponse(c) PROVE HttpInv'
    BY <1>12 DEF WriteResponse
  <1>13. ASSUME NEW c \in Conns, WriteCompletes(c) PROVE HttpInv'
    <2>1. Append(landed[c], TRUE) \in Seq(BOOLEAN) OBVIOUS
    <2>2. landed' \in [Conns -> Seq(BOOLEAN)] BY <1>13, <2>1 DEF WriteCompletes
    <2>3. /\ flight' \in [Conns -> Nat] /\ answered' \in [Conns -> Nat]
          /\ \A d \in Conns : answered'[d] + owed'[d] + flight'[d] <= served'[d]
      BY <1>13 DEF WriteCompletes
    <2> QED BY <1>13, <2>2, <2>3 DEF WriteCompletes
  <1>14. ASSUME NEW c \in Conns, WriteFails(c) PROVE HttpInv'
    <2>1. Append(landed[c], FALSE) \in Seq(BOOLEAN) OBVIOUS
    <2> QED BY <1>14, <2>1 DEF WriteFails
  <1>15. ASSUME NEW c \in Conns, HandleWriteHttp(c) PROVE HttpInv'
    <2>1. Tail(landed[c]) \in Seq(BOOLEAN)
      <3>1. landed[c] \in Seq(BOOLEAN) /\ landed[c] # <<>> BY <1>15 DEF HandleWriteHttp
      <3> HIDE DEF TypeOK
      <3> QED BY <3>1, HeadTailProperties, Zenon
    <2> QED BY <1>15, <2>1 DEF HandleWriteHttp
  <1> QED BY <1>1, <1>2, <1>3, <1>4, <1>5, <1>6, <1>7, <1>8, <1>9, <1>10, <1>11, <1>12, <1>13,
             <1>14, <1>15 DEF Next

LEMMA HttpInvInvariant == Spec => []HttpInv
  BY HttpInit, HttpStep, PTL DEF Spec

\* The type invariant, and that a connection is sent no more responses than it
\* has had requests.
THEOREM HttpTypeOK == Spec => []TypeOK
  <1>1. HttpInv => TypeOK BY DEF HttpInv
  <1> QED BY <1>1, HttpInvInvariant, PTL

-----------------------------------------------------------------------------
(* An open connection has somebody to look after it                          *)

\* Where the reader has stopped, the request said so.
StoppedReading ==
    \A c \in Conns : sock[c] = "open" /\ rd[c] = "none" => ~req[c].keep

LEMMA AttendedStep ==
    ASSUME TypeOK, StoppedReading, Attended, [Next]_hvars
    PROVE  StoppedReading' /\ Attended'
  <1> DEFINE Goal == StoppedReading' /\ Attended'
  <1> USE DEF TypeOK, StoppedReading, Attended, RdStates, request, response, life, Add, Subtract, Stop
  <1>1. CASE UNCHANGED hvars \/ AcceptError \/ Done
    BY <1>1 DEF hvars, AcceptError, Done
  <1>2. ASSUME NEW c \in Conns, Accept(c) PROVE Goal
    BY <1>2 DEF Accept
  <1>3. ASSUME NEW c \in Conns, HeadersArrive(c) \/ BodyArrives(c) \/ ReadFails(c) PROVE Goal
    BY <1>3 DEF HeadersArrive, BodyArrives, ReadFails
  <1>4. ASSUME NEW c \in Conns, HandleReadError(c) PROVE Goal
    BY <1>4 DEF HandleReadError
  <1>5. ASSUME NEW c \in Conns, Refuse(c) PROVE Goal
    <2>1. \A d \in Conns : d # c => req'[d] = req[d]
      BY <1>5 DEF Refuse, Store
    <2> QED BY <1>5, <2>1 DEF Refuse
  <1>6. ASSUME NEW c \in Conns, HandleRequest(c) PROVE Goal
    <2>1. /\ owed'[c] > 0 /\ (rd'[c] = "none" => ~Parsed(c).keep) /\ req'[c] = Parsed(c)
          /\ \A d \in Conns : d # c => owed'[d] = owed[d] /\ rd'[d] = rd[d] /\ req'[d] = req[d]
      BY <1>6, ServeEffect DEF HandleRequest, Store
    <2> QED BY <1>6, <2>1 DEF HandleRequest
  <1>7. ASSUME NEW c \in Conns, ReadBody(c) PROVE Goal
    BY <1>7 DEF ReadBody, Store
  <1>8. ASSUME NEW c \in Conns, HandleReadBody(c) PROVE Goal
    <2>1. CASE req[c].known
      <3>1. /\ owed'[c] > 0 /\ (rd'[c] = "none" => ~req[c].keep)
            /\ \A d \in Conns : d # c => owed'[d] = owed[d] /\ rd'[d] = rd[d]
        BY <1>8, <2>1, ServeEffect DEF HandleReadBody
      <3> QED BY <1>8, <2>1, <3>1 DEF HandleReadBody
    <2>2. CASE ~req[c].known BY <1>8, <2>2 DEF HandleReadBody
    <2> QED BY <2>1, <2>2
  <1>9. ASSUME NEW c \in Conns, WriteResponse(c) PROVE Goal
    <2>1. /\ flight'[c] > 0
          /\ \A d \in Conns : d # c => owed'[d] = owed[d] /\ flight'[d] = flight[d]
      BY <1>9 DEF WriteResponse
    <2>2. UNCHANGED <<life, rd, request, landed>> BY <1>9 DEF WriteResponse
    <2> QED BY <2>1, <2>2
  <1>10. ASSUME NEW c \in Conns, WriteCompletes(c) PROVE Goal
    <2>1. Append(landed[c], TRUE) # <<>>
      <3>1. landed[c] \in Seq(BOOLEAN) /\ TRUE \in BOOLEAN OBVIOUS
      <3> HIDE DEF TypeOK
      <3> QED BY <3>1, AppendProperties, Zenon
    <2> QED BY <1>10, <2>1 DEF WriteCompletes
  <1>11. ASSUME NEW c \in Conns, WriteFails(c) PROVE Goal
    <2>1. Append(landed[c], FALSE) # <<>>
      <3>1. landed[c] \in Seq(BOOLEAN) /\ FALSE \in BOOLEAN OBVIOUS
      <3> HIDE DEF TypeOK
      <3> QED BY <3>1, AppendProperties, Zenon
    <2> QED BY <1>11, <2>1 DEF WriteFails
  <1>12. ASSUME NEW c \in Conns, HandleWriteHttp(c) PROVE Goal
    BY <1>12 DEF HandleWriteHttp
  <1> QED BY <1>1, <1>2, <1>3, <1>4, <1>5, <1>6, <1>7, <1>8, <1>9, <1>10, <1>11, <1>12 DEF Next

\* An open connection is in the manager's set, and reads or has a response to
\* come.
THEOREM HttpAttended == Spec => []Attended
  <1>1. Init => StoppedReading /\ Attended
    BY DEF Init, StoppedReading, Attended
  <1>2. HttpInv => TypeOK BY DEF HttpInv
  <1> QED BY <1>1, <1>2, AttendedStep, HttpInvInvariant, PTL DEF Spec

-----------------------------------------------------------------------------
(* The last response is sent before the connection is closed                 *)

\* A request that does not keep the connection is the only one served on it,
\* and the reader has stopped when it has been: the parser accepts one request,
\* and repeats only that.
OneRequest ==
    \A c \in Conns :
        /\ c \notin parsed => served[c] = 0 /\ rd[c] \notin {"body", "gotBody"}
        /\ c \in parsed /\ ~req[c].keep =>
            \/ served[c] = 0 /\ rd[c] \in {"body", "gotBody", "failed", "none"}
            \/ served[c] = 1 /\ rd[c] = "none"
        /\ sock[c] = "new" => rd[c] = "none" /\ served[c] = 0 /\ c \notin parsed

\* A write that succeeded was an answer, one that failed broke the connection.
Outcomes ==
    \A c \in Conns : \A i \in DOMAIN landed[c] :
        IF landed[c][i] THEN answered[c] > 0 ELSE c \in cut

LEMMA OneRequestStep ==
    ASSUME TypeOK, OneRequest, [Next]_hvars
    PROVE  OneRequest'
  <1> USE HttpAssumption
      DEF TypeOK, OneRequest, RdStates, request, response, life, Add, Subtract, Stop
  <1>1. CASE UNCHANGED hvars \/ AcceptError \/ Done
    BY <1>1 DEF hvars, AcceptError, Done
  <1>2. ASSUME NEW c \in Conns, Accept(c) PROVE OneRequest'
    BY <1>2 DEF Accept
  <1>3. ASSUME NEW c \in Conns, HeadersArrive(c) \/ BodyArrives(c) \/ ReadFails(c) PROVE OneRequest'
    BY <1>3 DEF HeadersArrive, BodyArrives, ReadFails
  <1>4. ASSUME NEW c \in Conns, HandleReadError(c) PROVE OneRequest'
    BY <1>4 DEF HandleReadError
  <1>5. ASSUME NEW c \in Conns, Refuse(c) PROVE OneRequest'
    BY <1>5 DEF Refuse, Ready, Store, Parsed
  <1>6. ASSUME NEW c \in Conns, HandleRequest(c) PROVE OneRequest'
    <2>1. /\ served'[c] = served[c] + 1 /\ (rd'[c] = "none" \/ Parsed(c).keep)
          /\ req'[c] = Parsed(c) /\ parsed' = parsed \union {c}
          /\ \A d \in Conns : d # c => served'[d] = served[d] /\ rd'[d] = rd[d] /\ req'[d] = req[d]
      BY <1>6, ServeEffect DEF HandleRequest, Store, Serve
    <2>2. rd[c] = "gotHeaders" BY <1>6 DEF HandleRequest, Ready
    <2>3. c \in parsed => Parsed(c) = req[c] BY DEF Parsed
    <2>4. UNCHANGED life BY <1>6 DEF HandleRequest
    <2>5. ASSUME NEW d \in Conns
          PROVE  /\ d \notin parsed' => served'[d] = 0 /\ rd'[d] \notin {"body", "gotBody"}
                 /\ d \in parsed' /\ ~req'[d].keep =>
                     \/ served'[d] = 0 /\ rd'[d] \in {"body", "gotBody", "failed", "none"}
                     \/ served'[d] = 1 /\ rd'[d] = "none"
                 /\ sock'[d] = "new" => rd'[d] = "none" /\ served'[d] = 0 /\ d \notin parsed'
      <3>1. CASE d # c BY <2>1, <2>4, <3>1
      <3>2. CASE d = c
        <4>1. sock[c] # "new" BY <2>2
        <4>2. served[c] = 0 \/ Parsed(c).keep BY <2>2, <2>3
        <4>3. served'[c] = 1 \/ Parsed(c).keep BY <2>1, <4>2
        <4> QED BY <2>1, <2>4, <3>2, <4>1, <4>3
      <3> QED BY <3>1, <3>2
    <2> QED BY <2>5
  <1>7. ASSUME NEW c \in Conns, ReadBody(c) PROVE OneRequest'
    BY <1>7 DEF ReadBody, Ready, Store, Parsed
  <1>8. ASSUME NEW c \in Conns, HandleReadBody(c) PROVE OneRequest'
    <2>1. CASE req[c].known
      <3>1. /\ served'[c] = served[c] + 1 /\ (rd'[c] = "none" \/ req[c].keep)
            /\ \A d \in Conns : d # c => served'[d] = served[d] /\ rd'[d] = rd[d]
        BY <1>8, <2>1, ServeEffect DEF HandleReadBody, Serve
      <3>2. c \in parsed BY <1>8 DEF HandleReadBody
      <3> QED BY <1>8, <2>1, <3>1, <3>2 DEF HandleReadBody
    <2>2. CASE ~req[c].known BY <1>8, <2>2 DEF HandleReadBody
    <2> QED BY <2>1, <2>2
  <1>9. ASSUME NEW c \in Conns,
               WriteResponse(c) \/ WriteCompletes(c) \/ WriteFails(c) \/ HandleWriteHttp(c)
        PROVE  OneRequest'
    BY <1>9 DEF WriteResponse, WriteCompletes, WriteFails, HandleWriteHttp
  <1> QED BY <1>1, <1>2, <1>3, <1>4, <1>5, <1>6, <1>7, <1>8, <1>9 DEF Next

LEMMA OutcomesStep ==
    ASSUME TypeOK, Outcomes, [Next]_hvars
    PROVE  Outcomes'
  <1>1. CASE UNCHANGED <<landed, answered, cut>> BY <1>1 DEF Outcomes
  <1>2. ASSUME NEW c \in Conns, WriteCompletes(c) PROVE Outcomes'
    BY <1>2 DEF WriteCompletes, Outcomes, TypeOK, Add
  <1>3. ASSUME NEW c \in Conns, WriteFails(c) PROVE Outcomes'
    BY <1>3 DEF WriteFails, Outcomes, TypeOK
  <1>4. ASSUME NEW c \in Conns, HandleWriteHttp(c) PROVE Outcomes'
    <2>1. /\ landed[c] \in Seq(BOOLEAN) /\ landed[c] # <<>>
          /\ landed' = [landed EXCEPT ![c] = Tail(@)] /\ UNCHANGED <<answered, cut>>
      BY <1>4 DEF HandleWriteHttp, TypeOK
    <2>2. \A i \in DOMAIN Tail(landed[c]) :
            i + 1 \in DOMAIN landed[c] /\ (Tail(landed[c])[i] <=> landed[c][i + 1])
      BY <2>1
    <2> QED BY <2>1, <2>2 DEF Outcomes, TypeOK
  <1>5. \/ UNCHANGED <<landed, answered, cut>>
        \/ \E c \in Conns : WriteCompletes(c) \/ WriteFails(c) \/ HandleWriteHttp(c)
    BY DEF Next, AcceptError, Done, Accept, HeadersArrive, BodyArrives, ReadFails, HandleReadError,
       Refuse, HandleRequest, ReadBody, HandleReadBody, WriteResponse, hvars, response
  <1> QED BY <1>1, <1>2, <1>3, <1>4, <1>5

\* What a step may do to the parts AnsweredBeforeClose speaks of.
LEMMA HttpMoves ==
    ASSUME TypeOK, [Next]_hvars, NEW c \in Conns
    PROVE  /\ c \in abort' => \/ c \in abort \/ HandleReadError(c) \/ Refuse(c)
                              \/ HandleReadBody(c) /\ ~req[c].known
                              \/ HandleWriteHttp(c)
           /\ \/ served'[c] = served[c]
              \/ HandleRequest(c)
              \/ HandleReadBody(c) /\ req[c].known
           /\ c \in parsed => req'[c] = req[c]
           /\ (c \in cut => c \in cut') /\ answered[c] <= answered'[c]
  <1> DEFINE Goal ==
          /\ c \in abort' => \/ c \in abort \/ HandleReadError(c) \/ Refuse(c)
                             \/ HandleReadBody(c) /\ ~req[c].known
                             \/ HandleWriteHttp(c)
          /\ \/ served'[c] = served[c]
             \/ HandleRequest(c)
             \/ HandleReadBody(c) /\ req[c].known
          /\ c \in parsed => req'[c] = req[c]
          /\ (c \in cut => c \in cut') /\ answered[c] <= answered'[c]
  <1> USE DEF request, response, life, Stop
  <1>0. answered[c] \in Nat /\ req \in [Conns -> Requests] BY DEF TypeOK
  <1>1. CASE UNCHANGED hvars \/ AcceptError \/ Done
    BY <1>0, <1>1 DEF hvars, AcceptError, Done
  <1>2. ASSUME NEW d \in Conns,
               Accept(d) \/ HeadersArrive(d) \/ BodyArrives(d) \/ ReadFails(d) \/ WriteResponse(d)
        PROVE  Goal
    BY <1>0, <1>2 DEF Accept, HeadersArrive, BodyArrives, ReadFails, WriteResponse
  <1>3. ASSUME NEW d \in Conns, HandleReadError(d) PROVE Goal
    <2>1. /\ c \in abort' => c \in abort \/ c = d
          /\ UNCHANGED <<served, req, cut, answered>>
      BY <1>3 DEF HandleReadError
    <2> QED BY <1>0, <1>3, <2>1
  <1>4. ASSUME NEW d \in Conns, Refuse(d) PROVE Goal
    <2>1. /\ c \in abort' => c \in abort \/ c = d
          /\ UNCHANGED <<served, cut, answered>>
      BY <1>4 DEF Refuse
    <2>2. c \in parsed => req'[c] = req[c] BY <1>0, <1>4 DEF Refuse, Store, Parsed
    <2> QED BY <1>0, <1>4, <2>1, <2>2
  <1>5. ASSUME NEW d \in Conns, HandleRequest(d) PROVE Goal
    <2>1. served'[c] = served[c] \/ c = d
      BY <1>5, ServeEffect DEF HandleRequest
    <2>2. c \in parsed => req'[c] = req[c] BY <1>0, <1>5 DEF HandleRequest, Store, Parsed
    <2>3. UNCHANGED <<abort, cut, answered>> BY <1>5 DEF HandleRequest
    <2> QED BY <1>0, <1>5, <2>1, <2>2, <2>3
  <1>6. ASSUME NEW d \in Conns, ReadBody(d) PROVE Goal
    BY <1>0, <1>6 DEF ReadBody, Store, Parsed
  <1>7. ASSUME NEW d \in Conns, HandleReadBody(d) PROVE Goal
    <2>1. CASE req[d].known BY <1>0, <1>7, <2>1, ServeEffect DEF HandleReadBody
    <2>2. CASE ~req[d].known BY <1>0, <1>7, <2>2 DEF HandleReadBody
    <2> QED BY <2>1, <2>2
  <1>8. ASSUME NEW d \in Conns, WriteCompletes(d) PROVE Goal
    BY <1>8 DEF WriteCompletes, Add, TypeOK
  <1>9. ASSUME NEW d \in Conns, WriteFails(d) PROVE Goal
    BY <1>0, <1>9 DEF WriteFails
  <1>10. ASSUME NEW d \in Conns, HandleWriteHttp(d) PROVE Goal
    <2>1. /\ c \in abort' => c \in abort \/ c = d
          /\ UNCHANGED <<served, req, cut, answered>>
      BY <1>10 DEF HandleWriteHttp
    <2> QED BY <1>0, <1>10, <2>1
  <1> QED BY <1>1, <1>2, <1>3, <1>4, <1>5, <1>6, <1>7, <1>8, <1>9, <1>10 DEF Next

LEMMA AnsweredStep ==
    ASSUME TypeOK, TypeOK', OneRequest, OneRequest', Outcomes, AnsweredBeforeClose, [Next]_hvars
    PROVE  AnsweredBeforeClose'
  <1> SUFFICES ASSUME NEW c \in Conns, c \in abort', served'[c] > 0, ~req'[c].keep
               PROVE  answered'[c] = served'[c] \/ c \in cut'
    BY DEF AnsweredBeforeClose
  <1>1. /\ served'[c] = 1 /\ answered'[c] <= 1
        /\ answered[c] \in Nat /\ answered'[c] \in Nat /\ answered[c] <= answered'[c]
    <2>1. served'[c] = 1 BY DEF OneRequest
    <2>2. /\ answered'[c] \in Nat /\ owed'[c] \in Nat /\ flight'[c] \in Nat
          /\ answered'[c] + owed'[c] + flight'[c] <= served'[c]
      BY DEF TypeOK
    <2>3. answered[c] \in Nat BY DEF TypeOK
    <2> QED BY <2>1, <2>2, <2>3, HttpMoves
  <1>2. ~HandleRequest(c) /\ ~(HandleReadBody(c) /\ req[c].known)
    BY DEF HandleRequest, HandleReadBody, Ready, life
  <1>3. served[c] = 1 BY <1>1, <1>2, HttpMoves
  <1>4. c \in parsed /\ ~req[c].keep BY <1>3, HttpMoves DEF OneRequest
  <1>5. rd[c] = "none" BY <1>3, <1>4 DEF OneRequest
  <1>6. CASE c \in abort
    <2>1. answered[c] = 1 \/ c \in cut BY <1>3, <1>4, <1>6 DEF AnsweredBeforeClose
    <2> QED BY <1>1, <2>1, HttpMoves
  <1>7. CASE HandleWriteHttp(c)
    <2>1. landed[c] \in Seq(BOOLEAN) /\ landed[c] # <<>> BY <1>7 DEF HandleWriteHttp, TypeOK
    <2>2. 1 \in DOMAIN landed[c] BY <2>1
    <2>3. answered[c] > 0 \/ c \in cut BY <2>2 DEF Outcomes
    <2> QED BY <1>1, <2>3, HttpMoves
  <1>8. ~HandleReadError(c) /\ ~Refuse(c) /\ ~HandleReadBody(c)
    BY <1>5 DEF HandleReadError, Refuse, Ready, HandleReadBody
  <1> QED BY <1>6, <1>7, <1>8, HttpMoves

\* A request that does not keep the connection is answered before the server
\* closes it, unless a write failed.
THEOREM HttpAnswers == Spec => []AnsweredBeforeClose
  <1>1. Init => OneRequest /\ Outcomes /\ AnsweredBeforeClose
    <2> SUFFICES ASSUME Init PROVE OneRequest /\ Outcomes /\ AnsweredBeforeClose
      OBVIOUS
    <2>1. OneRequest /\ AnsweredBeforeClose BY DEF Init, OneRequest, AnsweredBeforeClose
    <2>2. \A s \in Seq(BOOLEAN) : s = <<>> => DOMAIN s = {} OBVIOUS
    <2>3. <<>> \in Seq(BOOLEAN) OBVIOUS
    <2>4. Outcomes BY <2>2, <2>3 DEF Init, Outcomes
    <2> QED BY <2>1, <2>4
  <1>2. HttpInv => TypeOK BY DEF HttpInv
  <1>3. /\ TypeOK /\ TypeOK' /\ OneRequest /\ Outcomes /\ AnsweredBeforeClose /\ [Next]_hvars
        => OneRequest' /\ Outcomes' /\ AnsweredBeforeClose'
    BY OneRequestStep, OutcomesStep, AnsweredStep
  <1> QED BY <1>1, <1>2, <1>3, HttpInvInvariant, PTL DEF Spec
=============================================================================

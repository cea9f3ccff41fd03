------------------------ MODULE Registration_proofs ------------------------
(***************************************************************************)
(* Theorems about Registration, for any number of requests and users: what *)
(* a client is told agrees with the table.                                 *)
(***************************************************************************)
EXTENDS Registration, TLAPS

Refusals == {"NAME_TAKEN", "CA_DOWN", "CSR_VERIFY_FAILURE"}
Successes == {"SUCCEED", "PENDDING_CERT"}

\* The first call the coroutine posted is still to run.
Posted(r) == ca[r] = <<"down">> \/ ca[r] = <<"cert", "pending">>

\* Calls and answers come from a coroutine that is over, the answer after the
\* first call and, when the CA was down, as the last thing.
InOrder ==
    \A r \in Requests :
        /\ ca[r] # <<>> \/ answer[r] # "none" => at[r] = "end"
        /\ Posted(r) => answer[r] = "none"
        /\ answer[r] # "none" => answer[r] \in {"SUCCEED", "CA_DOWN"}
        /\ answer[r] = "CA_DOWN" => ca[r] = <<>>

\* Nothing was told that what is still to be told could contradict.
Unspoken ==
    \A r \in Requests :
        /\ at[r] \notin {"end", "lost"} \/ Posted(r) =>
            \A v \in Refusals \union Successes : ~Told(r, v)
        /\ ca[r] = <<"pending">> \/ answer[r] = "SUCCEED" => \A v \in Refusals : ~Told(r, v)
        /\ answer[r] = "CA_DOWN" => \A v \in Refusals \union Successes : ~Told(r, v)

\* The success still to be told will be true.
Stored(r) == Owns(r) /\ (r \in failed \/ table[UserOf[r]].cert)
SuccessStored == \A r \in Requests : answer[r] = "SUCCEED" => Stored(r)

\* The client is told that it is registered or that it is not, never both.
OneVerdict ==
    \A r \in Requests : Told(r, "SUCCEED") \/ Told(r, "PENDDING_CERT") =>
        ~Told(r, "NAME_TAKEN") /\ ~Told(r, "CA_DOWN") /\ ~Told(r, "CSR_VERIFY_FAILURE")

\* The inductive invariant.
IInv ==
    /\ TypeOK /\ InOrder /\ Unspoken
    /\ WorksOnOwnRow /\ SuccessStored /\ ToldMeansStored /\ OneVerdict

-----------------------------------------------------------------------------
(* Sequences of calls and replies.                                           *)

\* What running the first outstanding call leaves.
LEMMA FirstCall ==
    ASSUME NEW s \in Calls, s # <<>>
    PROVE  /\ Tail(s) \in Calls
           /\ Head(s) = "down" => s = <<"down">> /\ Tail(s) = <<>>
           /\ Head(s) = "cert" => s = <<"cert", "pending">> /\ Tail(s) = <<"pending">>
           /\ Head(s) = "pending" => s = <<"pending">> /\ Tail(s) = <<>>
  <1>1. CASE s = <<"down">>
    BY <1>1 DEF Calls
  <1>2. CASE s = <<"pending">>
    BY <1>2 DEF Calls
  <1>3. CASE s = <<"cert", "pending">>
    <2>1. Head(s) = "cert"
      BY <1>3
    <2>2. Tail(s) = <<"pending">>
      BY <1>3
    <2> QED
      BY <2>1, <2>2, <1>3 DEF Calls
  <1> QED
    BY <1>1, <1>2, <1>3 DEF Calls

\* A reply adds one result to what one client was told.
LEMMA ReplyTells ==
    ASSUME TypeOK, NEW r \in Requests, NEW w \in Results, Reply(r, w)
    PROVE  /\ replies' \in [Requests -> Seq(Results)]
           /\ \A q \in Requests, v \in Results : Told(q, v)' <=> Told(q, v) \/ (q = r /\ v = w)
  <1>1. replies \in [Requests -> Seq(Results)]
    BY DEF TypeOK
  <1>2. replies' = [replies EXCEPT ![r] = Append(@, w)]
    BY DEF Reply
  <1>3. Append(replies[r], w) \in Seq(Results)
    BY <1>1
  <1>4. replies' \in [Requests -> Seq(Results)]
    BY <1>1, <1>2, <1>3
  <1>5. ASSUME NEW q \in Requests, NEW v \in Results
        PROVE  Told(q, v)' <=> Told(q, v) \/ (q = r /\ v = w)
    <2>1. CASE q # r
      BY <2>1, <1>1, <1>2 DEF Told
    <2>2. CASE q = r
      <3>1. replies'[r] = Append(replies[r], w) /\ replies[r] \in Seq(Results)
        BY <1>1, <1>2
      <3>2. DOMAIN replies[r] = 1 .. Len(replies[r])
        BY <3>1
      <3>3. DOMAIN replies'[r] = 1 .. Len(replies[r]) + 1 /\ Len(replies[r]) \in Nat
        BY <3>1
      <3>4. \A i \in 1 .. Len(replies[r]) : replies'[r][i] = replies[r][i]
        BY <3>1
      <3>5. replies'[r][Len(replies[r]) + 1] = w
        BY <3>1
      <3> QED
        BY <2>2, <3>2, <3>3, <3>4, <3>5 DEF Told
    <2> QED
      BY <2>1, <2>2
  <1> QED
    BY <1>4, <1>5

-----------------------------------------------------------------------------
(* The invariant.                                                            *)

LEMMA InitIInv == Init => IInv
  <1> SUFFICES ASSUME Init PROVE IInv
    OBVIOUS
  <1>1. \A r \in Requests, v \in Results : ~Told(r, v)
    BY DEF Init, Told
  <1>2. TypeOK
    BY DEF Init, TypeOK, Places, Calls
  <1>3. InOrder /\ SuccessStored /\ WorksOnOwnRow
    BY DEF Init, InOrder, SuccessStored, WorksOnOwnRow, Coroutine, Posted
  <1>4. Unspoken /\ ToldMeansStored /\ OneVerdict
    BY <1>1, <1>3 DEF Init, Unspoken, ToldMeansStored, OneVerdict, Refusals, Successes,
        Results, Posted
  <1> QED
    BY <1>2, <1>3, <1>4 DEF IInv

\* Every step of a request keeps the type invariant.
LEMMA TypeStep ==
    ASSUME IInv, NEW r \in Requests, Step(r), UNCHANGED up
    PROVE  TypeOK'
  <1> USE RegistrationAssumption DEF IInv, TypeOK, Go
  <1>1. UserOf[r] \in Users
    OBVIOUS
  <1>2. CASE CheckName(r)
    <2>1. replies' \in [Requests -> Seq(Results)]
      BY <1>2, ReplyTells DEF CheckName, Results
    <2> QED
      BY <1>2, <2>1 DEF CheckName, Places
  <1>3. CASE Request(r)
    <2>1. replies' \in [Requests -> Seq(Results)]
      BY <1>3, ReplyTells DEF Request, Results
    <2> QED
      BY <1>3, <2>1 DEF Request, Places
  <1>4. CASE Select(r)
    BY <1>4 DEF Select, Places
  <1>5. CASE Insert(r)
    <2>1. [owner |-> r, cert |-> FALSE] \in Rows
      BY DEF Rows
    <2>2. table' \in [Users -> Rows \union {NoRow}]
      BY <1>5, <1>1, <2>1 DEF Insert
    <2> QED
      BY <1>5, <2>2 DEF Insert, Places
  <1>6. CASE Registered(r)
    <2>1. replies' \in [Requests -> Seq(Results)]
      BY <1>6, ReplyTells DEF Registered, Results
    <2> QED
      BY <1>6, <2>1 DEF Registered, Places
  <1>7. ASSUME ca[r] = <<>>, NEW calls \in Calls, Post(r, calls)
        PROVE  ca' = [ca EXCEPT ![r] = calls] /\ ca' \in [Requests -> Calls]
    <2>1. ca[r] \o calls = calls
      BY <1>7 DEF Calls
    <2> QED
      BY <1>7, <2>1 DEF Post
  <1>8. at[r] \in {"push", "poll", "read"} => ca[r] = <<>>
    BY DEF InOrder
  <1>9. CASE Pushed(r)
    <2>1. ca' \in [Requests -> Calls]
      BY <1>7, <1>8, <1>9 DEF Pushed, Calls
    <2> QED
      BY <1>9, <2>1 DEF Pushed, Places
  <1>10. CASE Readable(r)
    BY <1>10 DEF Readable, Places
  <1>11. CASE PollEnds(r)
    <2>1. ca' \in [Requests -> Calls]
      BY <1>7, <1>8, <1>11 DEF PollEnds, Calls
    <2> QED
      BY <1>11, <2>1 DEF PollEnds, Places
  <1>12. CASE ReadCert(r)
    <2>1. ca' \in [Requests -> Calls]
      BY <1>7, <1>8, <1>12 DEF ReadCert, Calls
    <2> QED
      BY <1>12, <2>1 DEF ReadCert, Places
  <1>13. ASSUME ca[r] # <<>>, NextCall(r) PROVE ca' \in [Requests -> Calls]
    BY <1>13, FirstCall DEF NextCall
  <1>14. CASE Certified(r)
    <2>1. ca' \in [Requests -> Calls]
      BY <1>13, <1>14 DEF Certified
    <2>2. ASSUME table[UserOf[r]] # NoRow PROVE [table[UserOf[r]] EXCEPT !.cert = TRUE] \in Rows
      BY <1>1, <2>2 DEF Rows
    <2>3. table' \in [Users -> Rows \union {NoRow}]
      BY <1>1, <1>14, <2>2 DEF Certified, Fails
    <2> QED
      BY <1>14, <2>1, <2>3 DEF Certified, Later, Results, Fails
  <1>15. CASE Pending(r)
    <2>1. ca' \in [Requests -> Calls]
      BY <1>13, <1>15 DEF Pending
    <2>2. replies' \in [Requests -> Seq(Results)]
      BY <1>15, ReplyTells DEF Pending, Results
    <2> QED
      BY <1>15, <2>1, <2>2 DEF Pending
  <1>16. CASE RolledBack(r)
    <2>1. ca' \in [Requests -> Calls]
      BY <1>13, <1>16 DEF RolledBack
    <2>2. table' \in [Users -> Rows \union {NoRow}]
      BY <1>1, <1>16 DEF RolledBack, Fails
    <2> QED
      BY <1>16, <2>1, <2>2 DEF RolledBack, Later, Results, Fails
  <1>17. CASE Answer(r)
    <2>1. answer[r] \in Results
      BY <1>17 DEF Answer
    <2>2. replies' \in [Requests -> Seq(Results)]
      BY <1>17, <2>1, ReplyTells DEF Answer
    <2> QED
      BY <1>17, <2>2 DEF Answer, Later
  <1> QED
    BY <1>2, <1>3, <1>4, <1>5, <1>6, <1>9, <1>10, <1>11, <1>12, <1>14, <1>15, <1>16, <1>17
    DEF Step

\* The part of the invariant that is about one request.
Sound(r) ==
    /\ ca[r] # <<>> \/ answer[r] # "none" => at[r] = "end"
    /\ Posted(r) => answer[r] = "none"
    /\ answer[r] # "none" => answer[r] \in {"SUCCEED", "CA_DOWN"}
    /\ answer[r] = "CA_DOWN" => ca[r] = <<>>
    /\ at[r] \notin {"end", "lost"} \/ Posted(r) =>
        \A v \in Refusals \union Successes : ~Told(r, v)
    /\ ca[r] = <<"pending">> \/ answer[r] = "SUCCEED" => \A v \in Refusals : ~Told(r, v)
    /\ answer[r] = "CA_DOWN" => \A v \in Refusals \union Successes : ~Told(r, v)
    /\ at[r] \in Coroutine \union {"stored"} \/ ca[r] # <<>> => Owns(r)
    /\ answer[r] = "SUCCEED" => Stored(r)
    /\ Told(r, "SUCCEED") \/ Told(r, "PENDDING_CERT") => Owns(r)
    /\ Told(r, "SUCCEED") => r \in failed \/ table[UserOf[r]].cert
    /\ Told(r, "SUCCEED") \/ Told(r, "PENDDING_CERT") =>
        ~Told(r, "NAME_TAKEN") /\ ~Told(r, "CA_DOWN") /\ ~Told(r, "CSR_VERIFY_FAILURE")

LEMMA SoundIInv == IInv <=> TypeOK /\ \A r \in Requests : Sound(r)
  BY DEF IInv, Sound, InOrder, Unspoken, WorksOnOwnRow, SuccessStored, ToldMeansStored, OneVerdict

\* A step of one request leaves the others as they are, and the row of a name
\* if another request owns it.
LEMMA OthersKept ==
    ASSUME IInv, NEW r \in Requests, Step(r), NEW q \in Requests, q # r
    PROVE  /\ at'[q] = at[q] /\ ca'[q] = ca[q] /\ answer'[q] = answer[q]
           /\ replies'[q] = replies[q] /\ (q \in failed => q \in failed')
           /\ Owns(q) => table'[UserOf[q]] = table[UserOf[q]]
  <1> USE RegistrationAssumption DEF TypeOK, Go, Reply, Post, NextCall, Later, Fails
  <1>1. TypeOK /\ Sound(r) /\ UserOf[r] \in Users /\ UserOf[q] \in Users
    BY SoundIInv
  <1>2. CASE CheckName(r) \/ Request(r) \/ Select(r) \/ Registered(r)
    BY <1>1, <1>2 DEF CheckName, Request, Select, Registered
  <1>3. CASE Pushed(r) \/ Readable(r) \/ PollEnds(r) \/ ReadCert(r)
    BY <1>1, <1>3 DEF Pushed, Readable, PollEnds, ReadCert
  <1>4. CASE Pending(r) \/ Answer(r)
    BY <1>1, <1>4 DEF Pending, Answer
  <1>5. CASE Insert(r)
    BY <1>1, <1>5 DEF Insert, NameFree, Owns
  <1>6. CASE Certified(r) \/ RolledBack(r)
    <2>1. ca[r] # <<>>
      BY <1>6 DEF Certified, RolledBack
    <2>2. Owns(r)
      BY <1>1, <2>1 DEF Sound
    <2>3. Owns(q) => UserOf[q] # UserOf[r]
      BY <2>2 DEF Owns
    <2> QED
      BY <1>1, <1>6, <2>3 DEF Certified, RolledBack
  <1> QED
    BY <1>2, <1>3, <1>4, <1>5, <1>6 DEF Step

LEMMA OthersSound ==
    ASSUME IInv, NEW r \in Requests, Step(r), NEW q \in Requests, q # r
    PROVE  Sound(q)'
  <1>1. Sound(q)
    BY SoundIInv
  <1>2. /\ at'[q] = at[q] /\ ca'[q] = ca[q] /\ answer'[q] = answer[q]
        /\ replies'[q] = replies[q] /\ (q \in failed => q \in failed')
        /\ Owns(q) => table'[UserOf[q]] = table[UserOf[q]]
    BY OthersKept
  <1>3. \A v : Told(q, v)' <=> Told(q, v)
    BY <1>2 DEF Told
  <1>4. Owns(q) => Owns(q)'
    BY <1>2 DEF Owns
  <1>5. Stored(q) => Stored(q)'
    BY <1>2, <1>4 DEF Stored, Owns
  <1>6. Posted(q)' <=> Posted(q)
    BY <1>2 DEF Posted
  <1>7. (Told(q, "SUCCEED") => q \in failed \/ table[UserOf[q]].cert)'
    BY <1>1, <1>2, <1>3 DEF Sound
  <1> QED
    BY <1>1, <1>2, <1>3, <1>4, <1>5, <1>6, <1>7 DEF Sound

\* A step that writes no reply tells nobody anything.
LEMMA Told0 ==
    ASSUME NEW r \in Requests, replies' = replies, NEW v
    PROVE  Told(r, v)' <=> Told(r, v)
  BY DEF Told

\* The steps before the coroutine: nothing has been told but the name check.
LEMMA EarlySound ==
    ASSUME IInv, NEW r \in Requests,
           CheckName(r) \/ Request(r) \/ Select(r) \/ Insert(r) \/ Registered(r)
    PROVE  Sound(r)'
  <1> USE RegistrationAssumption DEF TypeOK, Go
  <1>1. TypeOK /\ Sound(r) /\ UserOf[r] \in Users
    BY SoundIInv
  <1>2. at[r] \in Places /\ at[r] \notin {"end", "lost"} \union Coroutine
    BY <1>1 DEF CheckName, Request, Select, Insert, Registered, Places, Coroutine
  <1>3. /\ ca[r] = <<>> /\ answer[r] = "none"
        /\ \A v \in Refusals \union Successes : ~Told(r, v)
    BY <1>1, <1>2 DEF Sound
  <1>4. ca'[r] = <<>> /\ answer'[r] = "none" /\ ~Posted(r)'
    <2>1. ca' = ca /\ answer' = answer
      BY DEF CheckName, Request, Select, Insert, Registered
    <2>2. ca'[r] = <<>> /\ answer'[r] = "none"
      BY <1>3, <2>1
    <2>3. ~Posted(r)
      BY <1>3 DEF Posted
    <2> QED
      BY <2>1, <2>2, <2>3 DEF Posted
  <1>5. CASE CheckName(r)
    <2>1. \A v \in Refusals \union Successes : ~Told(r, v)'
      <3>1. CASE replies' = replies
        BY <1>3, <3>1, Told0
      <3>2. CASE replies' # replies
        BY <1>1, <1>3, <1>5, <3>2, ReplyTells DEF CheckName, Results, Refusals, Successes
      <3> QED
        BY <3>1, <3>2
    <2>2. at'[r] = "checked"
      BY <1>1, <1>5 DEF CheckName
    <2> QED
      BY <1>4, <2>1, <2>2 DEF Sound, Coroutine, Successes
  <1>6. CASE Request(r) \/ Registered(r)
    <2>1. CASE replies' = replies
      <3>1. \A v \in Refusals \union Successes : ~Told(r, v)'
        BY <1>3, <2>1, Told0
      <3>2. at'[r] \in {"select", "push", "end"}
        BY <1>1, <1>6 DEF Request, Registered
      <3>3. at'[r] = "push" => Owns(r)
        BY <1>1, <1>6 DEF Request, Registered, Sound
      <3>4. table' = table
        BY <1>6 DEF Request, Registered
      <3>5. at'[r] = "push" => Owns(r)'
        BY <3>3, <3>4 DEF Owns
      <3> QED
        BY <1>4, <3>1, <3>2, <3>5 DEF Sound, Coroutine, Successes
    <2>2. ASSUME NEW w \in {"CSR_VERIFY_FAILURE", "NAME_TAKEN"}, Reply(r, w), at'[r] = "end"
          PROVE  Sound(r)'
      <3>1. \A v \in Successes : ~Told(r, v)'
        BY <1>1, <1>3, <2>2, ReplyTells DEF Results, Successes
      <3> QED
        BY <1>4, <2>2, <3>1 DEF Sound, Coroutine, Successes
    <2> QED
      BY <1>1, <1>6, <2>1, <2>2 DEF Request, Registered
  <1>7. CASE Select(r) \/ Insert(r)
    <2>1. \A v \in Refusals \union Successes : ~Told(r, v)'
      BY <1>3, <1>7, Told0 DEF Select, Insert
    <2>2. at'[r] \in {"insert", "stored", "refused"}
      BY <1>1, <1>7 DEF Select, Insert
    <2>3. ASSUME at'[r] = "stored" PROVE Owns(r)'
      <3> DEFINE row == [owner |-> r, cert |-> FALSE]
      <3>1. row \in Rows
        BY DEF Rows
      <3>2. row # NoRow /\ row.owner = r
        BY <3>1 DEF Rows
      <3>3. table' = [table EXCEPT ![UserOf[r]] = row]
        BY <1>1, <1>7, <2>3 DEF Select, Insert
      <3>4. table'[UserOf[r]] = row
        BY <1>1, <3>3
      <3> QED
        BY <3>2, <3>4 DEF Owns
    <2> QED
      BY <1>4, <2>1, <2>2, <2>3 DEF Sound, Coroutine, Successes
  <1> QED
    BY <1>5, <1>6, <1>7

\* The steps of the coroutine: it posts its calls as the last thing.
LEMMA CoroutineSound ==
    ASSUME IInv, NEW r \in Requests,
           Pushed(r) \/ Readable(r) \/ PollEnds(r) \/ ReadCert(r)
    PROVE  Sound(r)'
  <1> USE DEF TypeOK, Go
  <1>1. TypeOK /\ Sound(r)
    BY SoundIInv
  <1>2. at[r] \in Coroutine
    BY DEF Pushed, Readable, PollEnds, ReadCert, Coroutine
  <1>3. /\ ca[r] = <<>> /\ answer[r] = "none" /\ Owns(r)
        /\ \A v \in Refusals \union Successes : ~Told(r, v)
    BY <1>1, <1>2 DEF Sound, Coroutine
  <1>4. table' = table /\ answer' = answer /\ replies' = replies
    BY DEF Pushed, Readable, PollEnds, ReadCert
  <1>5. Owns(r)' /\ answer'[r] = "none" /\ \A v \in Refusals \union Successes : ~Told(r, v)'
    BY <1>3, <1>4, Told0 DEF Owns
  <1>6. ASSUME NEW calls \in Calls, Post(r, calls) PROVE ca'[r] = calls
    <2>1. ca[r] \o calls = calls
      BY <1>3 DEF Calls
    <2> QED
      BY <1>1, <1>6, <2>1 DEF Post
  <1>7. at'[r] = "end" \/ (at'[r] \in Coroutine /\ ca' = ca)
    BY <1>1 DEF Pushed, Readable, PollEnds, ReadCert, Coroutine
  <1>8. ca'[r] # <<>> => at'[r] = "end"
    BY <1>3, <1>7
  <1> QED
    BY <1>5, <1>7, <1>8 DEF Sound, Refusals, Successes

\* The calls posted run in order, and the answers they leave follow them.
LEMMA HandlerSound ==
    ASSUME IInv, NEW r \in Requests,
           Certified(r) \/ Pending(r) \/ RolledBack(r) \/ Answer(r)
    PROVE  Sound(r)'
  <1> USE RegistrationAssumption DEF TypeOK, NextCall, Later
  <1>1. TypeOK /\ Sound(r) /\ UserOf[r] \in Users /\ ca[r] \in Calls
    BY SoundIInv
  <1>2. at' = at /\ at[r] = "end"
    BY <1>1 DEF Certified, Pending, RolledBack, Answer, Sound
  <1>3. CASE Certified(r)
    <2>1. ca[r] = <<"cert", "pending">> /\ ca'[r] = <<"pending">> /\ answer'[r] = "SUCCEED"
      BY <1>1, <1>3, FirstCall DEF Certified
    <2>2. Owns(r) /\ \A v \in Refusals \union Successes : ~Told(r, v)
      BY <1>1, <2>1 DEF Sound, Posted
    <2>3. \A v \in Refusals \union Successes : ~Told(r, v)'
      BY <1>3, <2>2, Told0 DEF Certified
    <2>4. Owns(r)' /\ Stored(r)'
      <3>1. CASE UNCHANGED table /\ failed' = failed \union {r}
        BY <2>2, <3>1 DEF Owns, Stored
      <3>2. CASE table' = [table EXCEPT ![UserOf[r]].cert = TRUE]
        <4>1. table[UserOf[r]] \in Rows /\ table[UserOf[r]].owner = r
          BY <1>1, <2>2 DEF Owns
        <4>2. table'[UserOf[r]] = [table[UserOf[r]] EXCEPT !.cert = TRUE]
          BY <1>1, <3>2
        <4>3. table'[UserOf[r]] \in Rows /\ table'[UserOf[r]].owner = r /\ table'[UserOf[r]].cert
          BY <4>1, <4>2 DEF Rows
        <4> QED
          BY <4>3 DEF Owns, Stored, Rows
      <3> QED
        BY <1>3, <3>1, <3>2 DEF Certified, Fails
    <2> QED
      BY <1>2, <2>1, <2>3, <2>4 DEF Sound, Posted, Coroutine, Refusals, Successes
  <1>4. CASE Pending(r)
    <2>1. ca[r] = <<"pending">> /\ ca'[r] = <<>> /\ answer' = answer /\ table' = table
      BY <1>1, <1>4, FirstCall DEF Pending
    <2>2. Owns(r) /\ answer[r] # "CA_DOWN" /\ \A v \in Refusals : ~Told(r, v)
      BY <1>1, <2>1 DEF Sound
    <2>3. \A v \in Refusals \union Successes : Told(r, v)' <=> Told(r, v) \/ v = "PENDDING_CERT"
      BY <1>1, <1>4, ReplyTells DEF Pending, Results, Refusals, Successes
    <2>4. Owns(r)' /\ (Stored(r) => Stored(r)') /\ failed' = failed
      BY <1>4, <2>1, <2>2 DEF Owns, Stored, Pending
    <2> QED
      BY <1>1, <1>2, <2>1, <2>2, <2>3, <2>4 DEF Sound, Posted, Coroutine, Refusals, Successes
  <1>5. CASE RolledBack(r)
    <2>1. ca[r] = <<"down">> /\ ca'[r] = <<>> /\ answer'[r] = "CA_DOWN"
      BY <1>1, <1>5, FirstCall DEF RolledBack
    <2>2. \A v \in Refusals \union Successes : ~Told(r, v)
      BY <1>1, <2>1 DEF Sound, Posted
    <2>3. \A v \in Refusals \union Successes : ~Told(r, v)'
      BY <1>5, <2>2, Told0 DEF RolledBack
    <2> QED
      BY <1>2, <2>1, <2>3 DEF Sound, Posted, Coroutine, Refusals, Successes
  <1>6. CASE Answer(r)
    <2>1. /\ answer[r] \in {"SUCCEED", "CA_DOWN"} /\ answer'[r] = "none"
          /\ ca' = ca /\ table' = table /\ failed' = failed
      BY <1>1, <1>6 DEF Answer, Sound
    <2>2. \A v \in Refusals \union Successes : Told(r, v)' <=> Told(r, v) \/ v = answer[r]
      BY <1>1, <1>6, <2>1, ReplyTells DEF Answer, Results, Refusals, Successes
    <2>3. ~Posted(r) /\ ~Posted(r)' /\ (Owns(r) <=> Owns(r)')
      BY <1>1, <2>1 DEF Posted, Sound, Owns
    <2>4. (Told(r, "SUCCEED") => r \in failed \/ table[UserOf[r]].cert)'
      BY <1>1, <2>1, <2>2 DEF Sound, Stored, Successes
    <2>5. (Told(r, "SUCCEED") \/ Told(r, "PENDDING_CERT") => Owns(r))'
      BY <1>1, <2>1, <2>2, <2>3 DEF Sound, Stored, Successes
    <2>6. CASE answer[r] = "SUCCEED"
      <3>1. \A v \in Refusals : ~Told(r, v)'
        BY <1>1, <2>2, <2>6 DEF Sound, Refusals
      <3> QED
        BY <1>1, <1>2, <2>1, <2>3, <2>4, <2>5, <3>1 DEF Sound, Coroutine, Refusals
    <2>7. CASE answer[r] = "CA_DOWN"
      <3>1. ca'[r] = <<>> /\ \A v \in Successes : ~Told(r, v)'
        BY <1>1, <2>1, <2>2, <2>7 DEF Sound, Successes
      <3> QED
        BY <1>2, <2>1, <2>3, <2>4, <2>5, <3>1 DEF Sound, Coroutine, Successes
    <2> QED
      BY <2>1, <2>6, <2>7
  <1> QED
    BY <1>3, <1>4, <1>5, <1>6

\* What a crash loses was in memory; table and replies stay.
LEMMA CrashIInv == IInv /\ Crash => IInv'
  <1> SUFFICES ASSUME IInv, Crash PROVE IInv'
    OBVIOUS
  <1>1. TypeOK /\ \A r \in Requests : Sound(r)
    BY SoundIInv
  <1>2. TypeOK'
    BY <1>1 DEF Crash, TypeOK, Places, Calls
  <1>3. ASSUME NEW r \in Requests PROVE Sound(r)'
    <2>1. /\ ca'[r] = <<>> /\ answer'[r] = "none"
          /\ UNCHANGED <<table, failed, replies>>
          /\ (at'[r] = at[r] /\ at[r] \in {"new", "end"}) \/ at'[r] = "lost"
      BY DEF Crash, Over
    <2>2. \A v : Told(r, v)' <=> Told(r, v)
      BY <2>1, Told0
    <2>3. Owns(r)' <=> Owns(r)
      BY <2>1 DEF Owns
    <2> QED
      BY <1>1, <2>1, <2>2, <2>3 DEF Sound, Posted, Coroutine
  <1> QED
    BY <1>2, <1>3 DEF IInv, Sound, InOrder, Unspoken, WorksOnOwnRow, SuccessStored,
        ToldMeansStored, OneVerdict

LEMMA NextIInv == IInv /\ [Next]_vars => IInv'
  <1> SUFFICES ASSUME IInv, [Next]_vars PROVE IInv'
    OBVIOUS
  <1>1. TypeOK /\ \A r \in Requests : Sound(r)
    BY SoundIInv
  <1>2. ASSUME TypeOK', \A r \in Requests : Sound(r)' PROVE IInv'
    BY <1>2 DEF IInv, Sound, InOrder, Unspoken, WorksOnOwnRow, SuccessStored,
        ToldMeansStored, OneVerdict
  <1>3. ASSUME UNCHANGED up, NEW r \in Requests, Step(r) PROVE IInv'
    <2>1. TypeOK'
      BY <1>3, TypeStep
    <2>2. Sound(r)'
      BY <1>3, EarlySound, CoroutineSound, HandlerSound DEF Step
    <2>3. \A q \in Requests : Sound(q)'
      BY <1>3, <2>2, OthersSound
    <2> QED
      BY <1>2, <2>1, <2>3
  <1>4. CASE Crash
    BY <1>4, CrashIInv
  <1>5. CASE Restart \/ UNCHANGED vars
    <2>1. TypeOK'
      BY <1>1, <1>5 DEF Restart, vars, TypeOK
    <2>2. \A r \in Requests : Sound(r)'
      BY <1>1, <1>5 DEF Restart, vars, Sound, Told, Posted, Stored, Owns
    <2> QED
      BY <1>2, <2>1, <2>2
  <1> QED
    BY <1>3, <1>4, <1>5 DEF Next

LEMMA Invariance == Spec => []IInv
  BY InitIInv, NextIInv, PTL DEF Spec

-----------------------------------------------------------------------------
(* Who a row is kept for.                                                    *)

\* A row's request still works for it, is lost, or has answered for it.
Accounted(r) ==
    Owns(r) =>
        \/ at[r] \in Coroutine \union {"stored", "lost"}
        \/ /\ at[r] = "end"
           /\ \/ ca[r] # <<>> \/ Told(r, "PENDDING_CERT")
              \/ r \in failed /\ (answer[r] = "CA_DOWN" \/ Told(r, "CA_DOWN"))

AllAccounted == \A r \in Requests : Accounted(r)

\* A step of one request gives no row to another.
LEMMA OwnerStays ==
    ASSUME IInv, NEW r \in Requests, Step(r), NEW q \in Requests, q # r, Owns(q)'
    PROVE  Owns(q)
  <1> USE RegistrationAssumption DEF TypeOK
  <1>1. TypeOK /\ UserOf[r] \in Users /\ UserOf[q] \in Users
    BY SoundIInv
  <1>2. CASE UNCHANGED table
    BY <1>2 DEF Owns
  <1>3. CASE Insert(r)
    <2>1. CASE table' = [table EXCEPT ![UserOf[r]] = [owner |-> r, cert |-> FALSE]]
      <3>1. UserOf[q] # UserOf[r]
        BY <1>1, <2>1 DEF Owns
      <3> QED
        BY <1>1, <2>1, <3>1 DEF Owns
    <2> QED
      BY <1>2, <1>3, <2>1 DEF Insert
  <1>4. CASE Certified(r)
    <2>1. CASE table[UserOf[r]] # NoRow /\ table' = [table EXCEPT ![UserOf[r]].cert = TRUE]
      <3>1. CASE UserOf[q] = UserOf[r]
        <4>1. table[UserOf[q]] \in Rows
          BY <1>1, <2>1, <3>1
        <4>2. table'[UserOf[q]] = [table[UserOf[q]] EXCEPT !.cert = TRUE]
          BY <1>1, <2>1, <3>1
        <4>3. table'[UserOf[q]].owner = table[UserOf[q]].owner
          BY <4>1, <4>2 DEF Rows
        <4> QED
          BY <2>1, <3>1, <4>3 DEF Owns
      <3>2. CASE UserOf[q] # UserOf[r]
        BY <1>1, <2>1, <3>2 DEF Owns
      <3> QED
        BY <3>1, <3>2
    <2> QED
      BY <1>2, <1>4, <2>1 DEF Certified, Fails
  <1>5. CASE RolledBack(r)
    <2>1. CASE table' = [table EXCEPT ![UserOf[r]] = NoRow]
      <3>1. UserOf[q] # UserOf[r]
        BY <1>1, <2>1 DEF Owns
      <3> QED
        BY <1>1, <2>1, <3>1 DEF Owns
    <2> QED
      BY <1>2, <1>5, <2>1 DEF RolledBack, Fails
  <1> QED
    BY <1>2, <1>3, <1>4, <1>5
    DEF Step, CheckName, Request, Select, Registered, Pushed, Readable, PollEnds, ReadCert,
        Pending, Answer

\* The request that takes the step accounts for its row.
LEMMA AccountedStep ==
    ASSUME IInv, NEW r \in Requests, Accounted(r), Step(r)
    PROVE  Accounted(r)'
  <1> SUFFICES ASSUME Owns(r)' PROVE Accounted(r)'
    BY DEF Accounted
  <1> USE RegistrationAssumption DEF TypeOK, Go
  <1>1. TypeOK /\ Sound(r) /\ UserOf[r] \in Users
    BY SoundIInv
  <1>2. CASE CheckName(r) \/ Request(r) \/ Select(r) \/ Registered(r)
    <2>1. Owns(r)
      BY <1>2 DEF Owns, CheckName, Request, Select, Registered
    <2>2. at[r] = "stored"
      BY <1>2, <2>1 DEF Accounted, CheckName, Request, Select, Registered, Coroutine
    <2> QED
      BY <1>1, <1>2, <2>2 DEF Accounted, CheckName, Request, Select, Registered, Coroutine
  <1>3. CASE Insert(r)
    <2>1. CASE Go(r, "stored")
      BY <1>1, <2>1 DEF Accounted
    <2>2. CASE UNCHANGED table
      <3>1. at[r] = "insert" /\ Owns(r)
        BY <1>3, <2>2 DEF Insert, Owns
      <3> QED
        BY <3>1 DEF Accounted, Coroutine
    <2> QED
      BY <1>3, <2>1, <2>2 DEF Insert
  <1>4. CASE Pushed(r) \/ Readable(r) \/ PollEnds(r) \/ ReadCert(r)
    <2>1. ca[r] = <<>>
      BY <1>1, <1>4 DEF Sound, Pushed, Readable, PollEnds, ReadCert
    <2>2. ASSUME NEW calls \in Calls, Post(r, calls) PROVE ca'[r] = calls
      <3>1. ca[r] \o calls = calls
        BY <2>1 DEF Calls
      <3> QED
        BY <1>1, <2>2, <3>1 DEF Post
    <2>3. at'[r] \in Coroutine
            \/ (at'[r] = "end" /\ \E calls \in Calls \ {<<>>} : Post(r, calls))
      BY <1>1, <1>4 DEF Pushed, Readable, PollEnds, ReadCert, Coroutine, Calls
    <2> QED
      BY <2>2, <2>3 DEF Accounted
  <1>5. CASE Certified(r)
    <2>1. ca'[r] = <<"pending">> /\ at'[r] = "end"
      BY <1>1, <1>5, FirstCall DEF Certified, NextCall, Sound
    <2> QED
      BY <2>1 DEF Accounted
  <1>6. CASE Pending(r)
    <2>1. at'[r] = "end" /\ Told(r, "PENDDING_CERT")'
      BY <1>1, <1>6, ReplyTells DEF Pending, Sound, Results
    <2> QED
      BY <2>1 DEF Accounted
  <1>7. CASE RolledBack(r)
    <2>1. at'[r] = "end" /\ answer'[r] = "CA_DOWN"
      BY <1>1, <1>7 DEF RolledBack, Later, Sound
    <2>2. table' # [table EXCEPT ![UserOf[r]] = NoRow]
      BY <1>1 DEF Owns
    <2>3. r \in failed'
      BY <1>7, <2>2 DEF RolledBack, Fails
    <2> QED
      BY <2>1, <2>3 DEF Accounted
  <1>8. CASE Answer(r)
    <2>1. Owns(r) /\ at'[r] = "end" /\ at[r] = "end" /\ ca' = ca /\ failed' = failed
      BY <1>1, <1>8 DEF Answer, Owns, Sound
    <2>2. \A v \in Results : Told(r, v)' <=> Told(r, v) \/ v = answer[r]
      BY <1>1, <1>8, ReplyTells DEF Answer
    <2>3. ca[r] # <<>> \/ Told(r, "PENDDING_CERT")
            \/ (r \in failed /\ (answer[r] = "CA_DOWN" \/ Told(r, "CA_DOWN")))
      BY <2>1 DEF Accounted, Coroutine
    <2>4. Told(r, "PENDDING_CERT") => Told(r, "PENDDING_CERT")'
      BY <2>2 DEF Results
    <2>5. answer[r] = "CA_DOWN" \/ Told(r, "CA_DOWN") => Told(r, "CA_DOWN")'
      BY <2>2 DEF Results
    <2> QED
      BY <2>1, <2>3, <2>4, <2>5 DEF Accounted
  <1> QED
    BY <1>2, <1>3, <1>4, <1>5, <1>6, <1>7, <1>8 DEF Step

LEMMA NextAccounted == IInv /\ AllAccounted /\ [Next]_vars => AllAccounted'
  <1> SUFFICES ASSUME IInv, AllAccounted, [Next]_vars, NEW q \in Requests
               PROVE  Accounted(q)'
    BY DEF AllAccounted
  <1>1. Accounted(q) /\ TypeOK
    BY DEF AllAccounted, IInv
  <1>2. ASSUME NEW r \in Requests, Step(r) PROVE Accounted(q)'
    <2>1. CASE q = r
      BY <1>1, <1>2, <2>1, AccountedStep
    <2>2. CASE q # r
      <3>1. /\ at'[q] = at[q] /\ ca'[q] = ca[q] /\ answer'[q] = answer[q]
            /\ replies'[q] = replies[q] /\ (q \in failed => q \in failed')
            /\ Owns(q)' => Owns(q)
        BY <1>2, <2>2, OthersKept, OwnerStays
      <3>2. \A v : Told(q, v)' <=> Told(q, v)
        BY <3>1 DEF Told
      <3> QED
        BY <1>1, <3>1, <3>2 DEF Accounted
    <2> QED
      BY <2>1, <2>2
  <1>3. CASE Crash
    <2>1. \/ at'[q] = "lost"
          \/ at'[q] = at[q] /\ at[q] = "new"
          \/ at'[q] = at[q] /\ Over(q)
      BY <1>3 DEF Crash
    <2>2. \A v : Told(q, v)' <=> Told(q, v)
      BY <1>3, Told0 DEF Crash
    <2>3. (Owns(q)' <=> Owns(q)) /\ failed' = failed
      BY <1>3 DEF Crash, Owns
    <2> QED
      BY <1>1, <2>1, <2>2, <2>3 DEF Accounted, Over, Coroutine
  <1>4. CASE Restart \/ UNCHANGED vars
    BY <1>1, <1>4 DEF Restart, vars, Accounted, Owns, Told
  <1> QED
    BY <1>2, <1>3, <1>4 DEF Next

-----------------------------------------------------------------------------
(* The rows and the replies are those of a registry of names.                *)

\* What a client heard, from what it was told; it heard one thing at most.
LEMMA HeardTold ==
    ASSUME TypeOK, NEW r \in Requests
    PROVE  /\ "registered" \in Heard(r) <=> \E v \in Successes : Told(r, v)
           /\ "refused" \in Heard(r) <=> \E v \in Refusals : Told(r, v)
           /\ Heard(r) \subseteq {"registered", "refused"}
  <1>1. \A v : Told(r, v) <=> v \in ToSet(replies[r])
    BY DEF Told, ToSet
  <1> QED
    BY <1>1 DEF Heard, Word, Verdicts, Successes, Refusals

LEMMA HeardOne ==
    ASSUME IInv, NEW r \in Requests
    PROVE  Heard(r) \in {{}, {"registered"}, {"refused"}}
  <1>1. ~("registered" \in Heard(r) /\ "refused" \in Heard(r))
    BY HeardTold DEF IInv, OneVerdict, Successes, Refusals
  <1>2. Heard(r) \subseteq {"registered", "refused"}
    BY HeardTold DEF IInv
  <1> QED
    BY <1>1, <1>2

\* A reply adds its word.
LEMMA ReplyHeard ==
    ASSUME TypeOK, NEW r \in Requests, NEW w \in Results, Reply(r, w)
    PROVE  /\ Heard(r)' = Heard(r) \union (IF w \in Verdicts THEN {Word(w)} ELSE {})
           /\ \A q \in Requests : q # r => Heard(q)' = Heard(q)
  <1>1. replies \in [Requests -> Seq(Results)]
    BY DEF TypeOK
  <1>2. replies' = [replies EXCEPT ![r] = Append(@, w)]
    BY DEF Reply
  <1>3. ToSet(replies'[r]) = ToSet(replies[r]) \union {w}
    <2>1. replies'[r] = Append(replies[r], w) /\ replies[r] \in Seq(Results)
      BY <1>1, <1>2
    <2>2. DOMAIN replies'[r] = 1 .. Len(replies[r]) + 1 /\ DOMAIN replies[r] = 1 .. Len(replies[r])
          /\ Len(replies[r]) \in Nat
      BY <2>1
    <2>3. \A i \in 1 .. Len(replies[r]) : replies'[r][i] = replies[r][i]
      BY <2>1
    <2>4. replies'[r][Len(replies[r]) + 1] = w
      BY <2>1
    <2> QED
      BY <2>2, <2>3, <2>4 DEF ToSet
  <1>4. Heard(r)' = {Word(v) : v \in ToSet(replies'[r]) \intersect Verdicts}
    BY DEF Heard
  <1> QED
    BY <1>1, <1>2, <1>3, <1>4 DEF Heard

\* A request that owns the row of its name holds the name.
LEMMA HolderOwns ==
    ASSUME TypeOK, NEW r \in Requests
    PROVE  Owns(r) => Holder(UserOf[r]) = {r}
  BY DEF Owns, Holder

LEMMA RegistryStart == Init => Registry!RegistryInit
  <1> SUFFICES ASSUME Init PROVE Registry!RegistryInit
    OBVIOUS
  <1>1. ASSUME NEW u \in Users PROVE Holder(u) = {}
    BY DEF Init, Holder
  <1>2. ASSUME NEW r \in Requests PROVE Heard(r) = {}
    BY DEF Init, Heard, ToSet
  <1> QED
    BY <1>1, <1>2 DEF Registry!RegistryInit

\* What a step of the table or of the replies is to the registry.
LEMMA RowStep ==
    ASSUME IInv, NEW r \in Requests, NEW row \in Rows \union {NoRow},
           table' = [table EXCEPT ![UserOf[r]] = row], UNCHANGED replies
    PROVE  [u \in Users |-> Holder(u)]'
             = [[u \in Users |-> Holder(u)] EXCEPT ![UserOf[r]] = IF row = NoRow THEN {} ELSE {row.owner}]
           /\ [q \in Requests |-> Heard(q)]' = [q \in Requests |-> Heard(q)]
  BY RegistrationAssumption DEF IInv, TypeOK, Holder, Heard

LEMMA ReplyStep ==
    ASSUME IInv, NEW r \in Requests, NEW w \in Results, Reply(r, w), UNCHANGED table
    PROVE  /\ [u \in Users |-> Holder(u)]' = [u \in Users |-> Holder(u)]
           /\ w \notin Verdicts =>
                [q \in Requests |-> Heard(q)]' = [q \in Requests |-> Heard(q)]
           /\ w \in Verdicts =>
                [q \in Requests |-> Heard(q)]'
                  = [[q \in Requests |-> Heard(q)] EXCEPT ![r] = Heard(r) \union {Word(w)}]
  <1>1. TypeOK
    BY DEF IInv
  <1>2. [u \in Users |-> Holder(u)]' = [u \in Users |-> Holder(u)]
    BY DEF Holder
  <1>3. \A q \in Requests :
          Heard(q)' = IF q = r /\ w \in Verdicts THEN Heard(q) \union {Word(w)} ELSE Heard(q)
    BY <1>1, ReplyHeard
  <1> QED
    BY <1>2, <1>3

\* Every step of a request is one of the registry's, or none of its business.
LEMMA StepRegistry ==
    ASSUME IInv, NEW r \in Requests, Step(r)
    PROVE  [Registry!RegistryNext]_(Registry!registry)
  <1> DEFINE H == [u \in Users |-> Holder(u)]
             D == [q \in Requests |-> Heard(q)]
  <1>1. TypeOK /\ Sound(r) /\ UserOf[r] \in Users /\ UserOf \in [Requests -> Users]
    BY SoundIInv, RegistrationAssumption
  <1>2. H[UserOf[r]] = Holder(UserOf[r]) /\ D[r] = Heard(r)
    BY <1>1
  <1>3. ASSUME UNCHANGED <<table, replies>> PROVE UNCHANGED Registry!registry
    BY <1>3 DEF Registry!registry, Holder, Heard
  <1>4. ASSUME \A v \in Refusals \union Successes : ~Told(r, v) PROVE Heard(r) = {}
    BY <1>1, <1>4, HeardTold
  <1>5. ASSUME NEW w \in Results \ Verdicts, Reply(r, w), UNCHANGED table
        PROVE  UNCHANGED Registry!registry
    BY <1>5, ReplyStep DEF Registry!registry
  <1>6. ASSUME NEW w \in Refusals, Reply(r, w), UNCHANGED table, Heard(r) = {}
        PROVE  Registry!RegistryNext
    <2>1. w \in Results /\ w \in Verdicts /\ Word(w) = "refused"
      BY <1>6 DEF Refusals, Results, Verdicts, Word
    <2>2. H' = H /\ D' = [D EXCEPT ![r] = Heard(r) \union {Word(w)}]
      BY <1>6, <2>1, ReplyStep
    <2>3. D' = [D EXCEPT ![r] = {"refused"}]
      BY <1>6, <2>1, <2>2
    <2>4. Registry!Refuse(r)
      BY <1>2, <1>6, <2>2, <2>3 DEF Registry!Refuse
    <2> QED
      BY <2>4 DEF Registry!RegistryNext
  <1>7. ASSUME NEW w \in Successes, Reply(r, w), UNCHANGED table, Owns(r),
               \A v \in Refusals : ~Told(r, v)
        PROVE  Registry!RegistryNext
    <2>1. w \in Results /\ w \in Verdicts /\ Word(w) = "registered"
      BY <1>7 DEF Successes, Results, Verdicts, Word
    <2>2. H' = H /\ D' = [D EXCEPT ![r] = Heard(r) \union {Word(w)}]
      BY <1>7, <2>1, ReplyStep
    <2>3. Heard(r) \in {{}, {"registered"}}
      BY <1>1, <1>7, HeardOne, HeardTold
    <2>4. Holder(UserOf[r]) = {r}
      BY <1>1, <1>7, HolderOwns
    <2>5. D' = [D EXCEPT ![r] = {"registered"}]
      <3>1. Heard(r) \union {Word(w)} = {"registered"}
        BY <2>1, <2>3
      <3> QED
        BY <2>2, <3>1
    <2>6. Registry!Promise(r)
      BY <1>2, <2>2, <2>3, <2>4, <2>5 DEF Registry!Promise, Registry!Holds
    <2> QED
      BY <2>6 DEF Registry!RegistryNext
  <1>8. CASE CheckName(r)
    <2>1. UNCHANGED <<table, replies>> \/ \E w \in {"AVAILABLE", "TAKEN"} : Reply(r, w) /\ UNCHANGED table
      BY <1>8 DEF CheckName
    <2> QED
      BY <1>3, <1>5, <2>1 DEF Results, Verdicts
  <1>9. CASE Request(r)
    <2>1. at[r] \notin {"end", "lost"}
      BY <1>9 DEF Request
    <2>2. Heard(r) = {}
      BY <1>1, <1>4, <2>1 DEF Sound
    <2> QED
      BY <1>3, <1>6, <1>9, <2>2 DEF Request, Refusals
  <1>10. CASE Select(r) \/ Pushed(r) \/ Readable(r) \/ PollEnds(r) \/ ReadCert(r)
    BY <1>3, <1>10 DEF Select, Pushed, Readable, PollEnds, ReadCert
  <1>11. CASE Insert(r)
    <2>1. CASE NameFree(r) /\ table' = [table EXCEPT ![UserOf[r]] = [owner |-> r, cert |-> FALSE]]
      <3>1. Heard(r) = {}
        BY <1>1, <1>4, <1>11 DEF Sound, Insert
      <3>2. Holder(UserOf[r]) = {}
        BY <2>1 DEF NameFree, Holder
      <3> DEFINE row == [owner |-> r, cert |-> FALSE]
      <3>3. row \in Rows /\ row.owner = r /\ UNCHANGED replies
        BY <1>11 DEF Rows, Insert
      <3>4. row # NoRow
        BY <3>3, RegistrationAssumption DEF Rows
      <3>5. H' = [H EXCEPT ![UserOf[r]] = {r}] /\ D' = D
        <4>1. table' = [table EXCEPT ![UserOf[r]] = row]
          BY <2>1
        <4> HIDE DEF row
        <4> QED
          BY <3>3, <3>4, <4>1, RowStep
      <3>6. Registry!Claim(r)
        BY <1>2, <3>1, <3>2, <3>5 DEF Registry!Claim
      <3> QED
        BY <3>6 DEF Registry!RegistryNext
    <2>2. CASE UNCHANGED table
      BY <1>3, <1>11, <2>2 DEF Insert
    <2> QED
      BY <1>11, <2>1, <2>2 DEF Insert
  <1>12. CASE Registered(r)
    <2>1. CASE at[r] = "refused"
      <3>1. Heard(r) = {}
        BY <1>1, <1>4, <2>1 DEF Sound
      <3> QED
        BY <1>6, <1>12, <2>1, <3>1 DEF Registered, Refusals
    <2>2. CASE at[r] # "refused"
      BY <1>3, <1>12, <2>2 DEF Registered
    <2> QED
      BY <2>1, <2>2
  <1>13. CASE Certified(r)
    <2>1. ASSUME table[UserOf[r]] # NoRow, table' = [table EXCEPT ![UserOf[r]].cert = TRUE]
          PROVE  H' = H
      <3> DEFINE row == [table[UserOf[r]] EXCEPT !.cert = TRUE]
      <3>1. row \in Rows /\ row.owner = table[UserOf[r]].owner
        BY <1>1, <2>1 DEF TypeOK, Rows
      <3>2. row # NoRow
        BY <3>1, RegistrationAssumption DEF Rows
      <3>3. table' = [table EXCEPT ![UserOf[r]] = row]
        BY <1>1, <2>1 DEF TypeOK
      <3> HIDE DEF row
      <3>4. H' = [H EXCEPT ![UserOf[r]] = {row.owner}]
        BY <1>13, <3>1, <3>2, <3>3, RowStep DEF Certified
      <3>5. H[UserOf[r]] = {row.owner}
        BY <1>2, <2>1, <3>1 DEF Holder
      <3> QED
        BY <3>4, <3>5
    <2>2. H' = H
      BY <1>13, <2>1 DEF Certified, Fails, Holder
    <2>3. D' = D
      BY <1>13 DEF Certified, Heard
    <2> QED
      BY <2>2, <2>3 DEF Registry!registry
  <1>14. CASE Pending(r)
    <2>1. ca[r] = <<"pending">>
      BY <1>1, <1>14, FirstCall DEF Pending, TypeOK
    <2>2. Owns(r) /\ \A v \in Refusals : ~Told(r, v)
      <3>1. ca[r] # <<>>
        BY <1>14 DEF Pending
      <3> QED
        BY <1>1, <2>1, <3>1 DEF Sound
    <2> QED
      BY <1>7, <1>14, <2>2 DEF Pending, Successes
  <1>15. CASE RolledBack(r)
    <2>1. ca[r] = <<"down">> /\ ca[r] # <<>>
      BY <1>1, <1>15, FirstCall DEF RolledBack, TypeOK
    <2>2. Posted(r)
      BY <2>1 DEF Posted
    <2>3. Owns(r) /\ Heard(r) = {}
      BY <1>1, <1>4, <2>1, <2>2 DEF Sound
    <2>4. Holder(UserOf[r]) = {r}
      BY <1>1, <2>3, HolderOwns
    <2>5. CASE table' = [table EXCEPT ![UserOf[r]] = NoRow]
      <3>1. H' = [H EXCEPT ![UserOf[r]] = {}] /\ D' = D
        BY <1>15, <2>5, RowStep DEF RolledBack
      <3>2. Registry!GiveBack(r)
        BY <1>2, <2>3, <2>4, <3>1 DEF Registry!GiveBack, Registry!Holds
      <3> QED
        BY <3>2 DEF Registry!RegistryNext
    <2>6. CASE UNCHANGED table
      BY <1>3, <1>15, <2>6 DEF RolledBack
    <2> QED
      BY <1>15, <2>5, <2>6 DEF RolledBack, Fails
  <1>16. CASE Answer(r)
    <2>1. answer[r] \in {"SUCCEED", "CA_DOWN"}
      BY <1>1, <1>16 DEF Answer, Sound
    <2>2. CASE answer[r] = "SUCCEED"
      <3>1. Owns(r) /\ \A v \in Refusals : ~Told(r, v)
        BY <1>1, <2>2 DEF Sound, Stored
      <3> QED
        BY <1>7, <1>16, <2>2, <3>1 DEF Answer, Successes
    <2>3. CASE answer[r] = "CA_DOWN"
      <3>1. Heard(r) = {}
        BY <1>1, <1>4, <2>3 DEF Sound
      <3> QED
        BY <1>6, <1>16, <2>3, <3>1 DEF Answer, Refusals
    <2> QED
      BY <2>1, <2>2, <2>3
  <1> QED
    BY <1>8, <1>9, <1>10, <1>11, <1>12, <1>13, <1>14, <1>15, <1>16 DEF Step

LEMMA NextRegistry == IInv /\ [Next]_vars => [Registry!RegistryNext]_(Registry!registry)
  <1> SUFFICES ASSUME IInv, [Next]_vars
               PROVE  [Registry!RegistryNext]_(Registry!registry)
    OBVIOUS
  <1>1. ASSUME UNCHANGED <<table, replies>> PROVE UNCHANGED Registry!registry
    BY <1>1 DEF Registry!registry, Holder, Heard
  <1>2. ASSUME NEW r \in Requests, Step(r)
        PROVE  [Registry!RegistryNext]_(Registry!registry)
    BY <1>2, StepRegistry
  <1>3. CASE Crash \/ Restart \/ UNCHANGED vars
    BY <1>1, <1>3 DEF Crash, Restart, vars
  <1> QED
    BY <1>2, <1>3 DEF Next

-----------------------------------------------------------------------------
(* What the runs check for three requests.                                   *)

\* The coroutine's calls come in the combinations it posts, never mixed.
THEOREM TypeCorrect == Spec => []TypeOK
  <1>1. IInv => TypeOK
    BY DEF IInv
  <1> QED
    BY <1>1, Invariance, PTL

\* Whatever order the requests run in and wherever the process dies,
\* update_user_cert and delete_user only meet the row their request inserted.
THEOREM OwnRow == Spec => []WorksOnOwnRow
  <1>1. IInv => WorksOnOwnRow
    BY DEF IInv
  <1> QED
    BY <1>1, Invariance, PTL

\* A client told by user_register's handlers that it is registered has its row
\* in avim_user for good.
THEOREM Stays == Spec => []ToldMeansStored
  <1>1. IInv => ToldMeansStored
    BY DEF IInv
  <1> QED
    BY <1>1, Invariance, PTL

\* user_register never leaves a name taken by a row nobody was answered for,
\* except where the process died or the deletion of the row failed.
THEOREM NoForgottenRow == Spec => []RowHasClient
  <1>1. Init => AllAccounted
    <2>1. Init => \A r \in Requests : ~Owns(r)
      BY RegistrationAssumption DEF Init, Owns
    <2> QED
      BY <2>1 DEF AllAccounted, Accounted
  <1>2. AllAccounted => RowHasClient
    BY DEF AllAccounted, Accounted, RowHasClient, Over, Coroutine
  <1> QED
    BY <1>1, <1>2, Invariance, NextAccounted, PTL DEF Spec

\* user_register and database, with any number of requests, users and crashes,
\* are a registry of names: a name goes to one request at a time, none that was
\* promised is taken back, and no client hears two verdicts.
THEOREM RegistrationImplementsRegistry == Spec => ImplementsRegistry
  <1> QED
    BY RegistryStart, NextRegistry, Invariance, PTL
    DEF Spec, ImplementsRegistry, Registry!RegistrySpec
=============================================================================

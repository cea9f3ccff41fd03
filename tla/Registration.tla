---------------------------- MODULE Registration ----------------------------
(***************************************************************************)
(* register_moudle::user_register over database and the CA: the user is    *)
(* inserted into avim_user, a coroutine sends the CSR to the CA and waits  *)
(* for the certificate, the row is completed or removed, and the client is *)
(* answered.  Requests run on several threads; the table outlives the      *)
(* process.  A database call blocks its caller (the future of std::async   *)
(* is dropped, which waits for it), but SELECT and INSERT are two          *)
(* statements with those of other requests between them.                   *)
(***************************************************************************)
EXTENDS Naturals, SequencesExt

CONSTANTS
    Requests,    \* the user_register messages received, over all runs
    Users,       \* user_name values
    EmptyName,   \* one of them: the empty string
    UserOf,      \* request -> its user_name
    NoRow

ASSUME RegistrationAssumption ==
    /\ UserOf \in [Requests -> Users] /\ EmptyName \in Users
    /\ NoRow \notin [owner : Requests, cert : BOOLEAN]

VARIABLES
    table,    \* avim_user: user_id -> row or NoRow
    up,       \* the process runs
    at,       \* request -> where it is, see Places
    ca,       \* request -> handler calls posted and not run: see Calls
    failed,   \* history: requests whose UPDATE or DELETE threw soci_error
    answer,   \* request -> the reply a database handler will write, or "none"
    replies   \* history: request -> the results written to its connection

vars == <<table, up, at, ca, failed, answer, replies>>

\* A row: the request that inserted it and whether its cert column is set.
Rows == [owner : Requests, cert : BOOLEAN]

\* "new"; "select"/"insert": before that statement; "stored"/"refused": the
\* handler of register_user is posted with true/false; "push": the coroutine
\* runs up to the CA's push_ok; "poll": it waits for the certificate; "read":
\* it reads the message that came; "end": it is over; "lost": with the process.
Places == {"new", "checked", "select", "insert", "stored", "refused", "push", "poll",
           "read", "end", "lost"}
Coroutine == {"push", "poll", "read"}

\* The handler calls one coroutine posts: -1 is "down", 0 "cert", 1 "pending".
Calls == {<<>>, <<"down">>, <<"pending">>, <<"cert", "pending">>}

Results == {"AVAILABLE", "TAKEN", "CSR_VERIFY_FAILURE", "NAME_TAKEN", "SUCCEED",
            "PENDDING_CERT", "CA_DOWN"}

Init ==
    /\ table = [u \in Users |-> NoRow]
    /\ up = TRUE
    /\ at = [r \in Requests |-> "new"]
    /\ ca = [r \in Requests |-> <<>>]
    /\ failed = {}
    /\ answer = [r \in Requests |-> "none"]
    /\ replies = [r \in Requests |-> <<>>]

Go(r, place) == at' = [at EXCEPT ![r] = place]
Reply(r, result) == replies' = [replies EXCEPT ![r] = Append(@, result)]

-----------------------------------------------------------------------------
(* The name check and the first half of the registration                     *)

\* SELECT user_id FROM avim_user finds no row.
NameFree(r) == table[UserOf[r]] = NoRow

\* Both handlers return at once, without a word, when the name is empty.
Named(r) == UserOf[r] # EmptyName

\* availability_check: a name is reported taken when it is or the query fails.
CheckName(r) ==
    /\ at[r] = "new"
    /\ Go(r, "checked")
    /\ \/ ~Named(r) /\ UNCHANGED replies
       \/ Named(r) /\ NameFree(r) /\ Reply(r, "AVAILABLE")
       \/ Named(r) /\ Reply(r, "TAKEN")
    /\ UNCHANGED <<table, ca, failed, answer>>

\* user_register: the CSR is signed with the key sent along, or it is refused.
Request(r) ==
    /\ at[r] \in {"new", "checked"}
    /\ \/ ~Named(r) /\ Go(r, "end") /\ UNCHANGED replies
       \/ Named(r) /\ Go(r, "select") /\ UNCHANGED replies
       \/ Named(r) /\ Go(r, "end") /\ Reply(r, "CSR_VERIFY_FAILURE")
    /\ UNCHANGED <<table, ca, failed, answer>>

\* database::register_user, SELECT: the name is refused when it is taken or
\* the statement fails.
Select(r) ==
    /\ at[r] = "select"
    /\ \/ NameFree(r) /\ Go(r, "insert")
       \/ Go(r, "refused")
    /\ UNCHANGED <<table, ca, failed, answer, replies>>

\* Mutant: the table has no primary key.
InsertNoKey(r) ==
    /\ at[r] = "insert"
    /\ table' = [table EXCEPT ![UserOf[r]] = [owner |-> r, cert |-> FALSE]]
    /\ Go(r, "stored")
    /\ UNCHANGED <<ca, failed, answer, replies>>

\* database::register_user, INSERT: the primary key lets one of two pass;
\* the other, like a statement that fails, is refused.
Insert(r) ==
    /\ at[r] = "insert"
    /\ \/ /\ NameFree(r)
          /\ table' = [table EXCEPT ![UserOf[r]] = [owner |-> r, cert |-> FALSE]]
          /\ Go(r, "stored")
       \/ Go(r, "refused") /\ UNCHANGED table
    /\ UNCHANGED <<ca, failed, answer, replies>>

\* The handler of register_user: reply, or spawn async_send_csr_coro.
Registered(r) ==
    /\ \/ at[r] = "refused" /\ Go(r, "end") /\ Reply(r, "NAME_TAKEN")
       \/ at[r] = "stored" /\ Go(r, "push") /\ UNCHANGED replies
    /\ UNCHANGED <<table, ca, failed, answer>>

-----------------------------------------------------------------------------
(* async_send_csr_coro                                                       *)

Post(r, calls) == ca' = [ca EXCEPT ![r] = @ \o calls]

\* Mutant: the refusal does not return.
PushedNoReturn(r) ==
    /\ at[r] = "push"
    /\ Go(r, "poll")
    /\ UNCHANGED ca \/ Post(r, <<"down">>)
    /\ UNCHANGED <<table, failed, answer, replies>>

\* The CA answers csr_push: push_ok with our fingerprint, or something else.
Pushed(r) ==
    /\ at[r] = "push"
    /\ \/ Go(r, "poll") /\ UNCHANGED ca
       \/ Go(r, "end") /\ Post(r, <<"down">>)
    /\ UNCHANGED <<table, failed, answer, replies>>

\* The socket is reported readable while polling; the 10 s timer that would
\* cancel a read is cancelled before the message is read.
Readable(r) ==
    /\ at[r] = "poll"
    /\ Go(r, "read")
    /\ UNCHANGED <<table, ca, failed, answer, replies>>

\* Mutant: when the polling is over without a certificate nothing is posted.
PollEndsSilently(r) ==
    /\ at[r] = "poll"
    /\ Go(r, "end")
    /\ UNCHANGED <<table, ca, failed, answer, replies>>

\* Ten polls, a second apart, and nothing came.
PollEnds(r) ==
    /\ at[r] = "poll"
    /\ Go(r, "end") /\ Post(r, <<"pending">>)
    /\ UNCHANGED <<table, failed, answer, replies>>

\* The message is our certificate, or not. In the first case both handler
\* calls are posted: the function goes on after the first one.
ReadCert(r) ==
    /\ at[r] = "read"
    /\ Go(r, "end")
    /\ Post(r, <<"cert", "pending">>) \/ Post(r, <<"pending">>)
    /\ UNCHANGED <<table, failed, answer, replies>>

-----------------------------------------------------------------------------
(* The handler of async_send_csr, once per posted call                       *)

NextCall(r) == ca' = [ca EXCEPT ![r] = Tail(@)]
Later(r, result) == answer' = [answer EXCEPT ![r] = result]
Fails(r) == UNCHANGED table /\ failed' = failed \union {r}

\* 0: update_user_cert sets the cert column of the user's row, or fails; the
\* handler bound to it ignores which.
Certified(r) ==
    /\ ca[r] # <<>> /\ Head(ca[r]) = "cert"
    /\ \/ /\ table[UserOf[r]] # NoRow
          /\ table' = [table EXCEPT ![UserOf[r]].cert = TRUE]
          /\ UNCHANGED failed
       \/ Fails(r)
    /\ NextCall(r) /\ Later(r, "SUCCEED")
    /\ UNCHANGED <<at, replies>>

\* Mutant: the pending answer also rolls the row back.
PendingRollsBack(r) ==
    /\ ca[r] # <<>> /\ Head(ca[r]) = "pending"
    /\ NextCall(r) /\ Reply(r, "PENDDING_CERT")
    /\ table' = [table EXCEPT ![UserOf[r]] = NoRow]
    /\ UNCHANGED <<at, failed, answer>>

\* 1: registered, the certificate is still to come.
Pending(r) ==
    /\ ca[r] # <<>> /\ Head(ca[r]) = "pending"
    /\ NextCall(r) /\ Reply(r, "PENDDING_CERT")
    /\ UNCHANGED <<table, at, failed, answer>>

\* -1: delete_user removes the user's row, or fails; ignored likewise.
RolledBack(r) ==
    /\ ca[r] # <<>> /\ Head(ca[r]) = "down"
    /\ \/ table' = [table EXCEPT ![UserOf[r]] = NoRow] /\ UNCHANGED failed
       \/ Fails(r)
    /\ NextCall(r) /\ Later(r, "CA_DOWN")
    /\ UNCHANGED <<at, replies>>

\* The database's io_service runs the handler of the update or the deletion.
Answer(r) ==
    /\ answer[r] # "none"
    /\ Reply(r, answer[r]) /\ Later(r, "none")
    /\ UNCHANGED <<table, at, ca, failed>>

-----------------------------------------------------------------------------
(* The process                                                               *)

\* The request is dealt with, and nothing is left to do for it.
Over(r) == at[r] = "end" /\ ca[r] = <<>> /\ answer[r] = "none"

\* It dies: killed, or by the exception an operation of the coroutine throws
\* when the CA cannot be reached, which nothing catches.  What was in memory
\* is lost, the table stays; what was never received is still to come.
Crash ==
    /\ up
    /\ up' = FALSE
    /\ at' = [r \in Requests |-> IF at[r] = "new" \/ Over(r) THEN at[r] ELSE "lost"]
    /\ ca' = [r \in Requests |-> <<>>]
    /\ answer' = [r \in Requests |-> "none"]
    /\ UNCHANGED <<table, failed, replies>>

Restart == ~up /\ up' = TRUE /\ UNCHANGED <<table, at, ca, failed, answer, replies>>

Step(r) ==
    \/ CheckName(r) \/ Request(r) \/ Select(r) \/ Insert(r) \/ Registered(r)
    \/ Pushed(r) \/ Readable(r) \/ PollEnds(r) \/ ReadCert(r)
    \/ Certified(r) \/ Pending(r) \/ RolledBack(r) \/ Answer(r)

Next ==
    \/ up /\ UNCHANGED up /\ \E r \in Requests : Step(r)
    \/ Crash \/ Restart

\* The io_services run the coroutine and the handlers.  The CA owes nothing:
\* Pushed and ReadCert wait for its messages and have no fairness.
Fairness ==
    \A r \in Requests :
        /\ WF_vars(up /\ UNCHANGED up /\ (PollEnds(r) \/ Readable(r)))
        /\ WF_vars(up /\ UNCHANGED up /\ (Certified(r) \/ Pending(r) \/ RolledBack(r)))
        /\ WF_vars(up /\ UNCHANGED up /\ Answer(r))

Spec == Init /\ [][Next]_vars
FairSpec == Spec /\ Fairness

-----------------------------------------------------------------------------
\* The type invariant: of the calls of the CSR handler, only the combinations
\* async_send_csr_coro posts are ever outstanding.
TypeOK ==
    /\ table \in [Users -> Rows \union {NoRow}]
    /\ up \in BOOLEAN
    /\ at \in [Requests -> Places]
    /\ ca \in [Requests -> Calls]
    /\ failed \subseteq Requests
    /\ answer \in [Requests -> Results \union {"none"}]
    /\ replies \in [Requests -> Seq(Results)]

Told(r, result) == \E i \in DOMAIN replies[r] : replies[r][i] = result
Owns(r) == table[UserOf[r]] # NoRow /\ table[UserOf[r]].owner = r
Verdicts == {"CSR_VERIFY_FAILURE", "NAME_TAKEN", "SUCCEED", "PENDDING_CERT", "CA_DOWN"}

\* From its INSERT to its last database call a request owns the row of its
\* name, so that update_user_cert and delete_user, which go by the name alone,
\* never touch a row of another request.
WorksOnOwnRow ==
    \A r \in Requests : at[r] \in Coroutine \union {"stored"} \/ ca[r] # <<>> => Owns(r)

\* A client that was told it is registered is: its row is in the table, and
\* stays there through crashes and whatever other requests for the name do;
\* with SUCCEED the certificate is in it, unless its UPDATE failed.
ToldMeansStored ==
    \A r \in Requests :
        /\ Told(r, "SUCCEED") \/ Told(r, "PENDDING_CERT") => Owns(r)
        /\ Told(r, "SUCCEED") => r \in failed \/ table[UserOf[r]].cert

\* A name is never held for nobody: once user_register is through with a
\* request whose row is in the table, its client was told it is registered,
\* or that the CA is down when the deletion of the row failed.
RowHasClient ==
    \A r \in Requests : Over(r) /\ Owns(r) =>
        Told(r, "PENDDING_CERT") \/ (r \in failed /\ Told(r, "CA_DOWN"))

\* What the rows and the replies amount to for the clients.
Holder(u) == IF table[u] = NoRow THEN {} ELSE {table[u].owner}
Word(v) == IF v \in {"SUCCEED", "PENDDING_CERT"} THEN "registered" ELSE "refused"
Heard(r) == {Word(v) : v \in ToSet(replies[r]) \intersect Verdicts}

Registry == INSTANCE NameRegistry WITH
    holder <- [u \in Users |-> Holder(u)], told <- [r \in Requests |-> Heard(r)]

\* The rows and the replies of user_register, in whatever order its handlers
\* run and the process dies, are those of a registry that gives a name to one
\* request at a time, takes it back from none that was promised it, and tells
\* no client both that it is registered and that it is not.
ImplementsRegistry == Registry!RegistrySpec

\* A request whose processing ends is answered, unless the process dies first,
\* or its name is empty: that one is never answered, nor is its name asked for.
EndsAnswered ==
    /\ \A r \in Requests :
        at[r] = "end" /\ Named(r) ~> (\E v \in Verdicts : Told(r, v)) \/ at[r] = "lost"
    /\ [](\A r \in Requests : ~Named(r) => replies[r] = <<>> /\ table[EmptyName] = NoRow)

\* "Polls ten times only, so that a result is given within 10s": once the CA
\* has taken the CSR the coroutine comes to an end, unless the process dies.
PollingEnds ==
    \A r \in Requests : at[r] = "poll" ~> at[r] \in {"end", "lost"}
=============================================================================

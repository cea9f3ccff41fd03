-------------------------------- MODULE Login --------------------------------
(***************************************************************************)
(* login_moudle (src/src/login_moudle.cpp): a client says hello and is     *)
(* given a key, signs it and logs in with its certificate.  What a         *)
(* connection has been given is kept in the connection; that its address   *)
(* has said hello at all, in m_log_state, a std::map without a lock, which *)
(* the handlers of all threads look up and insert into, and from which     *)
(* nothing is erased: a later connection can have the same address.        *)
(***************************************************************************)
EXTENDS Naturals, FiniteSets

CONSTANTS
    Conns,        \* the connections
    Addrs,        \* where connection objects are allocated
    Threads,      \* the threads of the pool's services
    ThreadOf,     \* conn -> the thread its handlers run on
    Users,
    Keys,         \* what a hello's random_pub_key can be
    EmptyKey,     \* one of them: the number 0, which BN_bn2bin writes as no bytes
    MaxMessages,  \* bound: hello and login messages handled
    NoConn, NoAddr, NoUser, NoKey, NoCert

ASSUME LoginAssumption ==
    /\ ThreadOf \in [Conns -> Threads]
    /\ MaxMessages \in Nat
    /\ NoConn \notin Conns /\ NoAddr \notin Addrs /\ NoUser \notin Users /\ NoKey \notin Keys
    /\ EmptyKey \in Keys

\* A certificate names a user and holds the public key of its holder. It is
\* valid when the root CA issued it, which does so only to the user it names.
Certs == {x \in [name : Users, holder : Users, valid : BOOLEAN] : x.valid => x.holder = x.name}
ASSUME CertAssumption == NoCert \notin Certs

\* encryped_radom_key: a signature of a key, or what no key opens, or nothing,
\* which every certificate decrypts to the empty string.
Signatures == [by : Users, key : Keys]
NothingSigned == [by |-> NoUser, key |-> EmptyKey]
Unreadable == [by |-> NoUser, key |-> "unreadable"]
Proofs == Signatures \union {NothingSigned, Unreadable}

VARIABLES
    life,      \* conn -> "new", "open", "gone" (destroyed)
    addr,      \* conn -> its address
    logState,  \* m_log_state: address -> "none" (no entry), "hello", "succeed"
    key,       \* conn -> the private "login_check_key"
    cert,      \* conn -> the private "user_cert"
    name,      \* conn -> the private "user_name"
    job,       \* thread -> the handler it runs
    timer,     \* m_timer: "armed" or "off"
    run,       \* the process: "up", "stopping", "stopped", or what ended it
    handled,   \* how many messages were handled
    issued,    \* history: conn -> the keys it was given
    signed,    \* history: the signatures users have made
    replies,   \* history: conn -> what it was told; "ignored", a login after a hello
    raced      \* history: two threads were in the map and one changed it

conns == <<life, addr>>
private == <<key, cert, name>>
history == <<issued, replies, raced>>
vars == <<conns, logState, private, job, timer, run, handled, issued, signed, replies, raced>>

\* A handler: "index" and "find" are inside m_log_state, "greet" and "check"
\* behind it, up to the reply.
NoJob == [at |-> "idle", conn |-> NoConn, cert |-> NoCert, proof |-> NothingSigned]
Jobs == [at : {"index", "find", "greet", "check"}, conn : Conns,
         cert : Certs \union {NoCert}, proof : Proofs] \union {NoJob}

Init ==
    /\ life = [c \in Conns |-> "new"] /\ addr = [c \in Conns |-> NoAddr]
    /\ logState = [a \in Addrs |-> "none"]
    /\ key = [c \in Conns |-> NoKey] /\ cert = [c \in Conns |-> NoCert]
    /\ name = [c \in Conns |-> NoUser]
    /\ job = [t \in Threads |-> NoJob]
    /\ timer = "armed" /\ run = "up" /\ handled = 0
    /\ issued = [c \in Conns |-> {}] /\ signed = {}
    /\ replies = [c \in Conns |-> {}] /\ raced = FALSE

-----------------------------------------------------------------------------
(* Connections and clients                                                   *)

\* A connection is allocated where no other one is.
Accept(c) ==
    /\ life[c] = "new"
    /\ \E a \in Addrs :
        /\ \A d \in Conns : life[d] = "open" => addr[d] # a
        /\ addr' = [addr EXCEPT ![c] = a]
    /\ life' = [life EXCEPT ![c] = "open"]
    /\ UNCHANGED <<logState, private, job, timer, run, handled, signed, history>>

\* Mutant: the handler does not hold the connection.
LeaveEarly(c) ==
    /\ life[c] = "open"
    /\ life' = [life EXCEPT ![c] = "gone"]
    /\ UNCHANGED <<addr, logState, private, job, timer, run, handled, signed, history>>

\* The connection is closed and its last connection_ptr goes; a handler holds
\* one.
Leave(c) ==
    /\ life[c] = "open" /\ job[ThreadOf[c]].conn # c
    /\ life' = [life EXCEPT ![c] = "gone"]
    /\ UNCHANGED <<addr, logState, private, job, timer, run, handled, signed, history>>

\* A user signs a key it was given, on one of its connections.
Sign(u, c) ==
    /\ life[c] = "open"
    /\ \E k \in issued[c] : signed' = signed \union {[by |-> u, key |-> k]}
    /\ UNCHANGED <<conns, logState, private, job, timer, run, handled, history>>

\* do_message calls the handler; a login carries any certificate, and a proof
\* made for whichever key.
Handle(c, j) ==
    /\ life[c] = "open" /\ job[ThreadOf[c]] = NoJob /\ handled < MaxMessages
    /\ job' = [job EXCEPT ![ThreadOf[c]] = j]
    /\ handled' = handled + 1
    /\ UNCHANGED <<conns, logState, private, timer, run, signed, history>>

HelloArrives(c) == Handle(c, [NoJob EXCEPT !.at = "index", !.conn = c])
LoginArrives(c) ==
    \E x \in Certs \union {NoCert}, p \in signed \union {NothingSigned, Unreadable} :
        Handle(c, [at |-> "find", conn |-> c, cert |-> x, proof |-> p])

-----------------------------------------------------------------------------
(* m_log_state                                                               *)

Entry(t) == addr[job[t].conn]
InMap(t) == job[t].at \in {"index", "find"}
Inserts(t) == job[t].at = "index" /\ logState[Entry(t)] = "none"

\* Another thread is in the map too, and one of the two changes it.
Race(t) ==
    \E u \in Threads \ {t} : InMap(t) /\ InMap(u) /\ (Inserts(t) \/ Inserts(u))

\* process_hello_message begins: m_log_state[address] makes the entry if there
\* is none. In a race nodes can be lost, of this address and of others.
Index(t) ==
    /\ job[t].at = "index"
    /\ \E lost \in SUBSET Addrs :
        /\ lost # {} => Race(t)
        /\ logState' = [a \in Addrs |->
               IF a \in lost THEN "none" ELSE IF a = Entry(t) THEN "hello" ELSE logState[a]]
    /\ raced' = (raced \/ Race(t))
    /\ job' = [job EXCEPT ![t].at = "greet"]
    /\ UNCHANGED <<conns, private, timer, run, handled, issued, signed, replies>>

\* process_login_message begins: find, and on.
Find(t) ==
    /\ job[t].at = "find" /\ logState[Entry(t)] # "none"
    /\ raced' = (raced \/ Race(t))
    /\ job' = [job EXCEPT ![t].at = "check"]
    /\ UNCHANGED <<conns, logState, private, timer, run, handled, issued, signed, replies>>

\* There is no entry, or a race hides it: the handler returns without a word.
FindNothing(t) ==
    LET c == job[t].conn
    IN  /\ job[t].at = "find" /\ (logState[Entry(t)] = "none" \/ Race(t))
        /\ raced' = (raced \/ Race(t))
        /\ replies' = IF issued[c] = {} THEN replies
                      ELSE [replies EXCEPT ![c] = @ \union {"ignored"}]
        /\ job' = [job EXCEPT ![t] = NoJob]
        /\ UNCHANGED <<conns, logState, private, timer, run, handled, issued, signed>>

-----------------------------------------------------------------------------
(* The rest of the handlers                                                  *)

Ends(how) ==
    /\ run' = how
    /\ UNCHANGED <<conns, logState, private, job, timer, handled, signed, history>>

\* process_hello_message: a new key, kept in the connection and sent. It is a
\* number in the group the client chose, which may be 0.
Greet(t) ==
    LET c == job[t].conn
    IN  /\ job[t].at = "greet"
        /\ \E k \in Keys :
            /\ key' = [key EXCEPT ![c] = k]
            /\ issued' = [issued EXCEPT ![c] = @ \union {k}]
        /\ replies' = [replies EXCEPT ![c] = @ \union {"server_hello"}]
        /\ job' = [job EXCEPT ![t] = NoJob]
        /\ UNCHANGED <<conns, logState, cert, name, timer, run, handled, signed, raced>>

\* Mutant: a key that is missing is taken for an empty one.
KeyOrEmpty(c) == TRUE

\* any_cast<std::string> of the private "login_check_key" succeeds.
HasKey(c) == key[c] # NoKey

\* The client's numbers make no key, and pub_key is NULL; the certificate's
\* bytes are none, without a name or an RSA key: a NULL is dereferenced.
NullPointer(t) ==
    /\ \/ job[t].at = "greet"
       \/ job[t].at = "check" /\ HasKey(job[t].conn) /\ job[t].cert = NoCert
    /\ Ends("null pointer")

\* The connection has no login_check_key: an empty any is cast to a string, and
\* nothing catches what that throws.
BadCast(t) ==
    /\ job[t].at = "check" /\ ~HasKey(job[t].conn)
    /\ Ends("bad_any_cast")

\* RSA_public_decrypt with the certificate's key fails, and its -1 is the
\* length to append.
Decrypts(j) == j.proof = NothingSigned \/ j.proof.by = j.cert.holder
LengthError(t) ==
    /\ job[t].at = "check" /\ HasKey(job[t].conn)
    /\ job[t].cert # NoCert /\ ~Decrypts(job[t])
    /\ Ends("length_error")

\* Mutant: whoever holds the private key of any certificate is believed.
SuccessAnyCert(j) == j.proof.key = key[j.conn]

\* user_cert_valid && user_rsa_key_valid
Success(j) == j.cert.valid /\ j.proof.key = key[j.conn]

\* process_login_message: the certificate is kept whether valid or not, the
\* name only after a success.
Check(t) ==
    LET j == job[t]
        c == j.conn
    IN  /\ j.at = "check" /\ HasKey(c) /\ j.cert # NoCert /\ Decrypts(j)
        /\ cert' = [cert EXCEPT ![c] = j.cert]
        /\ \/ /\ Success(j)
              /\ logState' = [a \in Addrs |->
                     IF a = addr[c] /\ logState[a] # "none" THEN "succeed" ELSE logState[a]]
              /\ name' = [name EXCEPT ![c] = j.cert.name]
              /\ replies' = [replies EXCEPT ![c] = @ \union {"LOGIN_SUCCEED"}]
           \/ /\ ~Success(j)
              /\ replies' = [replies EXCEPT ![c] = @ \union {"PUBLIC_KEY_MISMATCH"}]
              /\ UNCHANGED <<logState, name>>
        /\ job' = [job EXCEPT ![t] = NoJob]
        /\ UNCHANGED <<conns, key, timer, run, handled, issued, signed, raced>>

\* Nodes are linked and read at once: the process may end.
Crash(t) == Race(t) /\ Ends("race")

-----------------------------------------------------------------------------
(* The timer, which does nothing, and terminator()                           *)

\* login.quit() cancels it, unless it has just expired: then on_tick, queued
\* without an error, arms it again, as it does every second. The handlers of
\* the other threads go on until ios.stop().
Quit ==
    /\ run = "up" /\ run' = "stopping"
    /\ timer' \in {"armed", "off"}
    /\ UNCHANGED <<conns, logState, private, job, handled, signed, history>>

StopServices == run = "stopping" /\ Ends("stopped")

Over == run \notin {"up", "stopping"} /\ UNCHANGED vars

Running ==
    /\ run \in {"up", "stopping"}
    /\ \/ \E c \in Conns :
            \/ Accept(c) \/ Leave(c) \/ HelloArrives(c) \/ LoginArrives(c)
            \/ \E u \in Users : Sign(u, c)
       \/ \E t \in Threads :
            \/ Index(t) \/ Find(t) \/ FindNothing(t) \/ Greet(t) \/ Check(t)
            \/ NullPointer(t) \/ BadCast(t) \/ LengthError(t) \/ Crash(t)
       \/ Quit \/ StopServices

Next == Running \/ Over

Spec == Init /\ [][Next]_vars

-----------------------------------------------------------------------------
Types ==
    /\ life \in [Conns -> {"new", "open", "gone"}]
    /\ addr \in [Conns -> Addrs \union {NoAddr}]
    /\ logState \in [Addrs -> {"none", "hello", "succeed"}]
    /\ key \in [Conns -> Keys \union {NoKey}]
    /\ cert \in [Conns -> Certs \union {NoCert}]
    /\ name \in [Conns -> Users \union {NoUser}]
    /\ job \in [Threads -> Jobs]
    /\ timer \in {"armed", "off"}
    /\ run \in {"up", "stopping", "stopped", "null pointer", "bad_any_cast", "length_error", "race"}
    /\ handled \in Nat
    /\ issued \in [Conns -> SUBSET Keys]
    /\ signed \subseteq Signatures
    /\ raced \in BOOLEAN

\* A handler runs on its connection's thread and keeps the connection.
Kept ==
    \A t \in Threads : job[t] # NoJob =>
        job[t].conn \in Conns /\ life[job[t].conn] = "open" /\ ThreadOf[job[t].conn] = t

\* No two connections are at one address.
Apart ==
    /\ \A c \in Conns : life[c] # "new" => addr[c] \in Addrs
    /\ \A c, d \in Conns : life[c] = "open" /\ life[d] = "open" /\ addr[c] = addr[d] => c = d

\* The type invariant.
TypeOK == Types /\ Kept /\ Apart

\* How far "then this is not a login in another's name" holds: a connection
\* carries the name of a user only if that user signed a key given to this very
\* connection, or if the empty key was, which needs no signature; whatever other
\* handlers do to m_log_state, whoever had the address before, and however
\* often the client says hello or logs in again.
NameIsProved ==
    \A c \in Conns : name[c] # NoUser =>
        \E k \in issued[c] : k = EmptyKey \/ [by |-> name[c], key |-> k] \in signed

\* The hello decides whether a login is answered, although the entry that
\* stands for it belongs to an address: a connection that never said hello
\* gets no result; one that did is ignored only after a race in the map; and
\* the entry an earlier connection left at the address ends the process.
GreetingDecides ==
    /\ \A c \in Conns :
        /\ replies[c] \intersect {"LOGIN_SUCCEED", "PUBLIC_KEY_MISMATCH"} # {} => issued[c] # {}
        /\ "ignored" \in replies[c] => raced
    /\ run = "bad_any_cast" =>
        \E c, d \in Conns :
            /\ life[c] = "open" /\ issued[c] = {}
            /\ life[d] = "gone" /\ issued[d] # {} /\ addr[d] = addr[c]
=============================================================================

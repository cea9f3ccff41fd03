--------------------------- MODULE IoServicePool ---------------------------
(***************************************************************************)
(* io_service_pool (src/src/io_service_pool.cpp): PoolSize io_services,    *)
(* each run by one thread, handed out in turn by get_io_service(), which   *)
(* takes no lock although handlers of several services call it at once.    *)
(* A thread is named after its service; Main is the thread of main().      *)
(***************************************************************************)
EXTENDS Naturals

CONSTANTS
    PoolSize,   \* pool_size, the constructor's argument
    MaxGiven    \* bound: how often one service is handed out

ASSUME PoolAssumption ==
    /\ PoolSize \in Nat \ {0}   \* the constructor throws on 0
    /\ MaxGiven \in Nat

Services == 0 .. PoolSize - 1
Main == PoolSize
Threads == 0 .. PoolSize

\* main() takes services in a fixed order: the router's acceptor is the first
\* call of get_io_service(), the HTTP acceptor the second, the database the
\* third, the signal set, whose handler calls stop(), the seventh.
RouterAcceptor == 0
HttpAcceptor == 1 % PoolSize
Database == 2 % PoolSize
SignalService == 6 % PoolSize

\* The services whose handlers call get_io_service(): each accepted connection
\* gets one, and so does each certificate request of a registration, which
\* runs on the database's thread by then.
Callers == {RouterAcceptor, HttpAcceptor, Database}

VARIABLES
    next,     \* next_io_service_
    call,     \* thread -> where it is in get_io_service()
    loaded,   \* thread -> the value it loaded last
    given,    \* history: service -> how many callers were given it
    overlaps, \* history: how many calls began while another was under way
    thread,   \* service -> "unborn", "running" or "exited"
    main,     \* "startup", "spawning", "joining" or "returned" from run()
    k,        \* the index i of the loop main is in
    stopped,  \* the services whose stop() was called
    stopAt    \* the index i of stop()'s loop; Main while stop() is not running

vars == <<next, call, loaded, given, overlaps, thread, main, k, stopped, stopAt>>
lifecycle == <<thread, main, k, stopped, stopAt>>

\* The work objects keep every run() from returning before it is stopped, so
\* a thread leaves only through stop().
Init ==
    /\ next = 0
    /\ call = [t \in Threads |-> "none"]
    /\ loaded = [t \in Threads |-> 0]
    /\ given = [s \in Services |-> 0]
    /\ overlaps = 0
    /\ thread = [s \in Services |-> "unborn"]
    /\ main = "startup"
    /\ k = 0
    /\ stopped = {}
    /\ stopAt = Main

StopRunning == stopAt # Main
InCall == {t \in Threads : call[t] # "none"}

\* Thread t is in a handler (or in main() before run()) that may call the pool.
MayCall(t) ==
    /\ call[t] = "none"
    /\ IF t = Main
       THEN main = "startup"
       ELSE /\ t \in Callers
            /\ thread[t] = "running"
            /\ ~(t = SignalService /\ StopRunning)

-----------------------------------------------------------------------------
(* get_io_service(): three accesses to next_io_service_, none of them atomic *)
(* with another.                                                             *)

\* *io_services_[next_io_service_]
Pick(t) ==
    /\ MayCall(t)
    /\ given[next] < MaxGiven
    /\ given' = [given EXCEPT ![next] = @ + 1]
    /\ overlaps' = IF InCall = {} THEN overlaps ELSE overlaps + 1
    /\ call' = [call EXCEPT ![t] = "picked"]
    /\ UNCHANGED <<next, loaded, lifecycle>>

\* the load of next_io_service_ + 1
Load(t) ==
    /\ call[t] = "picked"
    /\ call' = [call EXCEPT ![t] = "loaded"]
    /\ loaded' = [loaded EXCEPT ![t] = next]
    /\ UNCHANGED <<next, given, overlaps, lifecycle>>

\* Mutant: the cursor is advanced without the wrap-around.
StoreNoWrap(t) ==
    /\ call[t] = "loaded"
    /\ next' = loaded[t] + 1
    /\ call' = [call EXCEPT ![t] = "none"]
    /\ UNCHANGED <<loaded, given, overlaps, lifecycle>>

\* Mutant: the cursor never moves.
StoreStuck(t) ==
    /\ call[t] = "loaded"
    /\ next' = loaded[t]
    /\ call' = [call EXCEPT ![t] = "none"]
    /\ UNCHANGED <<loaded, given, overlaps, lifecycle>>

\* next_io_service_ = (... + 1) % io_services_.size()
Store(t) ==
    /\ call[t] = "loaded"
    /\ next' = (loaded[t] + 1) % PoolSize
    /\ call' = [call EXCEPT ![t] = "none"]
    /\ UNCHANGED <<loaded, given, overlaps, lifecycle>>

-----------------------------------------------------------------------------
(* run(), stop() and the threads                                             *)

\* main() has built everything and enters run(). A pool of one has no thread
\* of its own: main is then the thread of service 0 and waits for it likewise.
Run ==
    /\ main = "startup" /\ call[Main] = "none"
    /\ main' = "spawning"
    /\ UNCHANGED <<next, call, loaded, given, overlaps, thread, k, stopped, stopAt>>

\* One iteration of the loop that creates the threads.
Spawn ==
    /\ main = "spawning"
    /\ thread' = [thread EXCEPT ![k] = "running"]
    /\ IF k = PoolSize - 1
       THEN main' = "joining" /\ k' = 0
       ELSE main' = main /\ k' = k + 1
    /\ UNCHANGED <<next, call, loaded, given, overlaps, stopped, stopAt>>

\* Mutant: the last thread is not joined.
JoinShort ==
    /\ main = "joining"
    /\ thread[k] = "exited"
    /\ IF k + 2 >= PoolSize
       THEN main' = "returned" /\ k' = k
       ELSE main' = main /\ k' = k + 1
    /\ UNCHANGED <<next, call, loaded, given, overlaps, thread, stopped, stopAt>>

\* One iteration of the loop that joins them.
Join ==
    /\ main = "joining"
    /\ thread[k] = "exited"
    /\ IF k = PoolSize - 1
       THEN main' = "returned" /\ k' = k
       ELSE main' = main /\ k' = k + 1
    /\ UNCHANGED <<next, call, loaded, given, overlaps, thread, stopped, stopAt>>

\* terminator() runs in a handler of SignalService, once, and calls stop().
Stop ==
    /\ thread[SignalService] = "running"
    /\ call[SignalService] = "none"
    /\ stopped = {} /\ ~StopRunning
    /\ stopAt' = 0
    /\ UNCHANGED <<next, call, loaded, given, overlaps, thread, main, k, stopped>>

\* Mutant: the loop misses the last service.
StopEachShort ==
    /\ StopRunning
    /\ stopped' = stopped \union {stopAt}
    /\ stopAt' = IF stopAt + 2 >= PoolSize THEN Main ELSE stopAt + 1
    /\ UNCHANGED <<next, call, loaded, given, overlaps, thread, main, k>>

\* One iteration of stop()'s loop; a service may be stopped before it runs.
StopEach ==
    /\ StopRunning
    /\ stopped' = stopped \union {stopAt}
    /\ stopAt' = stopAt + 1
    /\ UNCHANGED <<next, call, loaded, given, overlaps, thread, main, k>>

\* io_service::run() returns between two handlers of a stopped service.
Exit(s) ==
    /\ thread[s] = "running" /\ s \in stopped
    /\ call[s] = "none"
    /\ ~(s = SignalService /\ StopRunning)
    /\ thread' = [thread EXCEPT ![s] = "exited"]
    /\ UNCHANGED <<next, call, loaded, given, overlaps, main, k, stopped, stopAt>>

\* run() has returned: nothing moves any more.
Finished == main = "returned" /\ UNCHANGED vars

Next ==
    \/ \E t \in Threads : Pick(t) \/ Load(t) \/ Store(t)
    \/ Run \/ Spawn \/ Join \/ Stop \/ StopEach
    \/ \E s \in Services : Exit(s)
    \/ Finished

\* The operating system runs every thread; the signal may never come.
Fairness ==
    /\ WF_vars(Run) /\ WF_vars(Spawn) /\ WF_vars(Join) /\ WF_vars(StopEach)
    /\ \A t \in Threads : WF_vars(Load(t) \/ Store(t))
    /\ \A s \in Services : WF_vars(Exit(s))

Spec == Init /\ [][Next]_vars
FairSpec == Spec /\ Fairness

-----------------------------------------------------------------------------
\* The type invariant; that every access to io_services_ is inside the vector
\* (next and loaded stay below PoolSize) holds with any number of callers.
TypeOK ==
    /\ next \in Services
    /\ call \in [Threads -> {"none", "picked", "loaded"}]
    /\ loaded \in [Threads -> Services]
    /\ given \in [Services -> Nat]
    /\ overlaps \in Nat
    /\ thread \in [Services -> {"unborn", "running", "exited"}]
    /\ main \in {"startup", "spawning", "joining", "returned"}
    /\ k \in Services
    /\ stopped \subseteq Services
    /\ stopAt \in Threads

\* "Use a round-robin scheme to choose the next io_service to use": no service
\* is ever two callers ahead of another. Two calls at once break it.
Balanced == \A i, j \in Services : given[i] <= given[j] + 1

\* How far from round robin the unlocked cursor gets: a call that begins while
\* another is under way gives one service twice and makes the cursor jump once,
\* so it sets two services at most two further apart; calls that meet no other
\* keep the turns, also after a race.
BalancedUpToOverlaps ==
    \A i, j \in Services : given[i] <= given[j] + 1 + 2 * overlaps

\* When run() returns, main() destroys the servers, the modules and the
\* database pool: by then no thread is in a handler, and none is still to start.
QuietAfterRun ==
    main = "returned" =>
        /\ \A s \in Services : thread[s] = "exited" /\ call[s] = "none"
        /\ ~StopRunning

\* The signal ends the program: once stop() is called run() returns, also when
\* the signal comes while main is still creating threads.
StopEndsRun == StopRunning ~> main = "returned"
=============================================================================

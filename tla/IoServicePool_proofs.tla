------------------------ MODULE IoServicePool_proofs ------------------------
(***************************************************************************)
(* Proofs about IoServicePool, for every pool size and number of calls.    *)
(***************************************************************************)
EXTENDS IoServicePool, FiniteSetTheorems, TLAPS

\* The services that matter are services of the pool.
LEMMA PoolParts ==
    /\ Threads = Services \union {Main} /\ Main \notin Services
    /\ SignalService \in Services /\ Callers \subseteq Services
<1>1. \A n \in Nat : n % PoolSize \in 0 .. PoolSize - 1
  BY PoolAssumption
<1>2. SignalService \in Services /\ Callers \subseteq Services
  BY <1>1, PoolAssumption
  DEF SignalService, Callers, RouterAcceptor, HttpAcceptor, Database, Services
<1> QED BY <1>2, PoolAssumption DEF Threads, Services, Main

\* Every access of get_io_service() to io_services_ is inside the vector, with
\* any number of threads calling it at once: the wrap-around is applied to
\* whatever value the thread loaded, not to the cursor.
THEOREM PoolTypeOK == Spec => []TypeOK
<1> USE DEF TypeOK
<1>1. Init => TypeOK
  BY PoolAssumption DEF Init, Services, Threads, Main
<1>2. TypeOK /\ [Next]_vars => TypeOK'
  <2> SUFFICES ASSUME TypeOK, [Next]_vars PROVE TypeOK'
    OBVIOUS
  <2> USE DEF lifecycle
  <2>1. CASE UNCHANGED vars
    BY <2>1 DEF vars
  <2>2. ASSUME NEW t \in Threads, Pick(t) PROVE TypeOK'
    BY <2>2 DEF Pick
  <2>3. ASSUME NEW t \in Threads, Load(t) PROVE TypeOK'
    BY <2>3 DEF Load
  <2>4. ASSUME NEW t \in Threads, Store(t) PROVE TypeOK'
    <3>1. next' \in Services
      BY <2>4, PoolAssumption DEF Store, Services
    <3> QED BY <2>4, <3>1 DEF Store
  <2>5. CASE Run
    BY <2>5 DEF Run
  <2>6. CASE Spawn
    <3>1. k' \in Services
      BY <2>6, PoolAssumption DEF Spawn, Services
    <3> QED BY <2>6, <3>1 DEF Spawn
  <2>7. CASE Join
    <3>1. k' \in Services
      BY <2>7, PoolAssumption DEF Join, Services
    <3> QED BY <2>7, <3>1 DEF Join
  <2>8. CASE Stop
    <3>1. stopAt' \in Threads
      BY <2>8, PoolAssumption DEF Stop, Threads
    <3> QED BY <2>8, <3>1 DEF Stop
  <2>9. CASE StopEach
    <3>1. stopAt \in Services /\ stopAt + 1 \in Threads
      BY <2>9, PoolAssumption DEF StopEach, StopRunning, Main, Threads, Services
    <3> QED BY <2>9, <3>1 DEF StopEach
  <2>10. ASSUME NEW s \in Services, Exit(s) PROVE TypeOK'
    BY <2>10 DEF Exit
  <2>11. CASE Finished
    BY <2>11 DEF Finished, vars
  <2> QED BY <2>1, <2>2, <2>3, <2>4, <2>5, <2>6, <2>7, <2>8, <2>9, <2>10, <2>11 DEF Next
<1> QED BY <1>1, <1>2, PTL DEF Spec

-----------------------------------------------------------------------------
\* Who may be inside get_io_service(), and which threads are over: a thread in
\* a call, or in stop(), is running; main joins the threads in order.
Lifecycle ==
    /\ call[Main] # "none" => main = "startup"
    /\ main = "startup" => \A s \in Services : thread[s] = "unborn"
    /\ \A s \in Services : call[s] # "none" => thread[s] = "running" /\ s \in Callers
    /\ StopRunning => thread[SignalService] = "running"
    /\ main = "joining" => \A s \in Services : s < k => thread[s] = "exited"
    /\ main = "returned" => \A s \in Services : thread[s] = "exited"

\* The lifecycle facts hold in every reachable state.
LEMMA LifecycleInvariant == Spec => []Lifecycle
<1> USE PoolParts
<1>1. Init => Lifecycle
  BY DEF Init, Lifecycle, StopRunning
<1>2. TypeOK /\ Lifecycle /\ [Next]_vars => Lifecycle'
  <2> SUFFICES ASSUME TypeOK, Lifecycle, [Next]_vars PROVE Lifecycle'
    OBVIOUS
  <2> USE DEF lifecycle, Lifecycle, TypeOK
  <2>1. CASE UNCHANGED vars
    BY <2>1 DEF vars, StopRunning
  <2>2. ASSUME NEW t \in Threads, Pick(t) PROVE Lifecycle'
    BY <2>2 DEF Pick, MayCall, StopRunning
  <2>3. ASSUME NEW t \in Threads, Load(t) PROVE Lifecycle'
    BY <2>3 DEF Load, StopRunning
  <2>4. ASSUME NEW t \in Threads, Store(t) PROVE Lifecycle'
    BY <2>4 DEF Store, StopRunning
  <2>5. CASE Run
    BY <2>5 DEF Run, StopRunning
  <2>6. CASE Spawn
    <3>1. main' = "joining" => \A s \in Services : ~(s < k')
      BY <2>6, PoolAssumption DEF Spawn, Services
    <3> QED BY <2>6, <3>1 DEF Spawn, StopRunning
  <2>7. CASE Join
    <3>1. \A s \in Services : s < k \/ s = k \/ (s > k /\ k # PoolSize - 1)
      BY PoolAssumption DEF Services
    <3>2. \A s \in Services : s < k + 1 => s < k \/ s = k
      BY PoolAssumption DEF Services
    <3>3. \A s \in Services : k = PoolSize - 1 => thread[s] = "exited"
      BY <2>7, <3>1, PoolAssumption DEF Join, Services
    <3> QED BY <2>7, <3>2, <3>3 DEF Join, StopRunning
  <2>8. CASE Stop
    BY <2>8 DEF Stop, StopRunning
  <2>9. CASE StopEach
    BY <2>9 DEF StopEach, StopRunning
  <2>10. ASSUME NEW s \in Services, Exit(s) PROVE Lifecycle'
    BY <2>10 DEF Exit, StopRunning
  <2>11. CASE Finished
    BY <2>11 DEF Finished, vars, StopRunning
  <2> QED BY <2>1, <2>2, <2>3, <2>4, <2>5, <2>6, <2>7, <2>8, <2>9, <2>10, <2>11 DEF Next
<1> QED BY <1>1, <1>2, PoolTypeOK, PTL DEF Spec

\* When run() returns nothing of the pool is running any more, so that main()
\* may destroy the servers and modules the handlers use.
THEOREM RunReturnsLast == Spec => []QuietAfterRun
<1>1. TypeOK /\ Lifecycle => QuietAfterRun
  BY PoolParts DEF TypeOK, Lifecycle, QuietAfterRun, Services, Threads, StopRunning, Main
<1> QED BY <1>1, PoolTypeOK, LifecycleInvariant, PTL

-----------------------------------------------------------------------------
(* How far the services given out get from round robin.  What counts is a    *)
(* service's level, its callers beyond those the cursor's position accounts  *)
(* for.  As long as no call under way has moved the cursor (Gathered), all   *)
(* of them picked the service it points at; once one has (Scattered), every  *)
(* other one may still make it jump.                                         *)

Level(i) == given[i] - (IF i < next THEN 1 ELSE 0)
Pending(i) == IF i = next THEN Cardinality(InCall) ELSE 0
Gathered ==
    /\ \A t \in InCall : call[t] = "loaded" => loaded[t] = next
    /\ \A i, j \in Services : Level(i) - Pending(i) <=
        Level(j) - Pending(j) + 2 * (IF InCall = {} THEN overlaps ELSE overlaps + 1 - Cardinality(InCall))
Scattered ==
    \A i, j \in Services : Level(i) <= Level(j) + 2 * overlaps - Cardinality(InCall)

\* Entering and leaving a call changes the number of calls under way by one.
LEMMA CallCount ==
    ASSUME TypeOK, NEW t \in Threads, NEW S \in SUBSET Threads, t \notin S
    PROVE  /\ Cardinality(S) \in Nat /\ Cardinality(S \union {t}) = Cardinality(S) + 1
           /\ Cardinality({}) = 0 /\ (Cardinality(S) = 0 <=> S = {})
<1>1. IsFiniteSet(Threads)
  BY PoolAssumption, FS_Interval DEF Threads
<1>2. IsFiniteSet(S)
  BY <1>1, FS_Subset
<1> QED BY <1>2, FS_AddElement, FS_CardinalityType, FS_EmptySet

\* A new call gives the service at the cursor once more.
LEMMA PickDrift ==
    ASSUME TypeOK, Gathered \/ Scattered, NEW t \in Threads, Pick(t)
    PROVE  (Gathered \/ Scattered)'
<1> DEFINE n == Cardinality(InCall)
<1>1. InCall' = InCall \union {t} /\ t \notin InCall /\ InCall \subseteq Threads
  BY DEF Pick, MayCall, InCall, TypeOK
<1>2. n \in Nat /\ Cardinality(InCall') = n + 1 /\ (n = 0 <=> InCall = {}) /\ InCall' # {}
  BY <1>1, CallCount
<1>3. /\ next' = next /\ next \in Services /\ given' = [given EXCEPT ![next] = @ + 1]
      /\ overlaps' = IF InCall = {} THEN overlaps ELSE overlaps + 1
      /\ \A u \in Threads : call'[u] = "loaded" => call[u] = "loaded" /\ loaded'[u] = loaded[u]
  BY DEF Pick, TypeOK
<1>4. \A i \in Services : /\ given[i] \in Nat /\ i \in Nat
                          /\ given'[i] = IF i = next THEN given[i] + 1 ELSE given[i]
  BY <1>3 DEF TypeOK, Services
<1> HIDE DEF n
<1>5. \A i \in Services : Level(i) \in Int /\ Level(i)' = IF i = next THEN Level(i) + 1 ELSE Level(i)
  BY <1>3, <1>4 DEF Level, Services
<1>6. \A i \in Services : Pending(i) = IF i = next THEN n ELSE 0
  BY DEF Pending, n
<1>7. \A i \in Services : Pending(i)' = IF i = next THEN n + 1 ELSE 0
  BY <1>2, <1>3 DEF Pending
<1>8. CASE Gathered \/ InCall = {}
  <2>1. \A i, j \in Services : Level(i) - Pending(i) <= Level(j) - Pending(j)
            + 2 * (IF InCall = {} THEN overlaps ELSE overlaps + 1 - n)
    <3>1. CASE Gathered
      BY <3>1 DEF Gathered, n
    <3>2. CASE Scattered /\ InCall = {}
      <4>1. \A i, j \in Services : Level(i) <= Level(j) + 2 * overlaps - n
        BY <3>2 DEF Scattered, n
      <4> QED BY <4>1, <3>2, <1>2, <1>5, <1>6 DEF TypeOK
    <3> QED BY <3>1, <3>2, <1>8
  <2>2. \A i, j \in Services : Level(i)' - Pending(i)' <= Level(j)' - Pending(j)'
            + 2 * (overlaps' + 1 - (n + 1))
    BY <2>1, <1>2, <1>3, <1>5, <1>6, <1>7 DEF TypeOK
  <2>3. \A u \in InCall' : call'[u] = "loaded" => loaded'[u] = next'
    BY <1>1, <1>3, <1>8 DEF Gathered, InCall
  <2> QED BY <2>2, <2>3, <1>2 DEF Gathered
<1>9. CASE Scattered /\ InCall # {}
  <2>1. \A i, j \in Services : Level(i) <= Level(j) + 2 * overlaps - n
    BY <1>9 DEF Scattered, n
  <2>2. \A i, j \in Services : Level(i)' <= Level(j)' + 2 * overlaps' - (n + 1)
    BY <2>1, <1>2, <1>3, <1>5, <1>9 DEF TypeOK
  <2> QED BY <2>2, <1>2 DEF Scattered
<1> QED BY <1>8, <1>9

\* A call that ends moves the cursor: on to the next service, if it is the
\* first of the calls under way to end, and to any service otherwise.
LEMMA StoreDrift ==
    ASSUME TypeOK, Gathered \/ Scattered, NEW t \in Threads, Store(t)
    PROVE  (Gathered \/ Scattered)'
<1> DEFINE n == Cardinality(InCall')
<1>1. InCall = InCall' \union {t} /\ t \notin InCall' /\ InCall' \subseteq Threads
  BY DEF Store, InCall, TypeOK
<1>2. n \in Nat /\ Cardinality(InCall) = n + 1 /\ InCall # {}
  BY <1>1, CallCount
<1> HIDE DEF n
<1>3. next' \in Services /\ next \in Services /\ given' = given /\ overlaps' = overlaps
  BY PoolAssumption DEF Store, TypeOK, Services
<1>4. \A i \in Services : i \in Nat /\ given[i] \in Nat /\ Level(i) \in Int /\ Level(i)' \in Int
  BY <1>3 DEF TypeOK, Services, Level
<1>5. CASE Gathered
  <2>1. loaded[t] = next
    BY <1>1, <1>5 DEF Gathered, Store
  <2>2. next' = IF next + 1 = PoolSize THEN 0 ELSE next + 1
    BY <2>1, <1>3, PoolAssumption DEF Store, Services
  <2>3. \A i \in Services :
            Level(i)' = Level(i) - (IF i = next THEN 1 ELSE 0) + (IF next + 1 = PoolSize THEN 1 ELSE 0)
    BY <2>2, <1>3, <1>4, PoolAssumption DEF Level, Services
  <2>4. \A i, j \in Services : Level(i) - (IF i = next THEN n + 1 ELSE 0) <=
            Level(j) - (IF j = next THEN n + 1 ELSE 0) + 2 * (overlaps + 1 - (n + 1))
    BY <1>2, <1>5 DEF Gathered, Pending
  <2>5. \A i, j \in Services : Level(i)' <= Level(j)' + 2 * overlaps' - n
    <3> SUFFICES ASSUME NEW i \in Services, NEW j \in Services
                 PROVE  Level(i)' <= Level(j)' + 2 * overlaps' - n
      OBVIOUS
    <3> DEFINE a == Level(i)
               b == Level(j)
    <3>1. a \in Int /\ b \in Int /\ i \in Nat /\ j \in Nat /\ overlaps \in Nat
      BY <1>4 DEF TypeOK
    <3>2. a - (IF i = next THEN n + 1 ELSE 0) <= b - (IF j = next THEN n + 1 ELSE 0)
              + 2 * (overlaps + 1 - (n + 1))
      BY <2>4
    <3>3. /\ Level(i)' = a - (IF i = next THEN 1 ELSE 0) + (IF next + 1 = PoolSize THEN 1 ELSE 0)
          /\ Level(j)' = b - (IF j = next THEN 1 ELSE 0) + (IF next + 1 = PoolSize THEN 1 ELSE 0)
      BY <2>3
    <3> HIDE DEF a, b
    <3> QED BY <3>1, <3>2, <3>3, <1>2, <1>3
  <2> QED BY <2>5 DEF Scattered, n
<1>6. CASE Scattered
  <2>1. \A i, j \in Services : Level(i) <= Level(j) + 2 * overlaps - (n + 1)
    BY <1>2, <1>6 DEF Scattered
  <2>2. \A i, j \in Services : Level(i)' - Level(i) <= Level(j)' - Level(j) + 1
    BY <1>3, <1>4 DEF Level, Services
  <2>3. \A i, j \in Services : Level(i)' <= Level(j)' + 2 * overlaps' - n
    BY <2>1, <2>2, <1>2, <1>3, <1>4 DEF TypeOK
  <2> QED BY <2>3 DEF Scattered, n
<1> QED BY <1>5, <1>6

\* In every reachable state the calls under way are gathered or scattered.
LEMMA DriftInvariant == Spec => [](Gathered \/ Scattered)
<1>1. Init => Gathered
  <2> SUFFICES ASSUME Init PROVE Gathered
    OBVIOUS
  <2>1. InCall = {} /\ next = 0 /\ overlaps = 0 /\ \A i \in Services : given[i] = 0 /\ ~(i < next)
    BY PoolAssumption DEF Init, InCall, Services
  <2>2. Cardinality({}) = 0
    BY FS_EmptySet
  <2> QED BY <2>1, <2>2 DEF Gathered, Level, Pending
<1>2. TypeOK /\ (Gathered \/ Scattered) /\ [Next]_vars => (Gathered \/ Scattered)'
  <2> SUFFICES ASSUME TypeOK, Gathered \/ Scattered, [Next]_vars PROVE (Gathered \/ Scattered)'
    OBVIOUS
  <2>1. CASE UNCHANGED <<next, call, loaded, given, overlaps>>
    BY <2>1 DEF Gathered, Scattered, Level, Pending, InCall
  <2>2. ASSUME NEW t \in Threads, Pick(t) PROVE (Gathered \/ Scattered)'
    BY <2>2, PickDrift
  <2>3. ASSUME NEW t \in Threads, Load(t) PROVE (Gathered \/ Scattered)'
    <3>1. InCall' = InCall /\ next' = next /\ given' = given /\ overlaps' = overlaps
      BY <2>3 DEF Load, InCall, TypeOK
    <3>2. \A u \in InCall : call'[u] = "loaded" =>
              loaded'[u] = next \/ (call[u] = "loaded" /\ loaded'[u] = loaded[u])
      BY <2>3 DEF Load, InCall, TypeOK
    <3> QED BY <3>1, <3>2 DEF Gathered, Scattered, Level, Pending
  <2>4. ASSUME NEW t \in Threads, Store(t) PROVE (Gathered \/ Scattered)'
    BY <2>4, StoreDrift
  <2> QED
    BY <2>1, <2>2, <2>3, <2>4
    DEF Next, Run, Spawn, Join, Stop, StopEach, Exit, Finished, vars
<1> QED BY <1>1, <1>2, PoolTypeOK, PTL DEF Spec

\* Round robin up to races: whoever calls the pool, two services are never
\* further apart than one caller and two for each call that began while
\* another was under way; without such a call the turns are kept exactly.
THEOREM RoundRobin == Spec => []BalancedUpToOverlaps
<1>1. TypeOK /\ (Gathered \/ Scattered) => BalancedUpToOverlaps
  <2> SUFFICES ASSUME TypeOK, Gathered \/ Scattered, NEW i \in Services, NEW j \in Services
               PROVE  given[i] <= given[j] + 1 + 2 * overlaps
    BY DEF BalancedUpToOverlaps
  <2> DEFINE n == Cardinality(InCall)
  <2>1. n \in Nat /\ (n = 0 <=> InCall = {})
    <3>1. IsFiniteSet(Threads) /\ InCall \subseteq Threads
      BY PoolAssumption, FS_Interval DEF Threads, InCall
    <3> QED BY <3>1, FS_Subset, FS_CardinalityType, FS_EmptySet
  <2>2. given[i] \in Nat /\ given[j] \in Nat /\ i \in Nat /\ j \in Nat /\ next \in Nat /\ overlaps \in Nat
    BY DEF TypeOK, Services
  <2>3. CASE Gathered
    <3>1. Level(i) - Pending(i) <= Level(j) - Pending(j)
              + 2 * (IF InCall = {} THEN overlaps ELSE overlaps + 1 - n)
      BY <2>3 DEF Gathered
    <3>2. Pending(i) = (IF i = next THEN n ELSE 0) /\ Pending(j) = (IF j = next THEN n ELSE 0)
      BY DEF Pending
    <3> HIDE DEF n
    <3> QED BY <3>1, <3>2, <2>1, <2>2 DEF Level
  <2>4. CASE Scattered
    <3>1. Level(i) <= Level(j) + 2 * overlaps - n
      BY <2>4 DEF Scattered
    <3> HIDE DEF n
    <3> QED BY <3>1, <2>1, <2>2 DEF Level
  <2> QED BY <2>3, <2>4
<1> QED BY <1>1, PoolTypeOK, DriftInvariant, PTL
=============================================================================

----------------------------- MODULE Login_proofs -----------------------------
(***************************************************************************)
(* Theorems about Login, for any number of connections, addresses, threads *)
(* and users.                                                              *)
(***************************************************************************)
EXTENDS Login, TLAPS

-----------------------------------------------------------------------------
(* The type invariant                                                        *)

\* What a handler's job is made of.
LEMMA JobShape ==
    ASSUME TypeOK, NEW t \in Threads, job[t].at # "idle"
    PROVE  /\ job[t].conn \in Conns
           /\ job[t].at \in {"index", "find", "greet", "check"}
           /\ job[t].cert \in Certs \union {NoCert} /\ job[t].proof \in Proofs
           /\ job[t] \in [at : {"index", "find", "greet", "check"}, conn : Conns,
                          cert : Certs \union {NoCert}, proof : Proofs]
           /\ life[job[t].conn] = "open" /\ ThreadOf[job[t].conn] = t
           /\ addr[job[t].conn] \in Addrs
  <1>1. job[t] \in Jobs BY DEF TypeOK, Types
  <1>2. job[t] # NoJob BY DEF NoJob
  <1>3. job[t] \in [at : {"index", "find", "greet", "check"}, conn : Conns,
                    cert : Certs \union {NoCert}, proof : Proofs]
    BY <1>1, <1>2 DEF Jobs
  <1>4. job[t].conn \in Conns BY <1>3
  <1>5. life[job[t].conn] = "open" /\ ThreadOf[job[t].conn] = t
    BY <1>2 DEF TypeOK, Kept
  <1>6. addr[job[t].conn] \in Addrs BY <1>4, <1>5 DEF TypeOK, Apart
  <1> QED BY <1>3, <1>5, <1>6

LEMMA TypeInit == Init => TypeOK
  <1> SUFFICES ASSUME Init PROVE TypeOK
    OBVIOUS
  <1>1. NoJob \in Jobs BY DEF Jobs
  <1>2. Types BY <1>1, LoginAssumption DEF Init, Types
  <1>3. Kept BY DEF Init, Kept
  <1>4. Apart BY DEF Init, Apart
  <1> QED BY <1>2, <1>3, <1>4 DEF TypeOK

\* A step that changes no connection and no job keeps what TypeOK says of them.
LEMMA SameConns ==
    ASSUME TypeOK, UNCHANGED <<life, addr, job>>
    PROVE  Kept' /\ Apart'
  BY DEF TypeOK, Kept, Apart

\* A step inside a handler, or its end.
LEMMA JobSteps ==
    ASSUME TypeOK, NEW t \in Threads, job[t].at # "idle", UNCHANGED <<life, addr>>,
           \/ job' = [job EXCEPT ![t] = NoJob]
           \/ job' = [job EXCEPT ![t].at = "greet"]
           \/ job' = [job EXCEPT ![t].at = "check"]
    PROVE  job' \in [Threads -> Jobs] /\ Kept' /\ Apart'
  <1>1. job \in [Threads -> Jobs] BY DEF TypeOK, Types
  <1>2. job[t] # NoJob BY DEF NoJob
  <1>3. \A u \in Threads : u # t => job'[u] = job[u] BY <1>1
  <1>4. DOMAIN job' = Threads /\ job' = [u \in Threads |-> job'[u]] BY <1>1
  <1>5. CASE job' = [job EXCEPT ![t] = NoJob]
    <2>1. job'[t] = NoJob BY <1>1, <1>5
    <2>2. job' \in [Threads -> Jobs] BY <1>1, <1>5 DEF Jobs
    <2>3. Kept' BY <1>3, <2>1 DEF TypeOK, Kept
    <2> QED BY <2>2, <2>3 DEF TypeOK, Apart
  <1>6. CASE \E how \in {"greet", "check"} : job' = [job EXCEPT ![t].at = how]
    <2>1. PICK how \in {"greet", "check"} : job' = [job EXCEPT ![t].at = how] BY <1>6
    <2>2. job'[t] = [job[t] EXCEPT !.at = how] BY <1>1, <2>1
    <2>3. job[t] \in [at : {"index", "find", "greet", "check"}, conn : Conns,
                      cert : Certs \union {NoCert}, proof : Proofs]
      BY JobShape
    <2>4. job'[t] \in [at : {"index", "find", "greet", "check"}, conn : Conns,
                       cert : Certs \union {NoCert}, proof : Proofs]
          /\ job'[t].conn = job[t].conn
      BY <2>2, <2>3
    <2>5. job' \in [Threads -> Jobs] BY <1>1, <1>3, <1>4, <2>4 DEF Jobs
    <2>6. Kept' BY <1>2, <1>3, <2>4 DEF TypeOK, Kept
    <2> QED BY <2>5, <2>6 DEF TypeOK, Apart
  <1> QED BY <1>5, <1>6

LEMMA TypeNext == TypeOK /\ [Next]_vars => TypeOK'
  <1> SUFFICES ASSUME TypeOK, [Next]_vars PROVE TypeOK'
    OBVIOUS
  <1> USE LoginAssumption
  <1>1. ASSUME NEW c \in Conns, Accept(c) PROVE TypeOK'
    <2>1. PICK a \in Addrs :
            /\ \A d \in Conns : life[d] = "open" => addr[d] # a
            /\ addr' = [addr EXCEPT ![c] = a]
      BY <1>1 DEF Accept
    <2>2. Types' BY <1>1, <2>1 DEF TypeOK, Types, Accept, private, history
    <2>3. Kept' BY <1>1 DEF TypeOK, Types, Kept, Accept
    <2>4. Apart' BY <1>1, <2>1 DEF TypeOK, Types, Apart, Accept
    <2> QED BY <2>2, <2>3, <2>4 DEF TypeOK
  <1>2. ASSUME NEW c \in Conns, Leave(c) PROVE TypeOK'
    <2>1. Types' BY <1>2 DEF TypeOK, Types, Leave, private, history
    <2>2. ASSUME NEW t \in Threads, job[t] # NoJob
          PROVE  job[t].conn \in Conns /\ life'[job[t].conn] = "open" /\ ThreadOf[job[t].conn] = t
      <3>1. job[t].conn \in Conns /\ life[job[t].conn] = "open" /\ ThreadOf[job[t].conn] = t
        BY <2>2 DEF TypeOK, Kept
      <3>2. job[t].conn # c BY <1>2, <3>1 DEF Leave
      <3> QED BY <1>2, <3>1, <3>2 DEF Leave, TypeOK, Types
    <2>4. Kept' BY <1>2, <2>2 DEF Kept, Leave
    <2>3. Apart' BY <1>2 DEF TypeOK, Types, Apart, Leave
    <2> QED BY <2>1, <2>3, <2>4 DEF TypeOK
  <1>3. ASSUME NEW c \in Conns, NEW u \in Users, Sign(u, c) PROVE TypeOK'
    <2>1. PICK k \in issued[c] : signed' = signed \union {[by |-> u, key |-> k]}
      BY <1>3 DEF Sign
    <2>2. k \in Keys BY <2>1 DEF TypeOK, Types
    <2>5. [by |-> u, key |-> k] \in Signatures BY <2>2 DEF Signatures
    <2>3. signed' \subseteq Signatures BY <2>1, <2>5 DEF TypeOK, Types
    <2>4. Types' BY <1>3, <2>3 DEF TypeOK, Types, Sign, conns, private, history
    <2> QED BY <1>3, <2>4, SameConns DEF TypeOK, Sign, conns
  <1>4. ASSUME NEW c \in Conns, NEW j \in Jobs, j.conn = c, Handle(c, j) PROVE TypeOK'
    <2>1. ThreadOf[c] \in Threads OBVIOUS
    <2>2. job' \in [Threads -> Jobs] BY <1>4, <2>1 DEF TypeOK, Types, Handle
    <2>7. handled \in Nat /\ handled' = handled + 1 BY <1>4 DEF TypeOK, Types, Handle
    <2>6. handled' \in Nat BY <2>7
    <2>5. Types' BY <1>4, <2>2, <2>6 DEF TypeOK, Types, Handle, conns, private, history
    <2>3. Kept' BY <1>4, <2>1 DEF TypeOK, Types, Kept, Handle, conns
    <2>4. Apart' BY <1>4 DEF TypeOK, Apart, Handle, conns
    <2> QED BY <2>3, <2>4, <2>5 DEF TypeOK
  <1>5. ASSUME NEW c \in Conns, HelloArrives(c) PROVE TypeOK'
    <2> DEFINE j == [NoJob EXCEPT !.at = "index", !.conn = c]
    <2>1. NothingSigned \in Proofs BY DEF Proofs
    <2>2. j \in Jobs /\ j.conn = c BY <2>1 DEF NoJob, Jobs
    <2>3. Handle(c, j) BY <1>5 DEF HelloArrives
    <2> HIDE DEF j
    <2> QED BY <1>4, <2>2, <2>3
  <1>6. ASSUME NEW c \in Conns, LoginArrives(c) PROVE TypeOK'
    <2>1. PICK x \in Certs \union {NoCert}, p \in signed \union {NothingSigned, Unreadable} :
              Handle(c, [at |-> "find", conn |-> c, cert |-> x, proof |-> p])
      BY <1>6 DEF LoginArrives
    <2> DEFINE j == [at |-> "find", conn |-> c, cert |-> x, proof |-> p]
    <2>2. p \in Proofs BY DEF TypeOK, Types, Proofs
    <2>3. j \in Jobs /\ j.conn = c BY <2>2 DEF Jobs
    <2>4. Handle(c, j) BY <2>1
    <2> HIDE DEF j
    <2> QED BY <1>4, <2>3, <2>4
  <1>8. ASSUME NEW t \in Threads, Index(t) PROVE TypeOK'
    <2>1. PICK lost \in SUBSET Addrs :
            logState' = [a \in Addrs |->
                IF a \in lost THEN "none" ELSE IF a = Entry(t) THEN "hello" ELSE logState[a]]
      BY <1>8 DEF Index
    <2>3. logState' \in [Addrs -> {"none", "hello", "succeed"}] BY <2>1 DEF TypeOK, Types
    <2>4. raced' \in BOOLEAN BY <1>8 DEF Index
    <2>2. job' \in [Threads -> Jobs] /\ Kept' /\ Apart'
      BY <1>8, JobSteps DEF Index, conns
    <2> QED BY <1>8, <2>2, <2>3, <2>4 DEF TypeOK, Types, Index, conns, private
  <1>9. ASSUME NEW t \in Threads, Find(t) PROVE TypeOK'
    <2>1. raced' \in BOOLEAN BY <1>9 DEF Find
    <2>2. job' \in [Threads -> Jobs] /\ Kept' /\ Apart'
      BY <1>9, JobSteps DEF Find, conns
    <2> QED BY <1>9, <2>1, <2>2 DEF TypeOK, Types, Find, conns, private
  <1>10. ASSUME NEW t \in Threads, FindNothing(t) PROVE TypeOK'
    <2>1. raced' \in BOOLEAN BY <1>10 DEF FindNothing
    <2>2. job' \in [Threads -> Jobs] /\ Kept' /\ Apart'
      BY <1>10, JobSteps DEF FindNothing, conns
    <2> QED BY <1>10, <2>1, <2>2 DEF TypeOK, Types, FindNothing, conns, private
  <1>11. ASSUME NEW t \in Threads, Greet(t) PROVE TypeOK'
    <2> DEFINE c == job[t].conn
    <2>1. PICK k \in Keys :
            key' = [key EXCEPT ![c] = k] /\ issued' = [issued EXCEPT ![c] = @ \union {k}]
      BY <1>11 DEF Greet
    <2>3. key' \in [Conns -> Keys \union {NoKey}] BY <2>1 DEF TypeOK, Types
    <2>4. issued' \in [Conns -> SUBSET Keys] BY <2>1 DEF TypeOK, Types
    <2>2. job' \in [Threads -> Jobs] /\ Kept' /\ Apart'
      BY <1>11, JobSteps DEF Greet, conns
    <2> QED BY <1>11, <2>2, <2>3, <2>4 DEF TypeOK, Types, Greet, conns
  <1>12. ASSUME NEW t \in Threads, Check(t) PROVE TypeOK'
    <2>1. job[t].cert \in Certs BY <1>12, JobShape DEF Check
    <2>2. job[t].cert.name \in Users BY <2>1 DEF Certs
    <2>3. cert' \in [Conns -> Certs \union {NoCert}] /\ name' \in [Conns -> Users \union {NoUser}]
      BY <1>12, <2>1, <2>2 DEF Check, TypeOK, Types
    <2>4. logState' \in [Addrs -> {"none", "hello", "succeed"}] BY <1>12 DEF Check, TypeOK, Types
    <2>5. job' \in [Threads -> Jobs] /\ Kept' /\ Apart'
      BY <1>12, JobSteps DEF Check, conns
    <2> QED BY <1>12, <2>3, <2>4, <2>5 DEF TypeOK, Types, Check, conns
  <1>13. ASSUME NEW t \in Threads, NullPointer(t) \/ BadCast(t) \/ LengthError(t) \/ Crash(t)
         PROVE  TypeOK'
    <2>1. UNCHANGED <<conns, logState, private, job, timer, handled, signed, history>>
          /\ run' \in {"null pointer", "bad_any_cast", "length_error", "race"}
      BY <1>13 DEF NullPointer, BadCast, LengthError, Crash, Ends
    <2> QED BY <2>1, SameConns DEF TypeOK, Types, conns, private, history
  <1>14. ASSUME Quit \/ StopServices PROVE TypeOK'
    <2>1. UNCHANGED <<conns, logState, private, job, handled, signed, history>>
          /\ timer' \in {"armed", "off"} /\ run' \in {"stopping", "stopped"}
      BY <1>14 DEF Quit, StopServices, Ends, TypeOK, Types
    <2> QED BY <2>1, SameConns DEF TypeOK, Types, conns, private, history
  <1>15. CASE UNCHANGED vars
    BY <1>15, SameConns DEF vars, TypeOK, Types, conns, private
  <1> QED
    BY <1>1, <1>2, <1>3, <1>5, <1>6, <1>8, <1>9, <1>10, <1>11, <1>12, <1>13, <1>14, <1>15
    DEF Next, Running, Over

\* Everything has its type, a handler keeps its connection, and no two
\* connections are at one address.
THEOREM LoginTypeOK == Spec => []TypeOK
  BY TypeInit, TypeNext, PTL DEF Spec

-----------------------------------------------------------------------------
(* NameIsProved                                                              *)

\* The key to check is one given to this connection; and the signature a login
\* carries has been made.
KeyIssued == \A c \in Conns : key[c] # NoKey <=> issued[c] # {}
KeyIsOne == \A c \in Conns : key[c] # NoKey => key[c] \in issued[c]
ProofMade ==
    \A t \in Threads : job[t] # NoJob =>
        job[t].proof \in signed \union {NothingSigned, Unreadable}

NameInvariant == TypeOK /\ KeyIssued /\ KeyIsOne /\ ProofMade /\ NameIsProved

\* A successful login comes with a signature of the key by the user it names,
\* unless the key is the empty one.
LEMMA SuccessIsSigned ==
    ASSUME NameInvariant, NEW t \in Threads, job[t].at = "check",
           HasKey(job[t].conn), job[t].cert # NoCert, Decrypts(job[t]), Success(job[t])
    PROVE  \E k \in issued[job[t].conn] :
             k = EmptyKey \/ [by |-> job[t].cert.name, key |-> k] \in signed
  <1> DEFINE j == job[t]
             c == j.conn
  <1>1. j # NoJob BY DEF NoJob
  <1>2. c \in Conns /\ j.cert \in Certs BY JobShape DEF NameInvariant
  <1>3. key[c] \in issued[c] /\ key[c] # NoKey BY <1>2 DEF NameInvariant, KeyIsOne, HasKey
  <1>4. j.proof.key = key[c] BY DEF Success
  <1>0. CASE key[c] = EmptyKey BY <1>0, <1>3
  <1> SUFFICES ASSUME key[c] # EmptyKey
               PROVE  \E k \in issued[c] : [by |-> j.cert.name, key |-> k] \in signed
    BY <1>0
  <1>5. j.proof # NothingSigned BY <1>4 DEF NothingSigned
  <1>6. j.proof.by = j.cert.holder BY <1>5 DEF Decrypts
  <1>7. j.cert.holder \in Users /\ j.cert.holder = j.cert.name BY <1>2 DEF Certs, Success
  <1>8. j.proof # Unreadable BY <1>6, <1>7, LoginAssumption DEF Unreadable
  <1>9. j.proof \in signed BY <1>1, <1>5, <1>8 DEF NameInvariant, ProofMade
  <1>10. j.proof \in Signatures BY <1>9 DEF NameInvariant, TypeOK, Types
  <1>11. j.proof = [by |-> j.cert.name, key |-> key[c]]
    BY <1>4, <1>6, <1>7, <1>10 DEF Signatures
  <1> QED BY <1>3, <1>9, <1>11

LEMMA NameInit == Init => NameInvariant
  <1> SUFFICES ASSUME Init PROVE NameInvariant
    OBVIOUS
  <1>1. KeyIssued /\ KeyIsOne BY DEF Init, KeyIssued, KeyIsOne
  <1>2. ProofMade BY DEF Init, ProofMade
  <1>3. NameIsProved BY DEF Init, NameIsProved
  <1> QED BY <1>1, <1>2, <1>3, TypeInit DEF NameInvariant

LEMMA NameNext == NameInvariant /\ [Next]_vars => NameInvariant'
  <1> SUFFICES ASSUME NameInvariant, [Next]_vars PROVE NameInvariant'
    OBVIOUS
  <1> DEFINE Goal == KeyIssued' /\ KeyIsOne' /\ ProofMade' /\ NameIsProved'
  <1>0. TypeOK /\ TypeOK' BY TypeNext DEF NameInvariant
  <1>1. ASSUME UNCHANGED <<key, issued, name, signed, job>> PROVE Goal
    BY <1>1 DEF NameInvariant, KeyIssued, KeyIsOne, ProofMade, NameIsProved
  <1>2. ASSUME NEW c \in Conns, NEW u \in Users, Sign(u, c) PROVE Goal
    <2>1. signed \subseteq signed' /\ UNCHANGED <<key, issued, name, job>>
      BY <1>2 DEF Sign, private, history
    <2> QED BY <2>1 DEF NameInvariant, KeyIssued, KeyIsOne, ProofMade, NameIsProved
  <1>3. ASSUME NEW c \in Conns, NEW j \in Jobs,
               j.proof \in signed \union {NothingSigned, Unreadable}, Handle(c, j)
        PROVE  Goal
    <2>1. UNCHANGED <<key, issued, name, signed>> BY <1>3 DEF Handle, private, history
    <2>2. \A t \in Threads : job'[t] = job[t] \/ job'[t] = j
      BY <1>0, <1>3 DEF Handle, TypeOK, Types
    <2>3. ProofMade' BY <1>3, <2>1, <2>2 DEF NameInvariant, ProofMade
    <2> QED BY <2>1, <2>3 DEF NameInvariant, KeyIssued, KeyIsOne, NameIsProved
  <1>4. ASSUME NEW c \in Conns, HelloArrives(c) \/ LoginArrives(c) PROVE Goal
    <2>1. CASE HelloArrives(c)
      <3> DEFINE j == [NoJob EXCEPT !.at = "index", !.conn = c]
      <3>1. NothingSigned \in Proofs BY DEF Proofs
      <3>2. j \in Jobs /\ j.proof = NothingSigned BY <3>1 DEF NoJob, Jobs
      <3>3. Handle(c, j) BY <2>1 DEF HelloArrives
      <3> HIDE DEF j
      <3> QED BY <1>3, <3>2, <3>3
    <2>2. CASE LoginArrives(c)
      <3>1. PICK x \in Certs \union {NoCert}, p \in signed \union {NothingSigned, Unreadable} :
                Handle(c, [at |-> "find", conn |-> c, cert |-> x, proof |-> p])
        BY <2>2 DEF LoginArrives
      <3> DEFINE j == [at |-> "find", conn |-> c, cert |-> x, proof |-> p]
      <3>2. p \in Proofs BY <1>0 DEF TypeOK, Types, Proofs
      <3>3. j \in Jobs /\ j.proof = p BY <3>2 DEF Jobs
      <3>4. Handle(c, j) BY <3>1
      <3> HIDE DEF j
      <3> QED BY <1>3, <3>3, <3>4
    <2> QED BY <1>4, <2>1, <2>2
  <1>5. ASSUME NEW t \in Threads, job[t].at # "idle", UNCHANGED signed,
               \/ job' = [job EXCEPT ![t] = NoJob]
               \/ job' = [job EXCEPT ![t].at = "greet"]
               \/ job' = [job EXCEPT ![t].at = "check"]
        PROVE  ProofMade'
    <2>1. job \in [Threads -> Jobs] BY <1>0 DEF TypeOK, Types
    <2>2. job[t] # NoJob BY <1>5 DEF NoJob
    <2>3. \A u \in Threads : u # t => job'[u] = job[u] BY <1>5, <2>1
    <2>4. job[t] \in [at : {"index", "find", "greet", "check"}, conn : Conns,
                      cert : Certs \union {NoCert}, proof : Proofs]
      BY <1>0, <1>5, JobShape
    <2>5. job'[t] = NoJob \/ job'[t].proof = job[t].proof BY <1>5, <2>1, <2>4
    <2> QED BY <1>5, <2>2, <2>3, <2>5 DEF NameInvariant, ProofMade
  <1>6. ASSUME NEW t \in Threads, Index(t) \/ Find(t) \/ FindNothing(t) PROVE Goal
    <2>1. UNCHANGED <<key, issued, name, signed>>
      BY <1>6 DEF Index, Find, FindNothing, private
    <2>2. ProofMade' BY <1>5, <1>6 DEF Index, Find, FindNothing
    <2> QED BY <2>1, <2>2 DEF NameInvariant, KeyIssued, KeyIsOne, NameIsProved
  <1>7. ASSUME NEW t \in Threads, Greet(t) PROVE Goal
    <2> DEFINE c == job[t].conn
    <2>1. PICK k \in Keys :
            key' = [key EXCEPT ![c] = k] /\ issued' = [issued EXCEPT ![c] = @ \union {k}]
      BY <1>7 DEF Greet
    <2>2. UNCHANGED <<name, signed>> BY <1>7 DEF Greet
    <2>3. k # NoKey BY LoginAssumption
    <2>4. key \in [Conns -> Keys \union {NoKey}] /\ issued \in [Conns -> SUBSET Keys]
      BY <1>0 DEF TypeOK, Types
    <2>5. \A d \in Conns :
            \/ d # c /\ key'[d] = key[d] /\ issued'[d] = issued[d]
            \/ d = c /\ key'[d] = k /\ issued'[d] = issued[d] \union {k}
      BY <2>1, <2>4
    <2>6. KeyIssued' /\ KeyIsOne' BY <2>3, <2>5 DEF NameInvariant, KeyIssued, KeyIsOne
    <2>7. NameIsProved' BY <2>2, <2>5 DEF NameInvariant, NameIsProved
    <2>8. ProofMade' BY <1>5, <1>7 DEF Greet
    <2> QED BY <2>6, <2>7, <2>8
  <1>8. ASSUME NEW t \in Threads, Check(t) PROVE Goal
    <2> DEFINE j == job[t]
               c == j.conn
    <2>1. UNCHANGED <<key, issued, signed>> BY <1>8 DEF Check
    <2>2. ProofMade' BY <1>5, <1>8 DEF Check
    <2>3. NameIsProved'
      <3>1. CASE UNCHANGED name BY <2>1, <3>1 DEF NameInvariant, NameIsProved
      <3>2. CASE Success(j) /\ name' = [name EXCEPT ![c] = j.cert.name]
        <4>1. \E k \in issued[c] : k = EmptyKey \/ [by |-> j.cert.name, key |-> k] \in signed
          BY <1>8, <3>2, SuccessIsSigned DEF Check
        <4>2. \A d \in Conns : name'[d] = name[d] \/ (d = c /\ name'[d] = j.cert.name)
          BY <1>0, <3>2 DEF TypeOK, Types
        <4> QED BY <2>1, <4>1, <4>2 DEF NameInvariant, NameIsProved
      <3> QED BY <1>8, <3>1, <3>2 DEF Check
    <2> QED BY <2>1, <2>2, <2>3 DEF NameInvariant, KeyIssued, KeyIsOne
  <1>9. ASSUME NEW c \in Conns, Accept(c) \/ Leave(c) PROVE Goal
    BY <1>1, <1>9 DEF Accept, Leave, private, history
  <1>10. ASSUME NEW t \in Threads, NullPointer(t) \/ BadCast(t) \/ LengthError(t) \/ Crash(t)
         PROVE  Goal
    BY <1>1, <1>10 DEF NullPointer, BadCast, LengthError, Crash, Ends, private, history
  <1>11. ASSUME Quit \/ StopServices PROVE Goal
    BY <1>1, <1>11 DEF Quit, StopServices, Ends, private, history
  <1>12. ASSUME UNCHANGED vars PROVE Goal
    BY <1>1, <1>12 DEF vars, private
  <1>13. Goal
    BY <1>2, <1>4, <1>6, <1>7, <1>8, <1>9, <1>10, <1>11, <1>12
    DEF Next, Running, Over
  <1> QED BY <1>0, <1>13 DEF NameInvariant

\* A connection carries only a name that was proved with a key given to it, or
\* that the empty key asks no proof of.
THEOREM LoginNameIsProved == Spec => []NameIsProved
  <1>1. NameInvariant => NameIsProved BY DEF NameInvariant
  <1> QED BY <1>1, NameInit, NameNext, PTL DEF Spec

-----------------------------------------------------------------------------
(* GreetingDecides                                                           *)

\* A connection at a that has said hello, or is about to be greeted.
Greeted(d) == issued[d] # {} \/ \E t \in Threads : job[t].at = "greet" /\ job[t].conn = d
Witness(a) == \E d \in Conns : life[d] # "new" /\ addr[d] = a /\ Greeted(d)

\* The entry of an address stands for a hello from there, also when a race has
\* lost it since.
EntryMeansHello ==
    /\ \A a \in Addrs : logState[a] # "none" => Witness(a)
    /\ \A t \in Threads : job[t].at = "check" => Witness(addr[job[t].conn])

\* Until two threads meet in the map, every hello has its entry.
HelloHasEntry ==
    ~raced => \A d \in Conns : life[d] = "open" /\ Greeted(d) => logState[addr[d]] # "none"

Answered ==
    \A c \in Conns :
        /\ replies[c] \intersect {"LOGIN_SUCCEED", "PUBLIC_KEY_MISMATCH"} # {} => issued[c] # {}
        /\ "ignored" \in replies[c] => raced

CastExplained ==
    run = "bad_any_cast" =>
        \E c, d \in Conns :
            /\ life[c] = "open" /\ issued[c] = {}
            /\ life[d] = "gone" /\ issued[d] # {} /\ addr[d] = addr[c]

RepliesType == replies \in [Conns -> SUBSET {"server_hello", "LOGIN_SUCCEED", "PUBLIC_KEY_MISMATCH", "ignored"}]

NewIsSilent == \A c \in Conns : life[c] = "new" => issued[c] = {}

GreetingInvariant ==
    /\ NameInvariant /\ RepliesType /\ NewIsSilent
    /\ EntryMeansHello /\ HelloHasEntry /\ Answered /\ CastExplained

LEMMA GreetingInit == Init => GreetingInvariant
  <1> SUFFICES ASSUME Init PROVE GreetingInvariant
    OBVIOUS
  <1>1. RepliesType /\ NewIsSilent BY DEF Init, RepliesType, NewIsSilent
  <1>2. \A d \in Conns : ~Greeted(d) BY DEF Init, Greeted, NoJob
  <1>3. EntryMeansHello BY DEF Init, EntryMeansHello, NoJob
  <1>4. HelloHasEntry BY <1>2 DEF HelloHasEntry
  <1>5. Answered /\ CastExplained BY DEF Init, Answered, CastExplained
  <1> QED BY <1>1, <1>3, <1>4, <1>5, NameInit DEF GreetingInvariant

\* A step that takes nobody's greeting or address back keeps the witnesses.
Persists ==
    \A d \in Conns :
        /\ Greeted(d) => Greeted(d)'
        /\ life[d] # "new" => life'[d] # "new" /\ addr'[d] = addr[d]

LEMMA WitnessPersists ==
    ASSUME Persists, NEW a, Witness(a)
    PROVE  Witness(a)'
  <1>1. PICK d \in Conns : life[d] # "new" /\ addr[d] = a /\ Greeted(d) BY DEF Witness
  <1>2. life'[d] # "new" /\ addr'[d] = a /\ Greeted(d)' BY <1>1 DEF Persists
  <1> QED BY <1>2 DEF Witness

\* A step of thread t inside a handler: nobody else's job changes.
LEMMA OtherJobs ==
    ASSUME TypeOK, NEW t \in Threads, job[t].at # "idle",
           \/ job' = [job EXCEPT ![t] = NoJob]
           \/ job' = [job EXCEPT ![t].at = "greet"]
           \/ job' = [job EXCEPT ![t].at = "check"]
    PROVE  /\ \A u \in Threads : u # t => job'[u] = job[u]
           /\ job' = [job EXCEPT ![t] = NoJob] => job'[t] = NoJob
           /\ job' = [job EXCEPT ![t].at = "greet"]
              => job'[t].at = "greet" /\ job'[t].conn = job[t].conn
           /\ job' = [job EXCEPT ![t].at = "check"]
              => job'[t].at = "check" /\ job'[t].conn = job[t].conn
  <1>1. job \in [Threads -> Jobs] BY DEF TypeOK, Types
  <1>2. job[t] \in [at : {"index", "find", "greet", "check"}, conn : Conns,
                    cert : Certs \union {NoCert}, proof : Proofs]
    BY JobShape
  <1> QED BY <1>1, <1>2

\* The empty any of BadCast: c never said hello, so the entry is another's,
\* and that one is gone, since it had the address.
LEMMA CastFromReuse ==
    ASSUME GreetingInvariant, NEW t \in Threads, BadCast(t)
    PROVE  CastExplained'
  <1> DEFINE c == job[t].conn
  <1>0. TypeOK /\ KeyIssued /\ NewIsSilent BY DEF GreetingInvariant, NameInvariant
  <1>1. job[t].at = "check" /\ c \in Conns /\ life[c] = "open" /\ ThreadOf[c] = t
    BY <1>0, JobShape DEF BadCast
  <1>2. issued[c] = {} BY <1>0, <1>1 DEF BadCast, HasKey, KeyIssued
  <1>3. Witness(addr[c]) BY <1>1 DEF GreetingInvariant, EntryMeansHello
  <1>4. PICK d \in Conns : life[d] # "new" /\ addr[d] = addr[c] /\ Greeted(d)
    BY <1>3 DEF Witness
  <1>5. ASSUME NEW u \in Threads, job[u].at = "greet", job[u].conn = d
        PROVE  life[d] = "open" /\ ThreadOf[d] = u
    BY <1>0, <1>5, JobShape
  <1>6. d # c
    <2>1. SUFFICES ASSUME d = c PROVE FALSE OBVIOUS
    <2>2. PICK u \in Threads : job[u].at = "greet" /\ job[u].conn = c
      BY <1>2, <1>4, <2>1 DEF Greeted
    <2>3. u = t BY <1>1, <1>5, <2>1, <2>2
    <2> QED BY <1>1, <2>2, <2>3
  <1>7. life[d] # "open" BY <1>0, <1>1, <1>4, <1>6 DEF TypeOK, Apart
  <1>8. issued[d] # {} BY <1>4, <1>5, <1>7 DEF Greeted
  <1>9. life[d] = "gone" BY <1>0, <1>4, <1>7 DEF TypeOK, Types
  <1>10. UNCHANGED <<life, addr, issued>> BY DEF BadCast, Ends, conns, history
  <1> QED BY <1>1, <1>2, <1>4, <1>8, <1>9, <1>10 DEF CastExplained

LEMMA GreetingNext == GreetingInvariant /\ [Next]_vars => GreetingInvariant'
  <1> SUFFICES ASSUME GreetingInvariant, [Next]_vars PROVE GreetingInvariant'
    OBVIOUS
  <1> DEFINE Goal ==
               RepliesType' /\ NewIsSilent' /\ EntryMeansHello' /\ HelloHasEntry' /\ Answered'
  <1>0. TypeOK /\ TypeOK' /\ NameInvariant /\ NameInvariant'
    BY NameNext, TypeNext DEF GreetingInvariant, NameInvariant
  <1>1. ASSUME UNCHANGED <<life, addr, logState, job, issued, replies, raced>> PROVE Goal
    <2>1. RepliesType' /\ NewIsSilent' /\ Answered'
      BY <1>1 DEF GreetingInvariant, RepliesType, NewIsSilent, Answered
    <2>2. \A d \in Conns : Greeted(d)' <=> Greeted(d) BY <1>1 DEF Greeted
    <2>3. Persists BY <1>1, <2>2 DEF Persists
    <2>4. EntryMeansHello'
      BY <1>1, <2>3, WitnessPersists DEF GreetingInvariant, EntryMeansHello
    <2>5. HelloHasEntry' BY <1>1, <2>2 DEF GreetingInvariant, HelloHasEntry
    <2> QED BY <2>1, <2>4, <2>5
  <1>2. ASSUME NEW c \in Conns, Accept(c) PROVE Goal
    <2>1. UNCHANGED <<logState, job, issued, replies, raced>> /\ life[c] = "new"
          /\ life' = [life EXCEPT ![c] = "open"]
      BY <1>2 DEF Accept, history
    <2>2. \A d \in Conns : d # c => life'[d] = life[d] /\ addr'[d] = addr[d]
      BY <1>0, <1>2 DEF Accept, TypeOK, Types
    <2>3. \A d \in Conns : Greeted(d)' <=> Greeted(d) BY <2>1 DEF Greeted
    <2>4. Persists BY <1>0, <2>1, <2>2, <2>3 DEF Persists, TypeOK, Types
    <2>5. ~Greeted(c)
      BY <1>0, <2>1, JobShape DEF GreetingInvariant, NewIsSilent, Greeted
    <2>6. RepliesType' /\ Answered' BY <2>1 DEF GreetingInvariant, RepliesType, Answered
    <2>7. NewIsSilent' BY <1>0, <2>1, <2>2 DEF GreetingInvariant, NewIsSilent, TypeOK, Types
    <2>8. EntryMeansHello'
      <3>1. \A t \in Threads : job[t].at = "check" =>
              addr'[job[t].conn] = addr[job[t].conn]
        BY <1>0, <2>1, <2>2, JobShape
      <3> QED BY <2>1, <2>4, <3>1, WitnessPersists DEF GreetingInvariant, EntryMeansHello
    <2>9. HelloHasEntry' BY <2>1, <2>2, <2>3, <2>5 DEF GreetingInvariant, HelloHasEntry
    <2> QED BY <2>6, <2>7, <2>8, <2>9
  <1>3. ASSUME NEW c \in Conns, Leave(c) PROVE Goal
    <2>1. UNCHANGED <<addr, logState, job, issued, replies, raced>> /\ life[c] = "open"
      BY <1>3 DEF Leave, history
    <2>2. \A d \in Conns : life'[d] = IF d = c THEN "gone" ELSE life[d]
      BY <1>0, <1>3 DEF Leave, TypeOK, Types
    <2>3. \A d \in Conns : Greeted(d)' <=> Greeted(d) BY <2>1 DEF Greeted
    <2>4. Persists BY <2>1, <2>2, <2>3 DEF Persists
    <2>5. RepliesType' /\ Answered' BY <2>1 DEF GreetingInvariant, RepliesType, Answered
    <2>6. NewIsSilent' BY <2>1, <2>2 DEF GreetingInvariant, NewIsSilent
    <2>7. EntryMeansHello'
      BY <2>1, <2>4, WitnessPersists DEF GreetingInvariant, EntryMeansHello
    <2>8. HelloHasEntry' BY <2>1, <2>2, <2>3 DEF GreetingInvariant, HelloHasEntry
    <2> QED BY <2>5, <2>6, <2>7, <2>8
  <1>4. ASSUME NEW c \in Conns, NEW j, j.at \in {"index", "find"}, Handle(c, j) PROVE Goal
    <2>1. UNCHANGED <<life, addr, logState, issued, replies, raced>> /\ job[ThreadOf[c]] = NoJob
      BY <1>4 DEF Handle, conns, history
    <2>2. \A t \in Threads : job'[t] = job[t] \/ (job[t] = NoJob /\ job'[t] = j)
      BY <1>0, <1>4 DEF Handle, TypeOK, Types
    <2>3. \A t \in Threads : job[t].at \in {"greet", "check"} \/ job'[t].at \in {"greet", "check"}
              => job'[t] = job[t]
      BY <1>4, <2>2 DEF NoJob
    <2>4. \A d \in Conns : Greeted(d)' <=> Greeted(d) BY <2>1, <2>3 DEF Greeted
    <2>5. Persists BY <2>1, <2>4 DEF Persists
    <2>6. RepliesType' /\ NewIsSilent' /\ Answered'
      BY <2>1 DEF GreetingInvariant, RepliesType, NewIsSilent, Answered
    <2>7. EntryMeansHello'
      BY <2>1, <2>3, <2>5, WitnessPersists DEF GreetingInvariant, EntryMeansHello
    <2>8. HelloHasEntry' BY <2>1, <2>4 DEF GreetingInvariant, HelloHasEntry
    <2> QED BY <2>6, <2>7, <2>8
  <1>5. ASSUME NEW c \in Conns, HelloArrives(c) \/ LoginArrives(c) PROVE Goal
    <2>1. CASE HelloArrives(c)
      <3> DEFINE j == [NoJob EXCEPT !.at = "index", !.conn = c]
      <3>1. j.at = "index" BY DEF NoJob
      <3>2. Handle(c, j) BY <2>1 DEF HelloArrives
      <3> HIDE DEF j
      <3> QED BY <1>4, <3>1, <3>2
    <2>2. CASE LoginArrives(c)
      <3>1. PICK x \in Certs \union {NoCert}, p \in signed \union {NothingSigned, Unreadable} :
                Handle(c, [at |-> "find", conn |-> c, cert |-> x, proof |-> p])
        BY <2>2 DEF LoginArrives
      <3> DEFINE j == [at |-> "find", conn |-> c, cert |-> x, proof |-> p]
      <3>2. j.at = "find" /\ Handle(c, j) BY <3>1
      <3> HIDE DEF j
      <3> QED BY <1>4, <3>2
    <2> QED BY <1>5, <2>1, <2>2
  <1>6. ASSUME NEW t \in Threads, Index(t) PROVE Goal
    <2> DEFINE c == job[t].conn
    <2>1. UNCHANGED <<life, addr, issued, replies>> /\ raced' = (raced \/ Race(t))
          /\ job' = [job EXCEPT ![t].at = "greet"] /\ job[t].at = "index"
      BY <1>6 DEF Index, conns
    <2>2. PICK lost \in SUBSET Addrs :
            /\ lost # {} => Race(t)
            /\ logState' = [a \in Addrs |->
                  IF a \in lost THEN "none" ELSE IF a = addr[c] THEN "hello" ELSE logState[a]]
      BY <1>6 DEF Index, Entry
    <2>3. /\ \A u \in Threads : u # t => job'[u] = job[u]
          /\ job'[t].at = "greet" /\ job'[t].conn = c
      BY <1>0, <2>1, OtherJobs
    <2>4. c \in Conns /\ life[c] = "open" /\ addr[c] \in Addrs BY <1>0, <2>1, JobShape
    <2>5. \A d \in Conns : Greeted(d)' <=> Greeted(d) \/ d = c BY <2>1, <2>3 DEF Greeted
    <2>6. Persists BY <2>1, <2>5 DEF Persists
    <2>8. RepliesType' /\ NewIsSilent' BY <2>1 DEF GreetingInvariant, RepliesType, NewIsSilent
    <2>9. Answered' BY <2>1 DEF GreetingInvariant, Answered
    <2>10. EntryMeansHello'
      <3>1. ASSUME NEW a \in Addrs, logState'[a] # "none" PROVE Witness(a)'
        <4>1. CASE a = addr[c] BY <2>1, <2>4, <2>5, <4>1 DEF Witness
        <4>2. CASE a # addr[c]
          <5>1. logState[a] # "none" BY <2>2, <3>1, <4>2
          <5>2. Witness(a) BY <5>1 DEF GreetingInvariant, EntryMeansHello
          <5> QED BY <2>6, <5>2, WitnessPersists
        <4> QED BY <4>1, <4>2
      <3>2. ASSUME NEW u \in Threads, job'[u].at = "check"
            PROVE  \E d \in Conns :
                     life'[d] # "new" /\ addr'[d] = addr[job[u].conn] /\ Greeted(d)'
        <4>1. job[u].at = "check" BY <2>3, <3>2
        <4>2. PICK d \in Conns :
                life[d] # "new" /\ addr[d] = addr[job[u].conn] /\ Greeted(d)
          BY <4>1 DEF GreetingInvariant, EntryMeansHello, Witness
        <4> QED BY <2>1, <2>5, <4>2
      <3>3. \A u \in Threads : job'[u].at = "check" => job'[u] = job[u] BY <2>3
      <3> QED BY <2>1, <3>1, <3>2, <3>3 DEF EntryMeansHello, Witness
    <2>11. HelloHasEntry'
      <3>1. SUFFICES ASSUME ~raced', NEW d \in Conns, life[d] = "open", Greeted(d)'
                     PROVE  logState'[addr[d]] # "none"
        BY <2>1 DEF HelloHasEntry
      <3>2. ~raced /\ lost = {} BY <2>1, <2>2, <3>1
      <3>3. addr[d] \in Addrs BY <1>0, <3>1 DEF TypeOK, Apart
      <3>4. d = c \/ logState[addr[d]] # "none"
        BY <2>5, <3>1, <3>2 DEF GreetingInvariant, HelloHasEntry
      <3> QED BY <2>2, <3>2, <3>3, <3>4
    <2> QED BY <2>8, <2>9, <2>10, <2>11
  <1>7. ASSUME NEW t \in Threads, Find(t) PROVE Goal
    <2> DEFINE c == job[t].conn
    <2>1. UNCHANGED <<life, addr, logState, issued, replies>> /\ raced' = (raced \/ Race(t))
          /\ job' = [job EXCEPT ![t].at = "check"] /\ job[t].at = "find"
          /\ logState[addr[c]] # "none"
      BY <1>7 DEF Find, conns, Entry
    <2>2. /\ \A u \in Threads : u # t => job'[u] = job[u]
          /\ job'[t].at = "check" /\ job'[t].conn = c
      BY <1>0, <2>1, OtherJobs
    <2>3. \A d \in Conns : Greeted(d)' <=> Greeted(d) BY <2>1, <2>2 DEF Greeted
    <2>4. Persists BY <2>1, <2>3 DEF Persists
    <2>5. addr[c] \in Addrs BY <1>0, <2>1, JobShape
    <2>6. RepliesType' /\ NewIsSilent' BY <2>1 DEF GreetingInvariant, RepliesType, NewIsSilent
    <2>7. Answered' BY <2>1 DEF GreetingInvariant, Answered
    <2>8. EntryMeansHello'
      BY <2>1, <2>2, <2>4, <2>5, WitnessPersists DEF GreetingInvariant, EntryMeansHello
    <2>9. HelloHasEntry' BY <2>1, <2>3 DEF GreetingInvariant, HelloHasEntry
    <2> QED BY <2>6, <2>7, <2>8, <2>9
  <1>8. ASSUME NEW t \in Threads, job' = [job EXCEPT ![t] = NoJob], job[t].at \in {"find", "check"},
               UNCHANGED <<life, addr, issued>>
        PROVE  /\ \A d \in Conns : Greeted(d)' <=> Greeted(d)
               /\ Persists
               /\ \A u \in Threads : job'[u].at = "check" => job'[u] = job[u]
    <2>1. (\A u \in Threads : u # t => job'[u] = job[u]) /\ job'[t] = NoJob
      BY <1>0, <1>8, OtherJobs
    <2>2. \A d \in Conns : Greeted(d)' <=> Greeted(d) BY <1>8, <2>1 DEF Greeted, NoJob
    <2> QED BY <1>8, <2>1, <2>2 DEF Persists, NoJob
  <1>9. ASSUME NEW t \in Threads, FindNothing(t) PROVE Goal
    <2> DEFINE c == job[t].conn
    <2>1. UNCHANGED <<life, addr, logState, issued>> /\ raced' = (raced \/ Race(t))
          /\ job' = [job EXCEPT ![t] = NoJob] /\ job[t].at = "find"
          /\ (logState[addr[c]] = "none" \/ Race(t))
          /\ replies' = IF issued[c] = {} THEN replies
                        ELSE [replies EXCEPT ![c] = @ \union {"ignored"}]
      BY <1>9 DEF FindNothing, conns, Entry
    <2>2. c \in Conns /\ life[c] = "open" BY <1>0, <2>1, JobShape
    <2>3. issued[c] # {} => raced'
      BY <2>1, <2>2 DEF GreetingInvariant, HelloHasEntry, Greeted
    <2>4. RepliesType' BY <2>1 DEF GreetingInvariant, RepliesType
    <2>5. \A d \in Conns : replies'[d] = replies[d] \/
            (d = c /\ issued[c] # {} /\ replies'[d] = replies[d] \union {"ignored"})
      BY <2>1 DEF GreetingInvariant, RepliesType
    <2>6. Answered' BY <2>1, <2>3, <2>5 DEF GreetingInvariant, Answered
    <2>7. NewIsSilent' BY <2>1 DEF GreetingInvariant, NewIsSilent
    <2>8. EntryMeansHello'
      BY <1>8, <2>1, WitnessPersists DEF GreetingInvariant, EntryMeansHello
    <2>9. HelloHasEntry' BY <1>8, <2>1 DEF GreetingInvariant, HelloHasEntry
    <2> QED BY <2>4, <2>6, <2>7, <2>8, <2>9
  <1>10. ASSUME NEW t \in Threads, Greet(t) PROVE Goal
    <2> DEFINE c == job[t].conn
    <2>1. UNCHANGED <<life, addr, logState, raced>> /\ job[t].at = "greet"
          /\ job' = [job EXCEPT ![t] = NoJob]
          /\ replies' = [replies EXCEPT ![c] = @ \union {"server_hello"}]
      BY <1>10 DEF Greet, conns
    <2>2. PICK k \in Keys : issued' = [issued EXCEPT ![c] = @ \union {k}]
      BY <1>10 DEF Greet
    <2>3. c \in Conns /\ life[c] = "open" BY <1>0, <2>1, JobShape
    <2>4. \A d \in Conns : issued'[d] = IF d = c THEN issued[d] \union {k} ELSE issued[d]
      BY <1>0, <2>2 DEF TypeOK, Types
    <2>5. (\A u \in Threads : u # t => job'[u] = job[u]) /\ job'[t] = NoJob
      BY <1>0, <2>1, OtherJobs
    <2>6. ASSUME NEW d \in Conns PROVE Greeted(d)' <=> Greeted(d)
      <3>1. CASE d = c
        <4>1. Greeted(d) BY <2>1, <3>1 DEF Greeted
        <4>2. issued'[d] # {} BY <2>4, <3>1
        <4> QED BY <4>1, <4>2 DEF Greeted
      <3>2. CASE d # c
        <4>1. issued'[d] = issued[d] BY <2>4, <3>2
        <4>2. \A u \in Threads : job'[u].at = "greet" /\ job'[u].conn = d
                                 <=> job[u].at = "greet" /\ job[u].conn = d
          BY <2>5, <3>2 DEF NoJob
        <4> QED BY <4>1, <4>2 DEF Greeted
      <3> QED BY <3>1, <3>2
    <2>7. Persists BY <2>1, <2>6 DEF Persists
    <2>8. RepliesType' BY <2>1 DEF GreetingInvariant, RepliesType
    <2>9. \A d \in Conns : \A w \in {"LOGIN_SUCCEED", "PUBLIC_KEY_MISMATCH", "ignored"} :
            w \in replies'[d] => w \in replies[d]
      BY <2>1 DEF GreetingInvariant, RepliesType
    <2>10. Answered' BY <2>1, <2>4, <2>9 DEF GreetingInvariant, Answered
    <2>11. NewIsSilent' BY <2>1, <2>3, <2>4 DEF GreetingInvariant, NewIsSilent
    <2>12. EntryMeansHello'
      BY <2>1, <2>5, <2>7, WitnessPersists DEF GreetingInvariant, EntryMeansHello, NoJob
    <2>13. HelloHasEntry' BY <2>1, <2>6 DEF GreetingInvariant, HelloHasEntry
    <2> QED BY <2>8, <2>10, <2>11, <2>12, <2>13
  <1>11. ASSUME NEW t \in Threads, Check(t) PROVE Goal
    <2> DEFINE c == job[t].conn
    <2>1. UNCHANGED <<life, addr, issued, raced>> /\ job[t].at = "check"
          /\ job' = [job EXCEPT ![t] = NoJob] /\ HasKey(c)
      BY <1>11 DEF Check, conns
    <2>2. PICK w \in {"LOGIN_SUCCEED", "PUBLIC_KEY_MISMATCH"} :
            replies' = [replies EXCEPT ![c] = @ \union {w}]
      BY <1>11 DEF Check
    <2>3. \A a \in Addrs : logState'[a] = "none" <=> logState[a] = "none"
      BY <1>11 DEF Check
    <2>4. c \in Conns BY <1>0, <2>1, JobShape
    <2>5. issued[c] # {}
      <3>1. KeyIssued BY <1>0 DEF NameInvariant
      <3> QED BY <2>1, <2>4, <3>1 DEF KeyIssued, HasKey
    <2>6. RepliesType'
      <3> DEFINE W == {"server_hello", "LOGIN_SUCCEED", "PUBLIC_KEY_MISMATCH", "ignored"}
      <3>1. w \in W BY <2>2
      <3>2. replies \in [Conns -> SUBSET W] BY DEF GreetingInvariant, RepliesType
      <3> HIDE DEF W
      <3>3. replies' \in [Conns -> SUBSET W] BY <2>2, <3>1, <3>2
      <3> QED BY <3>3 DEF RepliesType, W
    <2>7. \A d \in Conns :
            /\ "ignored" \in replies'[d] => "ignored" \in replies[d]
            /\ d # c => replies'[d] = replies[d]
      BY <2>2 DEF GreetingInvariant, RepliesType
    <2>8. Answered' BY <2>1, <2>5, <2>7 DEF GreetingInvariant, Answered
    <2>9. NewIsSilent' BY <2>1 DEF GreetingInvariant, NewIsSilent
    <2>10. EntryMeansHello'
      BY <1>8, <2>1, <2>3, WitnessPersists DEF GreetingInvariant, EntryMeansHello
    <2>11. HelloHasEntry'
      BY <1>0, <1>8, <2>1, <2>3 DEF GreetingInvariant, HelloHasEntry, TypeOK, Apart
    <2> QED BY <2>6, <2>8, <2>9, <2>10, <2>11
  <1>12. ASSUME NEW c \in Conns, NEW u \in Users, Sign(u, c) PROVE Goal
    BY <1>1, <1>12 DEF Sign, conns, history
  <1>13. ASSUME NEW t \in Threads, NullPointer(t) \/ BadCast(t) \/ LengthError(t) \/ Crash(t)
         PROVE  Goal
    BY <1>1, <1>13 DEF NullPointer, BadCast, LengthError, Crash, Ends, conns, history
  <1>14. ASSUME Quit \/ StopServices PROVE Goal
    BY <1>1, <1>14 DEF Quit, StopServices, Ends, conns, history
  <1>15. ASSUME UNCHANGED vars PROVE Goal
    BY <1>1, <1>15 DEF vars, conns
  <1>16. Goal
    BY <1>2, <1>3, <1>5, <1>6, <1>7, <1>9, <1>10, <1>11, <1>12, <1>13, <1>14, <1>15
    DEF Next, Running, Over
  <1>17. CastExplained'
    <2>1. CASE UNCHANGED vars
      BY <2>1 DEF vars, conns, GreetingInvariant, CastExplained
    <2>2. CASE \E t \in Threads : BadCast(t) BY <2>2, CastFromReuse
    <2>3. CASE Running /\ ~\E t \in Threads : BadCast(t)
      <3>1. run' # "bad_any_cast"
        BY <2>3 DEF Running, Accept, Leave, Sign, HelloArrives, LoginArrives, Handle, Index, Find,
             FindNothing, Greet, Check, NullPointer, LengthError, Crash, Ends, Quit, StopServices
      <3> QED BY <3>1 DEF CastExplained
    <2> QED BY <2>1, <2>2, <2>3 DEF Next, Over
  <1> QED BY <1>0, <1>16, <1>17 DEF GreetingInvariant

\* No result without a hello on the same connection, no silence after one but
\* for a race, and no failed cast but for an address that is used again.
THEOREM LoginGreetingDecides == Spec => []GreetingDecides
  <1>1. GreetingInvariant => GreetingDecides
    BY DEF GreetingInvariant, Answered, CastExplained, GreetingDecides
  <1> QED BY <1>1, GreetingInit, GreetingNext, PTL DEF Spec
=============================================================================

------------------------ MODULE ClientMessages_proofs ------------------------
(***************************************************************************)
(* Proofs about the wire format of all message classes and about the       *)
(* stream: Framing's for every parser, serializer, number of frames and    *)
(* length, WireFormat's for every class and all bytes there are.           *)
(***************************************************************************)
EXTENDS ClientMessages, FiniteSetTheorems, SequenceTheorems, WellFoundedInduction, TLAPS

-----------------------------------------------------------------------------
(* Induction over a set of numbers, and over the sequences of a set.         *)

\* What holds of 0 and of n + 1 with n, up to N, holds up to N.
LEMMA Induction ==
    ASSUME NEW N \in Nat, NEW A, 0 \in A, \A n \in 0 .. N - 1 : n \in A => n + 1 \in A
    PROVE  \A n \in 0 .. N : n \in A
  <1> DEFINE missing == {n \in 0 .. N : n \notin A}
  <1> SUFFICES ASSUME missing # {} PROVE FALSE
    OBVIOUS
  <1>1. \E x \in missing : \A y \in missing : ~(<<y, x>> \in OpToRel(<, Nat))
    <2>1. missing \subseteq Nat
      OBVIOUS
    <2> HIDE DEF missing
    <2> QED
      BY <2>1, NatLessThanWellFounded, WFMin
  <1>2. PICK x \in missing : \A y \in missing : ~(<<y, x>> \in OpToRel(<, Nat))
    BY <1>1
  <1>3. \A y \in missing : ~(y < x)
    <2>1. \A y, z \in Nat : y < z => <<y, z>> \in OpToRel(<, Nat)
      BY DEF OpToRel
    <2>2. \A y \in missing : y \in Nat
      OBVIOUS
    <2> HIDE DEF missing
    <2> QED
      BY <1>2, <2>1, <2>2
  <1>4. x # 0 /\ x - 1 \in 0 .. N - 1 /\ x \in 0 .. N
    OBVIOUS
  <1>5. x - 1 \notin missing
    BY <1>3, <1>4
  <1>6. x - 1 \in A
    BY <1>4, <1>5
  <1>7. (x - 1) + 1 \in A
    BY <1>4, <1>6
  <1> QED
    BY <1>4, <1>7

\* The last element apart.
LEMMA SplitLast ==
    ASSUME NEW S, NEW s \in Seq(S), s # <<>>
    PROVE  /\ Len(s) \in Nat \ {0} /\ s[Len(s)] \in S
           /\ SubSeq(s, 1, Len(s) - 1) \in Seq(S)
           /\ Len(SubSeq(s, 1, Len(s) - 1)) = Len(s) - 1
           /\ s = Append(SubSeq(s, 1, Len(s) - 1), s[Len(s)])
  <1>1. PICK t \in Seq(S), e \in S : s = Append(t, e)
    BY SequenceEmptyOrAppend
  <1>2. Len(t) \in Nat /\ Len(s) = Len(t) + 1 /\ s[Len(s)] = e
    BY <1>1, AppendProperties, LenProperties
  <1>3. \A i \in 1 .. Len(t) : s[i] = t[i] /\ s[i] \in S
    BY <1>1, AppendProperties, ElementOfSeq
  <1>4. Len(s) - 1 = Len(t)
    BY <1>2
  <1> DEFINE u == SubSeq(s, 1, Len(t))
  <1>5. u \in Seq(S)
    BY <1>2, <1>3, SubSeqProperties
  <1>6. Len(u) = Len(t)
    <2>1. Len(u) = IF 1 <= Len(t) THEN Len(t) - 1 + 1 ELSE 0
      BY <1>2, <1>3, SubSeqProperties
    <2> QED
      BY <1>2, <2>1
  <1>7. \A i \in 1 .. Len(t) : u[i] = t[i]
    <2>1. \A i \in 1 .. Len(t) - 1 + 1 : u[i] = s[1 + i - 1]
      BY <1>2, <1>3, SubSeqProperties
    <2> QED
      BY <1>2, <1>3, <2>1
  <1> HIDE DEF u
  <1>8. u = t
    BY <1>5, <1>6, <1>7, SeqEqual
  <1> QED
    BY <1>1, <1>2, <1>4, <1>5, <1>6, <1>8 DEF u

\* What holds of the empty sequence and goes on with every element, holds of
\* all.
LEMMA SeqInduction ==
    ASSUME NEW S, NEW A, <<>> \in A,
           \A s \in Seq(S), e \in S : s \in A => Append(s, e) \in A
    PROVE  \A s \in Seq(S) : s \in A
  <1> SUFFICES ASSUME NEW s0 \in Seq(S) PROVE s0 \in A
    OBVIOUS
  <1> DEFINE B == {n \in Nat : \A s \in Seq(S) : Len(s) = n => s \in A}
  <1>1. 0 \in B
    BY EmptySeq
  <1>2. ASSUME NEW n \in Nat, n \in B PROVE n + 1 \in B
    <2> SUFFICES ASSUME NEW s \in Seq(S), Len(s) = n + 1 PROVE s \in A
      OBVIOUS
    <2>1. s # <<>>
      BY EmptySeq
    <2> DEFINE t == SubSeq(s, 1, Len(s) - 1)
    <2>2. t \in Seq(S) /\ Len(t) = n /\ s = Append(t, s[Len(s)]) /\ s[Len(s)] \in S
      BY <2>1, SplitLast
    <2>3. t \in A
      BY <1>2, <2>2
    <2> QED
      BY <2>2, <2>3
  <1>3. Len(s0) \in Nat
    BY LenProperties
  <1> HIDE DEF B
  <1>4. \A n \in 0 .. Len(s0) : n \in B
    BY <1>1, <1>2, <1>3, Induction
  <1> QED
    BY <1>3, <1>4 DEF B

-----------------------------------------------------------------------------
(* The reading loop.                                                         *)

\* The states after each field, which the recursive function of the loop gives.
LEMMA ReadStates ==
    ASSUME NEW T, NEW m, NEW S, NEW a \in Seq(S)
    PROVE  \E f : /\ f[0] = State("reading", m)
                  /\ \A i \in 1 .. Len(a) : f[i] = ReadNext(T, f[i - 1], a[i])
                  /\ MergePartialFromCodedStream(T, m, a) = f[Len(a)]
  <1> DEFINE Eq(f, n) ==
          f = [i \in 0 .. n |->
                IF i = 0 THEN State("reading", m) ELSE ReadNext(T, f[i - 1], a[i])]
             A == {n \in 0 .. Len(a) : \E f : Eq(f, n)}
  <1>1. Len(a) \in Nat
    BY LenProperties
  <1>2. 0 \in A
    <2> DEFINE f == [i \in 0 .. 0 |-> State("reading", m)]
    <2>1. Eq(f, 0)
      OBVIOUS
    <2> HIDE DEF Eq, f
    <2>2. \E g : Eq(g, 0)
      BY <2>1
    <2> QED
      BY <1>1, <2>2
  <1>3. ASSUME NEW n \in 0 .. Len(a) - 1, n \in A PROVE n + 1 \in A
    <2>1. PICK f : Eq(f, n)
      BY <1>3
    <2> DEFINE g == [i \in 0 .. n + 1 |-> IF i <= n THEN f[i] ELSE ReadNext(T, f[n], a[n + 1])]
    <2>2. \A i \in 0 .. n : f[i] =
            IF i = 0 THEN State("reading", m) ELSE ReadNext(T, f[i - 1], a[i])
      BY <2>1
    <2>3. \A i \in 0 .. n + 1 : g[i] =
            IF i = 0 THEN State("reading", m) ELSE ReadNext(T, g[i - 1], a[i])
      <3> SUFFICES ASSUME NEW i \in 0 .. n + 1
                   PROVE  g[i] = IF i = 0 THEN State("reading", m) ELSE ReadNext(T, g[i - 1], a[i])
        OBVIOUS
      <3>1. CASE i <= n
        BY <2>2, <3>1
      <3>2. CASE i = n + 1
        BY <3>2
      <3> QED
        BY <3>1, <3>2
    <2>4. g = [i \in 0 .. n + 1 |-> g[i]]
      OBVIOUS
    <2> HIDE DEF g
    <2>5. Eq(g, n + 1)
      BY <2>3, <2>4
    <2> QED
      BY <1>1, <2>5
  <1>4. Len(a) \in A
    <2> HIDE DEF A
    <2>1. \A n \in 0 .. Len(a) : n \in A
      BY <1>1, <1>2, <1>3, Induction
    <2> QED
      BY <1>1, <2>1
  <1> DEFINE after == CHOOSE f : Eq(f, Len(a))
  <1>5. Eq(after, Len(a))
    BY <1>4
  <1>6. MergePartialFromCodedStream(T, m, a) = after[Len(a)]
    BY DEF MergePartialFromCodedStream
  <1> HIDE DEF after
  <1>7. \A i \in 0 .. Len(a) : after[i] =
          IF i = 0 THEN State("reading", m) ELSE ReadNext(T, after[i - 1], a[i])
    BY <1>5
  <1>8. after[0] = State("reading", m)
    BY <1>1, <1>7
  <1>9. \A i \in 1 .. Len(a) : after[i] = ReadNext(T, after[i - 1], a[i])
    BY <1>1, <1>7
  <1> QED
    BY <1>6, <1>8, <1>9

\* The loop does not turn for an input without fields.
LEMMA ReadNone ==
    ASSUME NEW T, NEW m, NEW S, NEW a \in Seq(S)
    PROVE  Len(a) = 0 => MergePartialFromCodedStream(T, m, a) = State("reading", m)
  <1>1. PICK f : /\ f[0] = State("reading", m)
                 /\ \A i \in 1 .. Len(a) : f[i] = ReadNext(T, f[i - 1], a[i])
                 /\ MergePartialFromCodedStream(T, m, a) = f[Len(a)]
    BY ReadStates
  <1> QED
    BY <1>1

\* The same of the empty sequence itself.
LEMMA ReadNothing ==
    ASSUME NEW T, NEW m
    PROVE  MergePartialFromCodedStream(T, m, <<>>) = State("reading", m)
  <1> DEFINE a == <<>>
  <1>1. a \in Seq({}) /\ Len(a) = 0
    BY EmptySeq
  <1> HIDE DEF a
  <1>2. MergePartialFromCodedStream(T, m, a) = State("reading", m)
    BY <1>1, ReadNone
  <1> QED
    BY <1>2 DEF a

\* The last turn of the loop apart.
LEMMA ReadOneMore ==
    ASSUME NEW T, NEW m, NEW S, NEW a \in Seq(S), NEW x \in S
    PROVE  MergePartialFromCodedStream(T, m, Append(a, x))
             = ReadNext(T, MergePartialFromCodedStream(T, m, a), x)
  <1> DEFINE b == Append(a, x)
  <1>1. b \in Seq(S) /\ Len(b) = Len(a) + 1 /\ Len(a) \in Nat
    BY AppendProperties, LenProperties
  <1>2. b[Len(a) + 1] = x /\ \A i \in 1 .. Len(a) : b[i] = a[i]
    BY AppendProperties
  <1> HIDE DEF b
  <1>3. PICK f : /\ f[0] = State("reading", m)
                 /\ \A i \in 1 .. Len(a) : f[i] = ReadNext(T, f[i - 1], a[i])
                 /\ MergePartialFromCodedStream(T, m, a) = f[Len(a)]
    BY ReadStates
  <1>4. PICK g : /\ g[0] = State("reading", m)
                 /\ \A i \in 1 .. Len(b) : g[i] = ReadNext(T, g[i - 1], b[i])
                 /\ MergePartialFromCodedStream(T, m, b) = g[Len(b)]
    BY <1>1, ReadStates
  <1> DEFINE A == {n \in 0 .. Len(a) : f[n] = g[n]}
  <1>5. 0 \in A
    BY <1>1, <1>3, <1>4
  <1>6. ASSUME NEW n \in 0 .. Len(a) - 1, n \in A PROVE n + 1 \in A
    <2>1. n + 1 \in 1 .. Len(a) /\ n + 1 \in 1 .. Len(b) /\ (n + 1) - 1 = n
      BY <1>1
    <2>2. f[n + 1] = ReadNext(T, f[n], a[n + 1])
      BY <1>3, <2>1
    <2>3. g[n + 1] = ReadNext(T, g[n], b[n + 1])
      BY <1>4, <2>1
    <2> QED
      BY <1>1, <1>2, <1>6, <2>1, <2>2, <2>3
  <1>7. Len(a) \in A
    <2> HIDE DEF A
    <2>1. \A n \in 0 .. Len(a) : n \in A
      BY <1>1, <1>5, <1>6, Induction
    <2> QED
      BY <1>1, <2>1
  <1>8. g[Len(a) + 1] = ReadNext(T, g[Len(a)], x)
    <2>1. Len(a) + 1 \in 1 .. Len(b) /\ (Len(a) + 1) - 1 = Len(a)
      BY <1>1
    <2> QED
      BY <1>2, <1>4, <2>1
  <1> QED
    BY <1>1, <1>3, <1>4, <1>7, <1>8 DEF b

IsState(st) == st = State(st.how, st.msg)

\* The parts of a state of the loop.
LEMMA StateIs ==
    ASSUME NEW h, NEW m
    PROVE  IsState(State(h, m)) /\ State(h, m).how = h /\ State(h, m).msg = m
  BY DEF State, IsState

\* Every turn of the loop gives a state.
LEMMA ReadNextIsState ==
    ASSUME NEW T, NEW st, IsState(st), NEW wf
    PROVE  IsState(ReadNext(T, st, wf))
  <1>1. IsState(Failed)
    BY StateIs DEF Failed
  <1>2. IsState(HandleUnusual(st.msg, wf))
    BY <1>1, StateIs DEF HandleUnusual
  <1>3. IsState(ReadField(T, st.msg, wf))
    BY <1>1, StateIs DEF ReadField
  <1> QED
    BY <1>2, <1>3 DEF ReadNext

\* And so does the loop.
LEMMA ReadIsState ==
    ASSUME NEW T, NEW m, NEW S, NEW a \in Seq(S)
    PROVE  IsState(MergePartialFromCodedStream(T, m, a))
  <1> DEFINE A == {s \in Seq(S) : IsState(MergePartialFromCodedStream(T, m, s))}
  <1>1. <<>> \in A
    BY EmptySeq, ReadNothing, StateIs
  <1>2. ASSUME NEW s \in Seq(S), NEW e \in S, s \in A PROVE Append(s, e) \in A
    BY <1>2, ReadOneMore, ReadNextIsState, AppendProperties
  <1> HIDE DEF A
  <1>3. \A s \in Seq(S) : s \in A
    BY <1>1, <1>2, SeqInduction
  <1> QED
    BY <1>3 DEF A

\* Reading goes on where it was.
LEMMA ReadOn ==
    ASSUME NEW T, NEW m, NEW S, NEW a \in Seq(S), NEW b \in Seq(S)
    PROVE  LET st == MergePartialFromCodedStream(T, m, a)
           IN  MergePartialFromCodedStream(T, m, a \o b)
                 = IF st.how = "reading" THEN MergePartialFromCodedStream(T, st.msg, b) ELSE st
  <1> DEFINE st == MergePartialFromCodedStream(T, m, a)
             On(s) == IF st.how = "reading" THEN MergePartialFromCodedStream(T, st.msg, s) ELSE st
             A == {s \in Seq(S) : MergePartialFromCodedStream(T, m, a \o s) = On(s)}
  <1>1. st.how = "reading" => st = State("reading", st.msg)
    BY ReadIsState DEF IsState
  <1>2. <<>> \in A
    <2>1. a \o <<>> = a /\ <<>> \in Seq(S)
      BY ConcatEmptySeq, EmptySeq
    <2>2. On(<<>>) = st
      BY <1>1, ReadNothing
    <2> QED
      BY <2>1, <2>2
  <1>3. ASSUME NEW s \in Seq(S), NEW e \in S, s \in A PROVE Append(s, e) \in A
    <2> DEFINE c == a \o s
               d == Append(c, e)
    <2>1. a \o Append(s, e) = d /\ c \in Seq(S) /\ d \in Seq(S) /\ Append(s, e) \in Seq(S)
      BY ConcatProperties, AppendProperties
    <2>2. MergePartialFromCodedStream(T, m, c) = On(s)
      BY <1>3
    <2> HIDE DEF c
    <2>3. MergePartialFromCodedStream(T, m, a \o Append(s, e)) = ReadNext(T, On(s), e)
      BY <2>1, <2>2, ReadOneMore
    <2>4. ReadNext(T, On(s), e) = On(Append(s, e))
      <3>1. CASE st.how = "reading"
        BY <3>1, ReadOneMore
      <3>2. CASE st.how # "reading"
        BY <3>2 DEF ReadNext
      <3> QED
        BY <3>1, <3>2
    <2> QED
      BY <2>1, <2>3, <2>4
  <1> HIDE DEF A
  <1>4. \A s \in Seq(S) : s \in A
    BY <1>2, <1>3, SeqInduction
  <1> QED
    BY <1>4 DEF A

-----------------------------------------------------------------------------
(* Sequences one after the other.                                            *)

\* The sequences behind each other, one by one: what FlattenSeq's recursive
\* function gives.
LEMMA FlattenStates ==
    ASSUME NEW S, NEW ss \in Seq(S)
    PROVE  Len(ss) > 0 =>
             \E f : /\ f[1] = ss[1]
                    /\ \A i \in 2 .. Len(ss) : f[i] = f[i - 1] \o ss[i]
                    /\ FlattenSeq(ss) = f[Len(ss)]
  <1> SUFFICES ASSUME Len(ss) > 0
               PROVE  \E f : /\ f[1] = ss[1]
                             /\ \A i \in 2 .. Len(ss) : f[i] = f[i - 1] \o ss[i]
                             /\ FlattenSeq(ss) = f[Len(ss)]
    OBVIOUS
  <1> DEFINE Eq(f, n) == f = [i \in 1 .. n |-> IF i = 1 THEN ss[i] ELSE f[i - 1] \o ss[i]]
             A == {n \in 0 .. Len(ss) - 1 : \E f : Eq(f, n + 1)}
  <1>1. Len(ss) \in Nat \ {0} /\ Len(ss) - 1 \in Nat
    BY LenProperties
  <1>2. 0 \in A
    <2> DEFINE f == [i \in 1 .. 1 |-> ss[1]]
    <2>1. Eq(f, 0 + 1)
      OBVIOUS
    <2> HIDE DEF Eq, f
    <2>2. \E g : Eq(g, 0 + 1)
      BY <2>1
    <2> QED
      BY <1>1, <2>2
  <1>3. ASSUME NEW n \in 0 .. (Len(ss) - 1) - 1, n \in A PROVE n + 1 \in A
    <2>1. PICK f : Eq(f, n + 1)
      BY <1>3
    <2> DEFINE g == [i \in 1 .. n + 2 |-> IF i <= n + 1 THEN f[i] ELSE f[n + 1] \o ss[n + 2]]
    <2>2. \A i \in 1 .. n + 1 : f[i] = IF i = 1 THEN ss[i] ELSE f[i - 1] \o ss[i]
      BY <2>1
    <2>3. \A i \in 1 .. n + 2 : g[i] = IF i = 1 THEN ss[i] ELSE g[i - 1] \o ss[i]
      <3> SUFFICES ASSUME NEW i \in 1 .. n + 2
                   PROVE  g[i] = IF i = 1 THEN ss[i] ELSE g[i - 1] \o ss[i]
        OBVIOUS
      <3>1. CASE i <= n + 1
        <4>1. g[i] = f[i] /\ (i # 1 => g[i - 1] = f[i - 1])
          BY <3>1
        <4> QED
          BY <2>2, <3>1, <4>1
      <3>2. CASE i = n + 2
        <4>1. i \in 1 .. n + 2 /\ i - 1 \in 1 .. n + 2 /\ i - 1 = n + 1 /\ ~(i <= n + 1) /\ i # 1
          BY <3>2
        <4>2. g[i] = f[n + 1] \o ss[n + 2]
          BY <4>1
        <4>3. g[i - 1] = f[n + 1]
          BY <4>1
        <4> QED
          BY <3>2, <4>1, <4>2, <4>3
      <3> QED
        BY <3>1, <3>2
    <2>4. g = [i \in 1 .. n + 2 |-> g[i]]
      OBVIOUS
    <2> HIDE DEF g
    <2>5. Eq(g, (n + 1) + 1)
      <3>1. n + 2 = (n + 1) + 1
        OBVIOUS
      <3>2. [i \in 1 .. n + 2 |-> g[i]]
              = [i \in 1 .. n + 2 |-> IF i = 1 THEN ss[i] ELSE g[i - 1] \o ss[i]]
        BY <2>3
      <3> QED
        BY <2>4, <3>1, <3>2
    <2> HIDE DEF Eq
    <2>6. \E h : Eq(h, (n + 1) + 1)
      BY <2>5
    <2> QED
      BY <1>1, <2>6
  <1>4. Len(ss) - 1 \in A
    <2> HIDE DEF A
    <2>1. \A n \in 0 .. Len(ss) - 1 : n \in A
      BY <1>1, <1>2, <1>3, Induction
    <2> QED
      BY <1>1, <2>1
  <1> DEFINE flat == CHOOSE f : Eq(f, Len(ss))
  <1>5. Eq(flat, Len(ss))
    <2>1. (Len(ss) - 1) + 1 = Len(ss)
      BY <1>1
    <2>2. \E f : Eq(f, Len(ss))
      BY <1>4, <2>1
    <2> HIDE DEF Eq
    <2> QED
      BY <2>2
  <1>6. FlattenSeq(ss) = flat[Len(ss)]
    BY <1>1 DEF FlattenSeq
  <1> HIDE DEF flat
  <1>7. \A i \in 1 .. Len(ss) : flat[i] = IF i = 1 THEN ss[i] ELSE flat[i - 1] \o ss[i]
    BY <1>5
  <1>8. flat[1] = ss[1]
    <2>1. 1 \in 1 .. Len(ss)
      BY <1>1
    <2> QED
      BY <1>7, <2>1
  <1>9. \A i \in 2 .. Len(ss) : flat[i] = flat[i - 1] \o ss[i]
    <2> SUFFICES ASSUME NEW i \in 2 .. Len(ss) PROVE flat[i] = flat[i - 1] \o ss[i]
      OBVIOUS
    <2>1. i \in 1 .. Len(ss) /\ i # 1
      BY <1>1
    <2> QED
      BY <1>7, <2>1
  <1> QED
    BY <1>6, <1>8, <1>9

\* One sequence more.
LEMMA FlattenMore ==
    ASSUME NEW S, NEW ss \in Seq(S), NEW x \in S
    PROVE  Len(ss) > 0 => FlattenSeq(Append(ss, x)) = FlattenSeq(ss) \o x
  <1> SUFFICES ASSUME Len(ss) > 0
               PROVE  FlattenSeq(Append(ss, x)) = FlattenSeq(ss) \o x
    OBVIOUS
  <1> DEFINE tt == Append(ss, x)
  <1>1. tt \in Seq(S) /\ Len(tt) = Len(ss) + 1 /\ Len(ss) \in Nat \ {0}
    BY AppendProperties, LenProperties
  <1>2. tt[Len(ss) + 1] = x /\ \A i \in 1 .. Len(ss) : tt[i] = ss[i]
    BY AppendProperties
  <1> HIDE DEF tt
  <1>3. PICK f : /\ f[1] = ss[1]
                 /\ \A i \in 2 .. Len(ss) : f[i] = f[i - 1] \o ss[i]
                 /\ FlattenSeq(ss) = f[Len(ss)]
    BY FlattenStates
  <1>4. PICK g : /\ g[1] = tt[1]
                 /\ \A i \in 2 .. Len(tt) : g[i] = g[i - 1] \o tt[i]
                 /\ FlattenSeq(tt) = g[Len(tt)]
    <2>1. tt \in Seq(S)
      BY <1>1
    <2>2. Len(tt) > 0
      BY <1>1
    <2> QED
      BY <2>1, <2>2, FlattenStates
  <1> DEFINE A == {n \in 0 .. Len(ss) - 1 : f[n + 1] = g[n + 1]}
  <1>5. 0 \in A
    <2>1. f[0 + 1] = g[0 + 1]
      BY <1>1, <1>2, <1>3, <1>4
    <2> QED
      BY <1>1, <2>1
  <1>6. ASSUME NEW n \in 0 .. (Len(ss) - 1) - 1, n \in A PROVE n + 1 \in A
    <2>1. n + 2 \in 2 .. Len(ss) /\ n + 2 \in 2 .. Len(tt) /\ (n + 2) - 1 = n + 1
          /\ n + 2 \in 1 .. Len(ss) /\ (n + 1) + 1 = n + 2 /\ n + 1 \in 0 .. Len(ss) - 1
      BY <1>1
    <2>2. f[n + 2] = f[n + 1] \o ss[n + 2]
      BY <1>3, <2>1
    <2>3. g[n + 2] = g[n + 1] \o tt[n + 2]
      BY <1>4, <2>1
    <2>4. f[n + 1] = g[n + 1] /\ tt[n + 2] = ss[n + 2]
      BY <1>2, <1>6, <2>1
    <2>5. f[n + 2] = g[n + 2]
      BY <2>2, <2>3, <2>4
    <2> QED
      BY <2>1, <2>5
  <1>7. f[Len(ss)] = g[Len(ss)]
    <2> DEFINE N == Len(ss) - 1
    <2>1. N \in Nat /\ N + 1 = Len(ss) /\ 0 \in A /\ \A n \in 0 .. N - 1 : n \in A => n + 1 \in A
      BY <1>1, <1>5, <1>6
    <2> HIDE DEF A, N
    <2>2. \A n \in 0 .. N : n \in A
      BY <2>1, Induction
    <2>3. N \in A
      BY <2>1, <2>2
    <2> QED
      BY <2>1, <2>3 DEF A
  <1>8. g[Len(ss) + 1] = g[Len(ss)] \o x
    <2>1. Len(ss) + 1 \in 2 .. Len(tt) /\ (Len(ss) + 1) - 1 = Len(ss)
      BY <1>1
    <2> QED
      BY <1>2, <1>4, <2>1
  <1> QED
    BY <1>1, <1>3, <1>4, <1>7, <1>8 DEF tt

\* One sequence is itself.
LEMMA FlattenOne ==
    ASSUME NEW S, NEW ss \in Seq(S)
    PROVE  Len(ss) = 1 => FlattenSeq(ss) = ss[1]
  <1> SUFFICES ASSUME Len(ss) = 1 PROVE FlattenSeq(ss) = ss[1]
    OBVIOUS
  <1>1. Len(ss) > 0
    OBVIOUS
  <1>2. PICK f : /\ f[1] = ss[1]
                 /\ \A i \in 2 .. Len(ss) : f[i] = f[i - 1] \o ss[i]
                 /\ FlattenSeq(ss) = f[Len(ss)]
    BY <1>1, FlattenStates
  <1> QED
    BY <1>2

-----------------------------------------------------------------------------
(* Sums.                                                                     *)

Small(S, n) == {s \in SUBSET S : Cardinality(s) <= n}
Pick(s) == CHOOSE x \in s : TRUE

\* The smaller sets of a finite set, by their size.
LEMMA SmallSets ==
    ASSUME NEW S, IsFiniteSet(S), NEW s \in SUBSET S
    PROVE  /\ IsFiniteSet(s) /\ Cardinality(s) \in Nat
           /\ s = {} <=> Cardinality(s) = 0
           /\ \A x \in s : /\ s \ {x} \in SUBSET S
                           /\ Cardinality(s \ {x}) = Cardinality(s) - 1
           /\ s # {} => Pick(s) \in s
  <1>1. IsFiniteSet(s) /\ Cardinality(s) \in Nat
    BY FS_Subset, FS_CardinalityType
  <1>2. s = {} <=> Cardinality(s) = 0
    BY <1>1, FS_EmptySet
  <1>3. \A x \in s : Cardinality(s \ {x}) = Cardinality(s) - 1
    BY <1>1, FS_RemoveElement
  <1>4. s # {} => Pick(s) \in s
    BY DEF Pick
  <1> QED
    BY <1>1, <1>2, <1>3, <1>4

\* What the fold behind SumFunction computes for each subset.
Sums(f, S, it) ==
    /\ it[{}] = 0
    /\ \A s \in SUBSET S : s # {} => it[s] = f[Pick(s)] + it[s \ {Pick(s)}]

\* The partial sums, which the recursive function of SumFunctionOnSet gives.
LEMMA SumStates ==
    ASSUME NEW f, NEW S, IsFiniteSet(S)
    PROVE  \E it : Sums(f, S, it) /\ SumFunctionOnSet(f, S) = it[S]
  <1> DEFINE N == Cardinality(S)
             Eq(g, D) == g = [s \in D |->
                               IF s = {} THEN 0 ELSE f[Pick(s)] + g[s \ {Pick(s)}]]
             A == {n \in 0 .. N : \E g : Eq(g, Small(S, n))}
  <1>1. N \in Nat
    BY FS_CardinalityType
  <1>2. 0 \in A
    <2>1. Small(S, 0) = {{}}
      <3>1. \A s \in SUBSET S : Cardinality(s) <= 0 <=> s = {}
        BY SmallSets
      <3> QED
        BY <3>1 DEF Small
    <2> DEFINE g == [s \in {{}} |-> 0]
    <2>2. Eq(g, {{}})
      OBVIOUS
    <2> HIDE DEF Eq, g
    <2>3. \E h : Eq(h, Small(S, 0))
      BY <2>1, <2>2
    <2> QED
      BY <1>1, <2>3
  <1>3. ASSUME NEW n \in 0 .. N - 1, n \in A PROVE n + 1 \in A
    <2>1. PICK g : Eq(g, Small(S, n))
      BY <1>3
    <2> DEFINE D == Small(S, n)
               E == Small(S, n + 1)
               h == [s \in E |-> IF s \in D THEN g[s]
                                 ELSE IF s = {} THEN 0 ELSE f[Pick(s)] + g[s \ {Pick(s)}]]
    <2>2. \A s \in D : g[s] = IF s = {} THEN 0 ELSE f[Pick(s)] + g[s \ {Pick(s)}]
      BY <2>1
    <2>3. \A s \in E : s # {} => s \ {Pick(s)} \in D /\ s \ {Pick(s)} \in E
      BY SmallSets DEF Small
    <2>4. \A s \in D : s # {} => s \ {Pick(s)} \in D
      BY SmallSets DEF Small
    <2> HIDE DEF D, E
    <2>5. \A s \in E : h[s] = IF s = {} THEN 0 ELSE f[Pick(s)] + h[s \ {Pick(s)}]
      BY <2>2, <2>3, <2>4
    <2>6. h = [s \in E |-> h[s]]
      OBVIOUS
    <2> HIDE DEF h
    <2>7. Eq(h, E)
      BY <2>5, <2>6
    <2> HIDE DEF Eq
    <2>8. \E k : Eq(k, Small(S, n + 1))
      BY <2>7 DEF E
    <2> QED
      BY <1>1, <2>8
  <1>4. N \in A
    <2> HIDE DEF A, N
    <2>1. \A n \in 0 .. N : n \in A
      BY <1>1, <1>2, <1>3, Induction
    <2> QED
      BY <1>1, <2>1
  <1>5. Small(S, N) = SUBSET S
    BY FS_Subset DEF Small
  <1> DEFINE iter == CHOOSE g : Eq(g, SUBSET S)
  <1>6. Eq(iter, SUBSET S)
    <2>1. \E g : Eq(g, SUBSET S)
      BY <1>4, <1>5
    <2> HIDE DEF Eq
    <2> QED
      BY <2>1
  <1>7. SumFunctionOnSet(f, S) = iter[S]
    BY DEF SumFunctionOnSet, FoldFunctionOnSet, MapThenFoldSet, Pick
  <1> HIDE DEF iter
  <1>8. \A s \in SUBSET S : iter[s] = IF s = {} THEN 0 ELSE f[Pick(s)] + iter[s \ {Pick(s)}]
    BY <1>6
  <1>9. Sums(f, S, iter)
    BY <1>8 DEF Sums
  <1> QED
    BY <1>7, <1>9

\* Partial sums of the same numbers are the same.
LEMMA SumsAgree ==
    ASSUME NEW f, NEW S, IsFiniteSet(S), NEW it, Sums(f, S, it),
           NEW g, NEW R, NEW jt, Sums(g, R, jt),
           S \subseteq R, \A x \in S : f[x] = g[x]
    PROVE  \A s \in SUBSET S : it[s] = jt[s]
  <1> DEFINE N == Cardinality(S)
             A == {n \in 0 .. N : \A s \in SUBSET S : Cardinality(s) = n => it[s] = jt[s]}
  <1>1. N \in Nat
    BY FS_CardinalityType
  <1>2. 0 \in A
    <2>1. \A s \in SUBSET S : Cardinality(s) = 0 => s = {}
      BY SmallSets
    <2>2. it[{}] = jt[{}]
      BY DEF Sums
    <2> QED
      BY <1>1, <2>1, <2>2
  <1>3. ASSUME NEW n \in 0 .. N - 1, n \in A PROVE n + 1 \in A
    <2> SUFFICES ASSUME NEW s \in SUBSET S, Cardinality(s) = n + 1 PROVE it[s] = jt[s]
      BY <1>1
    <2> DEFINE x == Pick(s)
               r == s \ {x}
    <2>1. x \in s /\ r \in SUBSET S /\ Cardinality(r) = n /\ s # {}
      BY SmallSets
    <2>2. it[r] = jt[r]
      BY <1>3, <2>1
    <2>3. it[s] = f[x] + it[r] /\ jt[s] = g[x] + jt[r]
      BY <2>1 DEF Sums
    <2> QED
      BY <2>1, <2>2, <2>3
  <1>4. \A n \in 0 .. N : n \in A
    <2> HIDE DEF A, N
    <2> QED
      BY <1>1, <1>2, <1>3, Induction
  <1>5. \A s \in SUBSET S : Cardinality(s) \in 0 .. N
    BY <1>1, FS_Subset, SmallSets
  <1> QED
    BY <1>4, <1>5

\* A sum depends on what is summed only.
LEMMA SumCongruence ==
    ASSUME NEW f, NEW g, NEW S, IsFiniteSet(S), \A x \in S : f[x] = g[x]
    PROVE  SumFunctionOnSet(f, S) = SumFunctionOnSet(g, S)
  <1>1. PICK it : Sums(f, S, it) /\ SumFunctionOnSet(f, S) = it[S]
    BY SumStates
  <1>2. PICK jt : Sums(g, S, jt) /\ SumFunctionOnSet(g, S) = jt[S]
    BY SumStates
  <1>3. \A s \in SUBSET S : it[s] = jt[s]
    BY <1>1, <1>2, SumsAgree
  <1> QED
    BY <1>1, <1>2, <1>3

\* An empty sum is 0.
LEMMA SumOfNone == ASSUME NEW f PROVE SumFunctionOnSet(f, {}) = 0
  <1>1. PICK it : Sums(f, {}, it) /\ SumFunctionOnSet(f, {}) = it[{}]
    BY SumStates, FS_EmptySet
  <1> QED
    BY <1>1 DEF Sums

\* The element the fold takes first, apart.
LEMMA SumPicks ==
    ASSUME NEW f, NEW S, IsFiniteSet(S), S # {}
    PROVE  SumFunctionOnSet(f, S) = f[Pick(S)] + SumFunctionOnSet(f, S \ {Pick(S)})
  <1> DEFINE x == Pick(S)
             R == S \ {x}
  <1>1. PICK it : Sums(f, S, it) /\ SumFunctionOnSet(f, S) = it[S]
    BY SumStates
  <1>2. IsFiniteSet(R) /\ R \in SUBSET S
    BY FS_Subset
  <1>3. PICK jt : Sums(f, R, jt) /\ SumFunctionOnSet(f, R) = jt[R]
    BY <1>2, SumStates
  <1>4. \A s \in SUBSET R : jt[s] = it[s]
    BY <1>1, <1>2, <1>3, SumsAgree
  <1>5. it[S] = f[x] + it[R]
    BY <1>1 DEF Sums
  <1> QED
    BY <1>1, <1>3, <1>4, <1>5

\* One element more, whichever it is.
LEMMA SumOneMore ==
    ASSUME NEW S, IsFiniteSet(S), NEW f, \A x \in S : f[x] \in Nat
    PROVE  /\ SumFunctionOnSet(f, S) \in Nat
           /\ \A x \in S : SumFunctionOnSet(f, S) = f[x] + SumFunctionOnSet(f, S \ {x})
  <1> DEFINE N == Cardinality(S)
             Law(s) == /\ SumFunctionOnSet(f, s) \in Nat
                       /\ \A x \in s : SumFunctionOnSet(f, s) = f[x] + SumFunctionOnSet(f, s \ {x})
             A == {n \in 0 .. N : \A s \in SUBSET S : Cardinality(s) <= n => Law(s)}
  <1>1. N \in Nat
    BY FS_CardinalityType
  <1>2. 0 \in A
    <2>1. \A s \in SUBSET S : Cardinality(s) <= 0 => s = {}
      BY SmallSets
    <2> QED
      BY <1>1, <2>1, SumOfNone
  <1>3. ASSUME NEW n \in 0 .. N - 1, n \in A PROVE n + 1 \in A
    <2> SUFFICES ASSUME NEW s \in SUBSET S, Cardinality(s) <= n + 1 PROVE Law(s)
      BY <1>1
    <2> DEFINE y == Pick(s)
               r == s \ {y}
    <2>1. CASE s = {}
      BY <2>1, SumOfNone
    <2>2. CASE s # {}
      <3>1. y \in s /\ r \in SUBSET S /\ Cardinality(r) <= n /\ IsFiniteSet(s)
        BY <2>2, SmallSets
      <3>2. Law(r)
        BY <1>3, <3>1
      <3>3. SumFunctionOnSet(f, s) = f[y] + SumFunctionOnSet(f, r)
        BY <2>2, <3>1, SumPicks
      <3>4. f[y] \in Nat
        BY <3>1
      <3>5. SumFunctionOnSet(f, s) \in Nat
        BY <3>2, <3>3, <3>4
      <3>6. ASSUME NEW x \in s
            PROVE  SumFunctionOnSet(f, s) = f[x] + SumFunctionOnSet(f, s \ {x})
        <4> HIDE DEF y
        <4>1. CASE x = y
          BY <3>3, <4>1
        <4>2. CASE x # y
          <5> DEFINE t == s \ {x}
                     u == r \ {x}
          <5>1. x \in r /\ y \in t /\ t \ {y} = u
            BY <3>1, <4>2
          <5>2. t \in SUBSET S /\ Cardinality(t) <= n
            BY SmallSets
          <5>3. Law(t)
            BY <1>3, <5>2
          <5>4. SumFunctionOnSet(f, t) = f[y] + SumFunctionOnSet(f, u)
            BY <5>1, <5>3
          <5>5. SumFunctionOnSet(f, r) = f[x] + SumFunctionOnSet(f, u)
            BY <3>2, <5>1
          <5>6. u \in SUBSET S /\ Cardinality(u) <= n
            <6>1. u \in SUBSET S /\ Cardinality(u) = Cardinality(r) - 1 /\ Cardinality(r) \in Nat
              <7>1. r \in SUBSET S /\ x \in r
                BY <3>1, <5>1
              <7> HIDE DEF r
              <7> QED
                BY <7>1, SmallSets
            <6> QED
              BY <3>1, <6>1
          <5>7. SumFunctionOnSet(f, u) \in Nat
            BY <1>3, <5>6
          <5>8. f[x] \in Nat
            OBVIOUS
          <5> QED
            BY <3>3, <3>4, <5>4, <5>5, <5>7, <5>8
        <4> QED
          BY <4>1, <4>2
      <3> QED
        BY <3>5, <3>6
    <2> QED
      BY <2>1, <2>2
  <1>4. \A n \in 0 .. N : n \in A
    <2> HIDE DEF A, N
    <2> QED
      BY <1>1, <1>2, <1>3, Induction
  <1>5. N \in 0 .. N /\ S \in SUBSET S /\ Cardinality(S) <= N
    BY <1>1
  <1> QED
    BY <1>4, <1>5

-----------------------------------------------------------------------------
(* The functions of the embedded messages' classes are those of the classes, *)
(* and bytes hold bytes: W is the set of wire fields.                        *)

Knot(W) ==
    /\ W = [tag : Int, num : Nat, data : Seq(W)]
    /\ \A K \in DOMAIN Messages :
        /\ \A m : \A d \in Seq(W) : EmbeddedRead(K, m, d) = MergePartialFromCodedStream(K, m, d)
        /\ \A m : EmbeddedIsInitialized(K, m) = IsInitialized(K, m)
        /\ \A m : EmbeddedSerialize(K, m) = Serialize(K, m)
        /\ \A m : EmbeddedByteSize(K, m) = ByteSize(K, m)
        /\ \A m, n : EmbeddedMergeFrom(K, m, n) = MergeFrom(K, m, n)
        /\ \A s \in SUBSET W : EmbeddedMakes(K, s) = Makes(K, s)
    /\ \A d \in Seq(W) : EmbeddedBytes(d) = BytesOf(d) /\ BytesOf(d) \in Nat

\* The parts of a wire field of W.
LEMMA WireField ==
    ASSUME NEW W, Knot(W), NEW x \in W
    PROVE  /\ x.tag \in Int /\ x.num \in Nat /\ x.data \in Seq(W)
           /\ x = Field(x.tag, x.num, x.data) /\ FieldBytes(x) \in Nat
  <1>1. x \in [tag : Int, num : Nat, data : Seq(W)]
    BY DEF Knot
  <1>2. x.tag \in Int /\ x.num \in Nat /\ x.data \in Seq(W) /\ x = Field(x.tag, x.num, x.data)
    BY <1>1 DEF Field
  <1>3. EmbeddedBytes(x.data) \in Nat
    BY <1>2 DEF Knot
  <1>4. FieldBytes(x) \in Nat
    BY <1>3 DEF FieldBytes, TagBytes
  <1> QED
    BY <1>2, <1>4

\* W holds every wire field over it.
LEMMA NewField ==
    ASSUME NEW W, Knot(W), NEW t \in Int, NEW n \in Nat, NEW d \in Seq(W)
    PROVE  /\ Field(t, n, d) \in W
           /\ Field(t, n, d).tag = t /\ Field(t, n, d).num = n /\ Field(t, n, d).data = d
  <1>1. Field(t, n, d) \in [tag : Int, num : Nat, data : Seq(W)]
    BY DEF Field
  <1>2. Field(t, n, d) \in W
    BY <1>1 DEF Knot
  <1> QED
    BY <1>2 DEF Field

\* No input, no bytes.
LEMMA BytesOfNone == BytesOf(<<>>) = 0
  <1> DEFINE h == [i \in DOMAIN <<>> |-> FieldBytes(<<>>[i])]
  <1>1. DOMAIN h = {}
    OBVIOUS
  <1>2. BytesOf(<<>>) = SumFunctionOnSet(h, DOMAIN h)
    BY DEF BytesOf, SumFunction
  <1> HIDE DEF h
  <1> QED
    BY <1>1, <1>2, SumOfNone

\* The bytes of the last field apart.
LEMMA BytesOfOneMore ==
    ASSUME NEW W, Knot(W), NEW a \in Seq(W), NEW x \in W
    PROVE  BytesOf(Append(a, x)) = BytesOf(a) + FieldBytes(x)
  <1> DEFINE b == Append(a, x)
             n == Len(a)
  <1>1. n \in Nat /\ DOMAIN a = 1 .. n /\ DOMAIN b = 1 .. n + 1
        /\ b[n + 1] = x /\ (\A i \in 1 .. n : b[i] = a[i]) /\ (\A i \in 1 .. n : a[i] \in W)
    BY AppendProperties, LenProperties, ElementOfSeq
  <1> HIDE DEF b, n
  <1> DEFINE g == [i \in 1 .. n |-> FieldBytes(a[i])]
             h == [i \in 1 .. n + 1 |-> FieldBytes(b[i])]
             S == 1 .. n + 1
  <1>2. \A i \in S : h[i] \in Nat
    <2>1. \A i \in S : b[i] \in W
      BY <1>1
    <2>2. \A y \in W : FieldBytes(y) \in Nat
      BY WireField
    <2> QED
      BY <2>1, <2>2
  <1>3. S \ {n + 1} = 1 .. n /\ n + 1 \in S
    BY <1>1
  <1>4. IsFiniteSet(S) /\ IsFiniteSet(1 .. n)
    BY <1>1, FS_Interval
  <1>5. \A i \in 1 .. n : g[i] = h[i]
    BY <1>1
  <1>6. h[n + 1] = FieldBytes(x)
    BY <1>1
  <1>7. BytesOf(a) = SumFunctionOnSet(g, 1 .. n)
    BY <1>1 DEF BytesOf, SumFunction
  <1>8. BytesOf(b) = SumFunctionOnSet(h, S)
    BY <1>1 DEF BytesOf, SumFunction
  <1> HIDE DEF g, h, S
  <1>9. SumFunctionOnSet(h, S) = h[n + 1] + SumFunctionOnSet(h, 1 .. n)
    <2>1. \A i \in S : SumFunctionOnSet(h, S) = h[i] + SumFunctionOnSet(h, S \ {i})
      BY <1>2, <1>4, SumOneMore
    <2> QED
      BY <1>3, <2>1
  <1>10. SumFunctionOnSet(g, 1 .. n) = SumFunctionOnSet(h, 1 .. n)
    BY <1>4, <1>5, SumCongruence
  <1>11. BytesOf(a) \in Nat /\ FieldBytes(x) \in Nat
    BY WireField DEF Knot
  <1> QED
    BY <1>6, <1>7, <1>8, <1>9, <1>10, <1>11 DEF b

\* The bytes of two inputs are those of the one behind the other.
LEMMA BytesOfBoth ==
    ASSUME NEW W, Knot(W), NEW a \in Seq(W), NEW b \in Seq(W)
    PROVE  BytesOf(a \o b) = BytesOf(a) + BytesOf(b)
  <1> DEFINE A == {s \in Seq(W) : BytesOf(a \o s) = BytesOf(a) + BytesOf(s)}
  <1>1. \A s \in Seq(W) : BytesOf(s) \in Nat
    BY DEF Knot
  <1>2. <<>> \in A
    <2>1. a \o <<>> = a /\ <<>> \in Seq(W)
      BY ConcatEmptySeq, EmptySeq
    <2> QED
      BY <1>1, <2>1, BytesOfNone
  <1>3. ASSUME NEW s \in Seq(W), NEW e \in W, s \in A PROVE Append(s, e) \in A
    <2> DEFINE c == a \o s
    <2>1. a \o Append(s, e) = Append(c, e) /\ c \in Seq(W) /\ Append(s, e) \in Seq(W)
      BY ConcatProperties, AppendProperties
    <2>2. BytesOf(c) = BytesOf(a) + BytesOf(s)
      BY <1>3
    <2> HIDE DEF c
    <2>3. BytesOf(Append(c, e)) = BytesOf(c) + FieldBytes(e)
      BY <2>1, BytesOfOneMore
    <2>4. BytesOf(Append(s, e)) = BytesOf(s) + FieldBytes(e)
      BY BytesOfOneMore
    <2>5. FieldBytes(e) \in Nat /\ BytesOf(a) \in Nat /\ BytesOf(s) \in Nat
      BY <1>1, WireField
    <2>6. BytesOf(a \o Append(s, e)) = BytesOf(a) + BytesOf(Append(s, e))
      BY <2>1, <2>2, <2>3, <2>4, <2>5
    <2> QED
      BY <2>1, <2>6
  <1> HIDE DEF A
  <1>4. \A s \in Seq(W) : s \in A
    BY <1>2, <1>3, SeqInduction
  <1> QED
    BY <1>4 DEF A

-----------------------------------------------------------------------------
(* What the tables of a class agree on.                                      *)

\* What holds of a class when it holds of those it embeds, holds of all.
LEMMA ByClass ==
    ASSUME NEW A, \A T \in DOMAIN Messages : Embeds(T) \subseteq A => T \in A
    PROVE  \A T \in DOMAIN Messages : T \in A
  <1>1. Built({}) \subseteq A
    BY DEF Built
  <1>2. Built(Built({})) \subseteq A
    BY <1>1 DEF Built
  <1>3. Built(Built(Built({}))) \subseteq A
    BY <1>2 DEF Built
  <1> QED
    BY <1>3, TablesAssumption

Names(T) == {r[3] : r \in Messages[T].reads}

\* A field's kind is a basic one, an enumeration or a class, and one of these.
LEMMA Kinds ==
    /\ DOMAIN IsValid \intersect Basic = {}
    /\ DOMAIN Messages \intersect Basic = {} /\ DOMAIN Messages \intersect DOMAIN IsValid = {}
    /\ \A k \in DOMAIN IsValid : IsValid[k] \subseteq 0 .. 6
  <1>1. DOMAIN IsValid = {"EncryptionType", "login_result_code",
                          "username_availability_result_code", "user_register_result_code"}
    BY DEF IsValid
  <1>2. \A k \in DOMAIN IsValid : IsValid[k] \subseteq 0 .. 6
    BY <1>1 DEF IsValid, EncryptionType_IsValid, login_result_code_IsValid,
                username_availability_result_code_IsValid, user_register_result_code_IsValid
  <1>3. DOMAIN IsValid \intersect Basic = {}
    BY <1>1 DEF Basic
  <1> QED
    BY <1>2, <1>3, TablesAssumption

\* Every tag of a class has one reader, every field one kind.
LEMMA Readers ==
    ASSUME NEW T \in DOMAIN Messages
    PROVE  /\ \A r \in Messages[T].reads :
                /\ r[1] \in Nat /\ r[2] \in Basic \union DOMAIN IsValid \union DOMAIN Messages
                /\ r[3] \in Names(T)
                /\ Known(T, r[1]) /\ Reader(T, r[1]) = r /\ Kind(T, r[3]) = r[2]
                /\ r[2] \in DOMAIN Messages => r[2] \in Embeds(T)
           /\ \A tag : Known(T, tag) => Reader(T, tag) \in Messages[T].reads /\ Reader(T, tag)[1] = tag
           /\ \A f \in Names(T) : \E r \in Messages[T].reads : r[3] = f
           /\ Messages[T].keeps.short \union Messages[T].keeps.long = Names(T)
  <1> DEFINE reads == Messages[T].reads
  <1>1. /\ reads \subseteq Nat \X (Basic \union DOMAIN IsValid \union DOMAIN Messages) \X STRING
        /\ \A r, q \in reads : r[1] = q[1] \/ r[3] = q[3] => r = q
    BY TablesAssumption DEF Agrees
  <1>2. Messages[T].keeps.short = {r[3] : r \in {q \in reads : q[1] < 128}}
        /\ Messages[T].keeps.long = {r[3] : r \in {q \in reads : q[1] >= 128}}
    BY TablesAssumption DEF Agrees
  <1> HIDE DEF reads
  <1>3. \A r \in reads : r[1] \in Nat /\ r[2] \in Basic \union DOMAIN IsValid \union DOMAIN Messages
    BY <1>1
  <1>4. \A r \in reads : r[1] < 128 \/ r[1] >= 128
    BY <1>3
  <1>5. Messages[T].keeps.short \union Messages[T].keeps.long = Names(T)
    BY <1>2, <1>4 DEF Names, reads
  <1>6. ASSUME NEW r \in reads
        PROVE  Known(T, r[1]) /\ Reader(T, r[1]) = r /\ Kind(T, r[3]) = r[2] /\ r[3] \in Names(T)
    <2>1. Known(T, r[1]) /\ r[3] \in Names(T)
      BY DEF Known, Names, reads
    <2>2. Reader(T, r[1]) = r
      BY <1>1 DEF Reader, reads
    <2>3. (CHOOSE q \in reads : q[3] = r[3]) = r
      BY <1>1
    <2> QED
      BY <2>1, <2>2, <2>3 DEF Kind, reads
  <1>7. \A tag : Known(T, tag) => Reader(T, tag) \in reads /\ Reader(T, tag)[1] = tag
    BY DEF Known, Reader, reads
  <1>8. \A f \in Names(T) : \E r \in reads : r[3] = f
    BY DEF Names, reads
  <1>9. \A r \in reads : r[2] \in DOMAIN Messages => r[2] \in Embeds(T)
    BY DEF Embeds, reads
  <1> QED
    BY <1>3, <1>5, <1>6, <1>7, <1>8, <1>9 DEF reads

-----------------------------------------------------------------------------
(* Reading one field.                                                        *)

IsFcn(f) == f = [x \in DOMAIN f |-> f[x]]
IsRecord(m) == m = [set |-> m.set, unknown |-> m.unknown] /\ IsFcn(m.set)

\* set_x or add_x.
PutIn(T, m, f, v) == IF IsRepeated(T, f) THEN Add(m, f, v) ELSE Set(m, f, v)
NewValue(T, m, f, v) ==
    IF ~IsRepeated(T, f) THEN v
    ELSE IF f \in DOMAIN m.set THEN Append(m.set[f], v) ELSE <<v>>
\* n is m with f set to v.
IsSet(m, f, v, n) ==
    /\ IsRecord(n) /\ n.unknown = m.unknown
    /\ DOMAIN n.set = DOMAIN m.set \union {f}
    /\ \A g \in DOMAIN m.set \ {f} : n.set[g] = m.set[g]
    /\ n.set[f] = v
There(T, m, f) == IF f \in DOMAIN m.set /\ ~IsRepeated(T, f) THEN m.set[f] ELSE Empty

\* set_x and add_x change their field and nothing else.
LEMMA PutIs ==
    ASSUME NEW T, NEW m, IsRecord(m), NEW f, NEW v
    PROVE  IsSet(m, f, NewValue(T, m, f, v), PutIn(T, m, f, v))
  <1>1. ASSUME NEW u
        PROVE  IsSet(m, f, u, Set(m, f, u))
    <2> DEFINE s == [g \in DOMAIN m.set \union {f} |-> IF g = f THEN u ELSE m.set[g]]
               n == Set(m, f, u)
    <2>1. n = [set |-> s, unknown |-> m.unknown]
      BY DEF Set, IsRecord
    <2>2. IsFcn(s) /\ DOMAIN s = DOMAIN m.set \union {f} /\ s[f] = u
          /\ \A g \in DOMAIN m.set \ {f} : s[g] = m.set[g]
      BY DEF IsFcn
    <2> HIDE DEF s, n
    <2>3. n.set = s /\ n.unknown = m.unknown /\ IsRecord(n)
      BY <2>1, <2>2 DEF IsRecord
    <2> QED
      BY <2>2, <2>3 DEF n, IsSet
  <1>2. PutIn(T, m, f, v) = Set(m, f, NewValue(T, m, f, v))
    BY DEF PutIn, NewValue, Add
  <1> QED
    BY <1>1, <1>2

\* SkipField changes the unknown fields and nothing else.
LEMMA KeepIs ==
    ASSUME NEW m, IsRecord(m), NEW x
    PROVE  LET n == KeepUnknown(m, x)
           IN  IsRecord(n) /\ n.set = m.set /\ n.unknown = Append(m.unknown, x)
  <1>1. KeepUnknown(m, x) = [set |-> m.set, unknown |-> Append(m.unknown, x)]
    <2> DEFINE s == m.set
               u == m.unknown
    <2>1. m = [set |-> s, unknown |-> u]
      BY DEF IsRecord
    <2> HIDE DEF s, u
    <2>2. KeepUnknown(m, x) = [set |-> s, unknown |-> Append(u, x)]
      BY <2>1 DEF KeepUnknown
    <2> QED
      BY <2>2 DEF s, u
  <1> QED
    BY <1>1 DEF IsRecord

\* Messages are the same when they have the same fields.
LEMMA SameMessage ==
    ASSUME NEW m, IsRecord(m), NEW n, IsRecord(n), m.unknown = n.unknown,
           DOMAIN m.set = DOMAIN n.set, \A f \in DOMAIN m.set : m.set[f] = n.set[f]
    PROVE  m = n
  <1>1. m.set = n.set
    BY DEF IsRecord, IsFcn
  <1> QED
    BY <1>1 DEF IsRecord

\* The ways a field that has a reader is read.
LEMMA ReadKnown ==
    ASSUME NEW W, Knot(W), NEW T \in DOMAIN Messages, NEW m, NEW x \in W, Known(T, x.tag)
    PROVE  LET kind == Reader(T, x.tag)[2]
               f == Reader(T, x.tag)[3]
               sub == MergePartialFromCodedStream(kind, There(T, m, f), x.data)
           IN  ReadNext(T, State("reading", m), x)
                 = IF kind \in DOMAIN Messages
                   THEN IF sub.how = "reading" THEN State("reading", PutIn(T, m, f, sub.msg))
                        ELSE Failed
                   ELSE IF kind \in {"string", "bytes"} THEN State("reading", PutIn(T, m, f, x.data))
                   ELSE IF kind \in DOMAIN IsValid
                   THEN IF x.num % Word \in IsValid[kind]
                        THEN State("reading", PutIn(T, m, f, x.num % Word))
                        ELSE State("reading", KeepUnknown(m, [x EXCEPT !.num = @ % Word]))
                   ELSE State("reading", PutIn(T, m, f, Primitive(kind, x.num)))
  <1> DEFINE kind == Reader(T, x.tag)[2]
             f == Reader(T, x.tag)[3]
             sub == MergePartialFromCodedStream(kind, There(T, m, f), x.data)
  <1>1. ReadNext(T, State("reading", m), x) = ReadField(T, m, x)
    BY DEF ReadNext, State
  <1>2. kind \in DOMAIN Messages => EmbeddedRead(kind, There(T, m, f), x.data) = sub
    <2> DEFINE there == There(T, m, f)
    <2>1. x.data \in Seq(W)
      BY WireField
    <2> HIDE DEF kind, there
    <2>2. kind \in DOMAIN Messages
          => EmbeddedRead(kind, there, x.data) = MergePartialFromCodedStream(kind, there, x.data)
      BY <2>1 DEF Knot
    <2> QED
      BY <2>2 DEF there
  <1>3. CASE kind \in DOMAIN Messages
    <2>1. ReadField(T, m, x)
            = IF EmbeddedRead(kind, There(T, m, f), x.data).how = "reading"
              THEN State("reading", PutIn(T, m, f, EmbeddedRead(kind, There(T, m, f), x.data).msg))
              ELSE Failed
      BY <1>3, Kinds DEF ReadField, PutIn, There, Basic
    <2> QED
      BY <1>1, <1>2, <1>3, <2>1
  <1>4. CASE kind \in {"string", "bytes"}
    BY <1>1, <1>4, Kinds DEF ReadField, PutIn, Basic
  <1>5. CASE kind \in DOMAIN IsValid
    BY <1>1, <1>5, Kinds DEF ReadField, PutIn, Basic
  <1>6. CASE kind \notin DOMAIN Messages \union {"string", "bytes"} \union DOMAIN IsValid
    BY <1>1, <1>6 DEF ReadField, PutIn
  <1>7. kind \notin DOMAIN Messages \/ kind \notin {"string", "bytes"} \union DOMAIN IsValid
    BY Kinds DEF Basic
  <1>8. kind \notin {"string", "bytes"} \/ kind \notin DOMAIN IsValid
    BY Kinds DEF Basic
  <1> QED
    BY <1>3, <1>4, <1>5, <1>6, <1>7, <1>8

\* A field without a reader is handled as an unusual one.
LEMMA ReadUnknown ==
    ASSUME NEW T, NEW m, NEW x, ~Known(T, x.tag)
    PROVE  ReadNext(T, State("reading", m), x) = HandleUnusual(m, x)
  BY DEF ReadNext, State

-----------------------------------------------------------------------------
(* What is read has the shape of a message of its class.                     *)

Readables(W, T) ==
    {MergePartialFromCodedStream(T, Empty, a).msg :
        a \in {b \in Seq(W) : MergePartialFromCodedStream(T, Empty, b).how = "reading"}}

Numbers(kind) ==
    IF kind \in DOMAIN IsValid THEN IsValid[kind]
    ELSE IF kind = "uint32" THEN 0 .. Word - 1
    ELSE IF kind = "bool" THEN {0, 1}
    ELSE Nat

Values(W, kind) ==
    IF kind \in DOMAIN Messages THEN Readables(W, kind)
    ELSE IF kind \in {"string", "bytes"} THEN Seq(W)
    ELSE Numbers(kind)

\* Fields that are no field of T, or no value of one, wherever they are read.
Surplus(W, T) ==
    {x \in W : \A m : ReadNext(T, State("reading", m), x) = State("reading", KeepUnknown(m, x))}

Shaped(W, T, m) ==
    /\ IsRecord(m)
    /\ m.unknown \in Seq(Surplus(W, T))
    /\ DOMAIN m.set \subseteq Names(T)
    /\ \A f \in DOMAIN m.set :
        IF IsRepeated(T, f) THEN m.set[f] \in Seq(Values(W, Kind(T, f))) /\ m.set[f] # <<>>
        ELSE m.set[f] \in Values(W, Kind(T, f))

\* The messages that can be read of bytes, and the bytes they are read of.
LEMMA ReadableIs ==
    ASSUME NEW W, NEW T
    PROVE  /\ \A a \in Seq(W) : MergePartialFromCodedStream(T, Empty, a).how = "reading"
                => MergePartialFromCodedStream(T, Empty, a).msg \in Readables(W, T)
           /\ \A m \in Readables(W, T) : \E a \in Seq(W) :
                MergePartialFromCodedStream(T, Empty, a) = State("reading", m)
           /\ Empty \in Readables(W, T)
  <1>1. \A a \in Seq(W) : MergePartialFromCodedStream(T, Empty, a).how = "reading"
           => MergePartialFromCodedStream(T, Empty, a).msg \in Readables(W, T)
    BY DEF Readables
  <1>2. ASSUME NEW m \in Readables(W, T)
        PROVE  \E a \in Seq(W) : MergePartialFromCodedStream(T, Empty, a) = State("reading", m)
    <2>1. PICK a \in Seq(W) : /\ MergePartialFromCodedStream(T, Empty, a).how = "reading"
                              /\ MergePartialFromCodedStream(T, Empty, a).msg = m
      BY DEF Readables
    <2>2. IsState(MergePartialFromCodedStream(T, Empty, a))
      BY ReadIsState
    <2>3. MergePartialFromCodedStream(T, Empty, a) = State("reading", m)
      BY <2>1, <2>2 DEF IsState
    <2> QED
      BY <2>3
  <1>3. Empty \in Readables(W, T)
    <2> DEFINE a == <<>>
    <2>1. a \in Seq(W) /\ MergePartialFromCodedStream(T, Empty, a) = State("reading", Empty)
      BY EmptySeq, ReadNothing
    <2> HIDE DEF a
    <2> QED
      BY <1>1, <2>1, StateIs
  <1> QED
    BY <1>1, <1>2, <1>3

\* To read on is to have read more.
LEMMA ReadOnReadable ==
    ASSUME NEW W, NEW T, NEW m \in Readables(W, T), NEW d \in Seq(W),
           MergePartialFromCodedStream(T, m, d).how = "reading"
    PROVE  MergePartialFromCodedStream(T, m, d).msg \in Readables(W, T)
  <1>1. PICK a \in Seq(W) : MergePartialFromCodedStream(T, Empty, a) = State("reading", m)
    BY ReadableIs
  <1> DEFINE c == a \o d
  <1>2. c \in Seq(W)
    BY ConcatProperties
  <1>3. MergePartialFromCodedStream(T, Empty, c) = MergePartialFromCodedStream(T, m, d)
    BY <1>1, ReadOn, StateIs
  <1> HIDE DEF c
  <1> QED
    BY <1>2, <1>3, ReadableIs

\* The low word of a number.
LEMMA Modulo == \A n \in Nat : n % Word \in 0 .. Word - 1 /\ (n < Word => n % Word = n)
  BY WordAssumption

\* The low word of a low word is itself.
LEMMA Remainder == \A n \in Nat : (n % Word) % Word = n % Word
  BY Modulo, WordAssumption

\* What ReadPrimitive gives is a number of the field's kind, and read again the
\* same.
LEMMA PrimitiveIs ==
    ASSUME NEW kind \in Basic \ {"string", "bytes"}, NEW n \in Nat
    PROVE  Primitive(kind, n) \in Numbers(kind)
  <1>1. kind \notin DOMAIN IsValid
    BY Kinds
  <1>2. CASE kind = "uint32"
    BY <1>1, <1>2, Modulo DEF Primitive, Numbers
  <1>3. CASE kind = "bool"
    BY <1>1, <1>3 DEF Primitive, Numbers
  <1>4. CASE kind \in {"uint64", "float"}
    BY <1>1, <1>4 DEF Primitive, Numbers
  <1> QED
    BY <1>2, <1>3, <1>4 DEF Basic

\* A field that goes to the unknown ones does so wherever it is read again.
LEMMA UnknownIsKept ==
    ASSUME NEW W, Knot(W), NEW T \in DOMAIN Messages, NEW x \in W, ~Known(T, x.tag),
           NEW m, ReadNext(T, State("reading", m), x).how = "reading"
    PROVE  x \in Surplus(W, T) /\ ReadNext(T, State("reading", m), x) = State("reading", KeepUnknown(m, x))
  <1>1. \A n : ReadNext(T, State("reading", n), x) = HandleUnusual(n, x)
    BY ReadUnknown
  <1>2. ~(x.tag = 0 \/ WireType(x.tag) = END_GROUP) /\ ~(x.tag < 0 \/ WireType(x.tag) \in {6, 7})
    <2>1. HandleUnusual(m, x).how = "reading"
      BY <1>1
    <2>2. State("stopped", m).how = "stopped" /\ Failed.how = "failed"
      BY StateIs DEF Failed
    <2> QED
      BY <2>1, <2>2 DEF HandleUnusual
  <1>3. \A n : HandleUnusual(n, x) = State("reading", KeepUnknown(n, x))
    BY <1>2 DEF HandleUnusual
  <1> QED
    BY <1>1, <1>3 DEF Surplus

\* A number its enumeration does not have goes to the unknown fields, and stays
\* there when it is read again.
LEMMA OddValueIsKept ==
    ASSUME NEW W, Knot(W), NEW T \in DOMAIN Messages, NEW x \in W, Known(T, x.tag),
           Reader(T, x.tag)[2] \in DOMAIN IsValid,
           x.num % Word \notin IsValid[Reader(T, x.tag)[2]]
    PROVE  [x EXCEPT !.num = @ % Word] \in Surplus(W, T)
  <1> DEFINE y == [x EXCEPT !.num = @ % Word]
             kind == Reader(T, x.tag)[2]
  <1>1. y = Field(x.tag, x.num % Word, x.data)
    BY WireField DEF Field
  <1>2. y \in W /\ y.tag = x.tag /\ y.num = x.num % Word
    <2> DEFINE n == x.num % Word
    <2>1. n \in Nat /\ x.tag \in Int /\ x.data \in Seq(W)
      <3>1. x.num \in Nat /\ x.tag \in Int /\ x.data \in Seq(W)
        BY WireField
      <3>2. n \in 0 .. Word - 1
        BY <3>1, Modulo
      <3> QED
        BY <3>1, <3>2, WordAssumption
    <2>2. y = Field(x.tag, n, x.data)
      BY <1>1
    <2> HIDE DEF y, n
    <2>3. y \in W /\ y.tag = x.tag /\ y.num = n
      BY <2>1, <2>2, NewField
    <2> QED
      BY <2>3 DEF n
  <1>3. y.num % Word = y.num
    BY <1>2, WireField, Remainder
  <1>4. [y EXCEPT !.num = @ % Word] = y
    <2> DEFINE n == x.num % Word
    <2>1. y = [tag |-> x.tag, num |-> n, data |-> x.data] /\ n % Word = n
      BY <1>1, <1>2, <1>3 DEF Field
    <2> HIDE DEF y, n
    <2> QED
      BY <2>1
  <1> HIDE DEF y
  <1>5. kind \notin DOMAIN Messages /\ kind \notin {"string", "bytes"}
    BY Kinds DEF Basic
  <1>6. ASSUME NEW m
        PROVE  ReadNext(T, State("reading", m), y) = State("reading", KeepUnknown(m, y))
    BY <1>2, <1>3, <1>4, <1>5, ReadKnown
  <1> QED
    BY <1>2, <1>6 DEF Surplus, y

-----------------------------------------------------------------------------
(* What one field does, to whatever message it is read into.                 *)

Odd(W, T, x) ==
    \E y \in Surplus(W, T) : \A m :
        ReadNext(T, State("reading", m), x) = State("reading", KeepUnknown(m, y))

Puts(W, T, x) ==
    /\ Known(T, x.tag) /\ Reader(T, x.tag)[2] \notin DOMAIN Messages
    /\ \E v \in Values(W, Reader(T, x.tag)[2]) : \A m :
        ReadNext(T, State("reading", m), x)
          = State("reading", PutIn(T, m, Reader(T, x.tag)[3], v))

Embedded(T, x) == Known(T, x.tag) /\ Reader(T, x.tag)[2] \in DOMAIN Messages

\* What reading one field does: stop, fail, keep it as unknown, or put a value.
LEMMA Effect ==
    ASSUME NEW W, Knot(W), NEW T \in DOMAIN Messages, NEW x \in W,
           NEW m, ReadNext(T, State("reading", m), x).how = "reading"
    PROVE  Odd(W, T, x) \/ Puts(W, T, x) \/ Embedded(T, x)
  <1> DEFINE kind == Reader(T, x.tag)[2]
             f == Reader(T, x.tag)[3]
  <1>1. CASE ~Known(T, x.tag)
    <2>1. x \in Surplus(W, T)
      BY <1>1, UnknownIsKept
    <2> QED
      BY <2>1 DEF Odd, Surplus
  <1>2. CASE Known(T, x.tag) /\ kind \in DOMAIN Messages
    BY <1>2 DEF Embedded
  <1>3. CASE Known(T, x.tag) /\ kind \in DOMAIN IsValid /\ x.num % Word \notin IsValid[kind]
    <2> DEFINE y == [x EXCEPT !.num = @ % Word]
    <2>1. y \in Surplus(W, T)
      BY <1>3, OddValueIsKept
    <2>2. kind \notin DOMAIN Messages /\ kind \notin {"string", "bytes"}
      BY <1>3, Kinds DEF Basic
    <2>3. ASSUME NEW n
          PROVE  ReadNext(T, State("reading", n), x) = State("reading", KeepUnknown(n, y))
      BY <1>3, <2>2, ReadKnown
    <2> HIDE DEF y
    <2> QED
      BY <2>1, <2>3 DEF Odd
  <1>4. CASE Known(T, x.tag) /\ kind \in DOMAIN IsValid /\ x.num % Word \in IsValid[kind]
    <2> DEFINE v == x.num % Word
    <2>1. kind \notin DOMAIN Messages /\ kind \notin {"string", "bytes"}
      BY <1>4, Kinds DEF Basic
    <2>2. v \in Values(W, kind)
      BY <1>4, <2>1 DEF Values, Numbers
    <2>3. ASSUME NEW n
          PROVE  ReadNext(T, State("reading", n), x) = State("reading", PutIn(T, n, f, v))
      BY <1>4, <2>1, ReadKnown
    <2> HIDE DEF v
    <2> QED
      BY <1>4, <2>1, <2>2, <2>3 DEF Puts
  <1>5. CASE Known(T, x.tag) /\ kind \in {"string", "bytes"}
    <2>1. kind \notin DOMAIN Messages
      BY <1>5, Kinds DEF Basic
    <2>2. x.data \in Values(W, kind)
      BY <1>5, <2>1, WireField DEF Values
    <2>3. ASSUME NEW n
          PROVE  ReadNext(T, State("reading", n), x) = State("reading", PutIn(T, n, f, x.data))
      BY <1>5, <2>1, ReadKnown
    <2> QED
      BY <1>5, <2>1, <2>2, <2>3 DEF Puts
  <1>6. CASE Known(T, x.tag) /\ kind \in Basic \ {"string", "bytes"}
    <2> DEFINE v == Primitive(kind, x.num)
    <2>1. kind \notin DOMAIN Messages /\ kind \notin DOMAIN IsValid /\ kind \notin {"string", "bytes"}
      BY <1>6, Kinds
    <2>2. v \in Values(W, kind)
      BY <1>6, <2>1, WireField, PrimitiveIs DEF Values
    <2>3. ASSUME NEW n
          PROVE  ReadNext(T, State("reading", n), x) = State("reading", PutIn(T, n, f, v))
      <3> HIDE DEF v
      <3> DEFINE sub == MergePartialFromCodedStream(kind, There(T, n, f), x.data)
      <3>1. ReadNext(T, State("reading", n), x)
              = IF kind \in DOMAIN Messages
                THEN IF sub.how = "reading" THEN State("reading", PutIn(T, n, f, sub.msg))
                     ELSE Failed
                ELSE IF kind \in {"string", "bytes"} THEN State("reading", PutIn(T, n, f, x.data))
                ELSE IF kind \in DOMAIN IsValid
                THEN IF x.num % Word \in IsValid[kind]
                     THEN State("reading", PutIn(T, n, f, x.num % Word))
                     ELSE State("reading", KeepUnknown(n, [x EXCEPT !.num = @ % Word]))
                ELSE State("reading", PutIn(T, n, f, v))
        BY <1>6, ReadKnown DEF v
      <3> HIDE DEF kind, sub
      <3> QED
        BY <2>1, <3>1
    <2> HIDE DEF v
    <2> QED
      BY <1>6, <2>1, <2>2, <2>3 DEF Puts
  <1>7. Known(T, x.tag) => kind \in Basic \union DOMAIN IsValid \union DOMAIN Messages
    BY Readers
  <1> QED
    BY <1>1, <1>2, <1>3, <1>4, <1>5, <1>6, <1>7

\* A message inside is put if it was read to the end of its bytes.
LEMMA ReadEmbedded ==
    ASSUME NEW W, Knot(W), NEW T \in DOMAIN Messages, NEW m, NEW x \in W, Embedded(T, x)
    PROVE  LET f == Reader(T, x.tag)[3]
               sub == MergePartialFromCodedStream(Reader(T, x.tag)[2], There(T, m, f), x.data)
           IN  ReadNext(T, State("reading", m), x)
                 = IF sub.how = "reading" THEN State("reading", PutIn(T, m, f, sub.msg)) ELSE Failed
  BY ReadKnown DEF Embedded

\* The message there before an embedded one is read.
LEMMA ThereIsReadable ==
    ASSUME NEW W, NEW T \in DOMAIN Messages, NEW m, Shaped(W, T, m),
           NEW f \in Names(T), Kind(T, f) \in DOMAIN Messages
    PROVE  There(T, m, f) \in Readables(W, Kind(T, f))
  BY ReadableIs DEF There, Shaped, Values

\* Putting a value of its field leaves a message in shape.
LEMMA ShapedPut ==
    ASSUME NEW W, NEW T, NEW m, Shaped(W, T, m),
           NEW f \in Names(T), NEW v \in Values(W, Kind(T, f))
    PROVE  Shaped(W, T, PutIn(T, m, f, v))
  <1> DEFINE V(g) == Values(W, Kind(T, g))
             n == PutIn(T, m, f, v)
             old == m.set[f]
             new == n.set[f]
  <1>0. IsRecord(m)
    BY DEF Shaped
  <1>1. IsSet(m, f, NewValue(T, m, f, v), n)
    BY <1>0, PutIs
  <1>2. IsRepeated(T, f) => new \in Seq(V(f)) /\ new # <<>>
    <2>1. CASE IsRepeated(T, f) /\ f \in DOMAIN m.set
      <3>1. old \in Seq(V(f))
        BY <2>1 DEF Shaped
      <3>2. new = Append(old, v)
        BY <1>1, <2>1 DEF IsSet, NewValue
      <3> HIDE DEF old, new, V
      <3>3. Append(old, v) \in Seq(Values(W, Kind(T, f))) /\ Append(old, v) # <<>>
        BY <3>1, AppendProperties DEF V
      <3> QED
        BY <3>2, <3>3 DEF V
    <2>2. CASE IsRepeated(T, f) /\ f \notin DOMAIN m.set
      <3>1. new = <<v>>
        BY <1>1, <2>2 DEF IsSet, NewValue
      <3> QED
        BY <3>1
    <2> QED
      BY <2>1, <2>2
  <1>3. ~IsRepeated(T, f) => new \in V(f)
    BY <1>1 DEF IsSet, NewValue
  <1> HIDE DEF n
  <1>4. \A g \in DOMAIN n.set : IF IsRepeated(T, g) THEN n.set[g] \in Seq(V(g)) /\ n.set[g] # <<>>
                                ELSE n.set[g] \in V(g)
    <2> SUFFICES ASSUME NEW g \in DOMAIN n.set
                 PROVE  IF IsRepeated(T, g) THEN n.set[g] \in Seq(V(g)) /\ n.set[g] # <<>>
                        ELSE n.set[g] \in V(g)
      OBVIOUS
    <2>1. CASE g = f
      BY <1>2, <1>3, <2>1
    <2>2. CASE g # f
      <3>1. g \in DOMAIN m.set /\ n.set[g] = m.set[g]
        BY <1>1, <2>2 DEF IsSet
      <3> QED
        BY <3>1 DEF Shaped
    <2> QED
      BY <2>1, <2>2
  <1>5. DOMAIN n.set \subseteq Names(T) /\ n.unknown \in Seq(Surplus(W, T))
    BY <1>1 DEF Shaped, IsSet
  <1> HIDE DEF V
  <1>6. Shaped(W, T, n)
    BY <1>1, <1>4, <1>5 DEF Shaped, V, IsSet
  <1> QED
    BY <1>6 DEF n

\* Keeping a field that is kept wherever it is read leaves it in shape.
LEMMA ShapedKeep ==
    ASSUME NEW W, NEW T, NEW m, Shaped(W, T, m), NEW x \in Surplus(W, T)
    PROVE  Shaped(W, T, KeepUnknown(m, x))
  <1> DEFINE n == KeepUnknown(m, x)
             u == m.unknown
  <1>1. IsRecord(m) /\ u \in Seq(Surplus(W, T))
    BY DEF Shaped
  <1>2. IsRecord(n) /\ n.set = m.set /\ n.unknown = Append(u, x)
    BY <1>1, KeepIs
  <1> HIDE DEF n, u
  <1>3. Append(u, x) \in Seq(Surplus(W, T))
    BY <1>1, AppendProperties
  <1>4. Shaped(W, T, n)
    BY <1>2, <1>3 DEF Shaped
  <1> QED
    BY <1>4 DEF n

\* Reading one field leaves a message in shape.
LEMMA ReadKeepsShape ==
    ASSUME NEW W, Knot(W), NEW T \in DOMAIN Messages, NEW m, Shaped(W, T, m),
           NEW x \in W, ReadNext(T, State("reading", m), x).how = "reading"
    PROVE  Shaped(W, T, ReadNext(T, State("reading", m), x).msg)
  <1> DEFINE r == Reader(T, x.tag)
  <1>1. CASE Odd(W, T, x)
    <2>1. PICK y \in Surplus(W, T) : ReadNext(T, State("reading", m), x) = State("reading", KeepUnknown(m, y))
      BY <1>1 DEF Odd
    <2> QED
      BY <2>1, ShapedKeep, StateIs
  <1>2. CASE Puts(W, T, x)
    <2>1. PICK v \in Values(W, r[2]) :
            ReadNext(T, State("reading", m), x) = State("reading", PutIn(T, m, r[3], v))
      BY <1>2 DEF Puts
    <2>2. r[3] \in Names(T) /\ Kind(T, r[3]) = r[2]
      BY <1>2, Readers DEF Puts
    <2> QED
      BY <2>1, <2>2, ShapedPut, StateIs
  <1>3. CASE Embedded(T, x)
    <2> DEFINE kind == r[2]
               f == r[3]
               there == There(T, m, f)
               sub == MergePartialFromCodedStream(kind, there, x.data)
    <2>1. f \in Names(T) /\ Kind(T, f) = kind /\ kind \in DOMAIN Messages /\ x.data \in Seq(W)
      BY <1>3, Readers, WireField DEF Embedded
    <2>2. there \in Readables(W, kind)
      BY <2>1, ThereIsReadable
    <2>3. sub.how = "reading" /\ ReadNext(T, State("reading", m), x) = State("reading", PutIn(T, m, f, sub.msg))
      BY <1>3, ReadEmbedded, StateIs DEF Failed
    <2>4. sub.msg \in Readables(W, kind)
      <3> HIDE DEF kind, there
      <3> QED
        BY <2>1, <2>2, <2>3, ReadOnReadable
    <2> HIDE DEF sub, f, kind
    <2>5. sub.msg \in Values(W, Kind(T, f))
      BY <2>1, <2>4 DEF Values
    <2>6. Shaped(W, T, PutIn(T, m, f, sub.msg))
      BY <2>1, <2>5, ShapedPut
    <2> QED
      BY <2>3, <2>6, StateIs
  <1> QED
    BY <1>1, <1>2, <1>3, Effect

\* So a message that was read has the shape of its class.
LEMMA ReadableIsShaped ==
    ASSUME NEW W, Knot(W), NEW T \in DOMAIN Messages, NEW m \in Readables(W, T)
    PROVE  Shaped(W, T, m)
  <1> DEFINE A == {a \in Seq(W) : MergePartialFromCodedStream(T, Empty, a).how = "reading"
                     => Shaped(W, T, MergePartialFromCodedStream(T, Empty, a).msg)}
  <1>1. <<>> \in A
    <2>1. Shaped(W, T, Empty)
      <3>1. Empty.set = <<>> /\ Empty.unknown = <<>> /\ IsRecord(Empty)
        BY DEF Empty, IsRecord, IsFcn
      <3> QED
        BY <3>1 DEF Shaped
    <2> QED
      BY <2>1, EmptySeq, ReadNothing, StateIs
  <1>2. ASSUME NEW a \in Seq(W), NEW x \in W, a \in A PROVE Append(a, x) \in A
    <2> DEFINE st == MergePartialFromCodedStream(T, Empty, a)
               b == Append(a, x)
    <2>1. MergePartialFromCodedStream(T, Empty, b) = ReadNext(T, st, x) /\ b \in Seq(W)
      BY ReadOneMore, AppendProperties
    <2>2. st = State(st.how, st.msg)
      BY ReadIsState DEF IsState
    <2> SUFFICES ASSUME ReadNext(T, st, x).how = "reading"
                 PROVE  Shaped(W, T, ReadNext(T, st, x).msg)
      BY <2>1
    <2>3. st.how = "reading"
      BY DEF ReadNext
    <2>4. Shaped(W, T, st.msg)
      BY <1>2, <2>3
    <2> HIDE DEF st
    <2> QED
      BY <2>2, <2>3, <2>4, ReadKeepsShape
  <1> HIDE DEF A
  <1>3. \A a \in Seq(W) : a \in A
    BY <1>1, <1>2, SeqInduction
  <1>4. PICK a \in Seq(W) : MergePartialFromCodedStream(T, Empty, a) = State("reading", m)
    BY ReadableIs
  <1> QED
    BY <1>3, <1>4, StateIs DEF A

-----------------------------------------------------------------------------
(* Merging.                                                                  *)

\* n is what T's MergeFrom makes of p and q.
IsMerge(T, p, q, n) ==
    /\ IsRecord(n) /\ n.unknown = p.unknown \o q.unknown
    /\ DOMAIN n.set = DOMAIN p.set \union DOMAIN q.set
    /\ \A f \in DOMAIN p.set \ DOMAIN q.set : n.set[f] = p.set[f]
    /\ \A f \in DOMAIN q.set \ DOMAIN p.set : n.set[f] = q.set[f]
    /\ \A f \in DOMAIN p.set \intersect DOMAIN q.set :
        n.set[f] = MergeValue(T, f, p.set[f], q.set[f])

\* MergeFrom field by field.
LEMMA MergeIs ==
    ASSUME NEW W, NEW T \in DOMAIN Messages, NEW p, NEW q, Shaped(W, T, q)
    PROVE  IsMerge(T, p, q, MergeFrom(T, p, q))
  <1> DEFINE s == [f \in DOMAIN p.set \union DOMAIN q.set |->
                     IF f \notin DOMAIN q.set THEN p.set[f]
                     ELSE IF f \notin DOMAIN p.set THEN q.set[f]
                     ELSE MergeValue(T, f, p.set[f], q.set[f])]
             n == MergeFrom(T, p, q)
  <1>1. DOMAIN q.set \intersect (Messages[T].keeps.short \union Messages[T].keeps.long) = DOMAIN q.set
    BY Readers DEF Shaped
  <1>2. n = [set |-> s, unknown |-> p.unknown \o q.unknown]
    BY <1>1 DEF MergeFrom
  <1>3. IsFcn(s) /\ DOMAIN s = DOMAIN p.set \union DOMAIN q.set
    BY DEF IsFcn
  <1>4. \A f \in DOMAIN s : s[f] = IF f \notin DOMAIN q.set THEN p.set[f]
                                   ELSE IF f \notin DOMAIN p.set THEN q.set[f]
                                   ELSE MergeValue(T, f, p.set[f], q.set[f])
    OBVIOUS
  <1> HIDE DEF s, n
  <1>5. n.set = s /\ n.unknown = p.unknown \o q.unknown /\ IsRecord(n)
    BY <1>2, <1>3 DEF IsRecord
  <1>6. \A f \in DOMAIN p.set \ DOMAIN q.set : n.set[f] = p.set[f]
    BY <1>3, <1>4, <1>5
  <1>7. \A f \in DOMAIN q.set \ DOMAIN p.set : n.set[f] = q.set[f]
    BY <1>3, <1>4, <1>5
  <1>8. \A f \in DOMAIN p.set \intersect DOMAIN q.set :
          n.set[f] = MergeValue(T, f, p.set[f], q.set[f])
    BY <1>3, <1>4, <1>5
  <1> QED
    BY <1>3, <1>5, <1>6, <1>7, <1>8 DEF IsMerge, n

\* Merging an empty message changes nothing.
LEMMA MergeNothing ==
    ASSUME NEW W, NEW T \in DOMAIN Messages, NEW p, Shaped(W, T, p)
    PROVE  MergeFrom(T, p, Empty) = p
  <1> DEFINE n == MergeFrom(T, p, Empty)
  <1>1. Empty.unknown = <<>> /\ DOMAIN Empty.set = {} /\ IsRecord(Empty)
    BY DEF Empty, IsRecord, IsFcn
  <1>2. Shaped(W, T, Empty)
    <2>1. <<>> \in Seq(Surplus(W, T))
      BY EmptySeq
    <2> QED
      BY <1>1, <2>1 DEF Shaped
  <1>3. IsMerge(T, p, Empty, n)
    BY <1>2, MergeIs
  <1>4. IsRecord(p) /\ p.unknown \in Seq(Surplus(W, T))
    BY DEF Shaped
  <1>5. p.unknown \o <<>> = p.unknown
    BY <1>4, ConcatEmptySeq
  <1> HIDE DEF n
  <1>6. IsRecord(n) /\ n.unknown = p.unknown /\ DOMAIN n.set = DOMAIN p.set
        /\ \A f \in DOMAIN n.set : n.set[f] = p.set[f]
    BY <1>1, <1>3, <1>5 DEF IsMerge
  <1>7. n = p
    BY <1>4, <1>6, SameMessage
  <1> QED
    BY <1>7 DEF n

\* A field put into what is merged, or into the result.
LEMMA MergeKeep ==
    ASSUME NEW W, NEW T \in DOMAIN Messages, NEW p, Shaped(W, T, p), NEW q, Shaped(W, T, q),
           NEW x \in Surplus(W, T)
    PROVE  MergeFrom(T, p, KeepUnknown(q, x)) = KeepUnknown(MergeFrom(T, p, q), x)
  <1> DEFINE k == KeepUnknown(q, x)
             n == MergeFrom(T, p, q)
             a == MergeFrom(T, p, k)
             b == KeepUnknown(n, x)
  <1>1. IsRecord(p) /\ p.unknown \in Seq(Surplus(W, T)) /\ IsRecord(q) /\ q.unknown \in Seq(Surplus(W, T))
    BY DEF Shaped
  <1>2. Shaped(W, T, k)
    BY ShapedKeep
  <1>3. k.set = q.set /\ k.unknown = Append(q.unknown, x)
    BY <1>1, KeepIs
  <1>4. IsMerge(T, p, q, n)
    BY MergeIs
  <1>5. IsMerge(T, p, k, a)
    BY <1>2, MergeIs
  <1>6. IsRecord(b) /\ b.set = n.set /\ b.unknown = Append(n.unknown, x)
    BY <1>4, KeepIs DEF IsMerge
  <1> DEFINE u == p.unknown
             v == q.unknown
  <1> HIDE DEF k, n, a, b, u, v
  <1>7. u \o Append(v, x) = Append(u \o v, x)
    <2>1. u \in Seq(Surplus(W, T)) /\ v \in Seq(Surplus(W, T))
      BY <1>1 DEF u, v
    <2> QED
      BY <2>1, ConcatProperties
  <1>8. a.unknown = b.unknown
    BY <1>3, <1>4, <1>5, <1>6, <1>7 DEF IsMerge, u, v
  <1>9. IsRecord(a) /\ IsRecord(b) /\ DOMAIN a.set = DOMAIN b.set
    BY <1>3, <1>4, <1>5, <1>6 DEF IsMerge
  <1>10. \A f \in DOMAIN a.set : a.set[f] = b.set[f]
    BY <1>3, <1>4, <1>5, <1>6 DEF IsMerge
  <1>11. a = b
    BY <1>8, <1>9, <1>10, SameMessage
  <1> QED
    BY <1>11 DEF a, b, k, n

\* The value put into the result for v put into what is merged.
PutThrough(T, p, f, v) ==
    IF f \in DOMAIN p.set /\ ~IsRepeated(T, f) THEN MergeValue(T, f, p.set[f], v) ELSE v

\* A value put into what is merged is put through to the merged message.
LEMMA MergePut ==
    ASSUME NEW W, NEW T \in DOMAIN Messages, NEW p, Shaped(W, T, p), NEW q, Shaped(W, T, q),
           NEW f \in Names(T), NEW v \in Values(W, Kind(T, f))
    PROVE  MergeFrom(T, p, PutIn(T, q, f, v))
             = PutIn(T, MergeFrom(T, p, q), f, PutThrough(T, p, f, v))
  <1> DEFINE k == PutIn(T, q, f, v)
             n == MergeFrom(T, p, q)
             u == PutThrough(T, p, f, v)
             a == MergeFrom(T, p, k)
             b == PutIn(T, n, f, u)
  <1>1. IsRecord(p) /\ IsRecord(q)
    BY DEF Shaped
  <1>2. Shaped(W, T, k)
    BY ShapedPut
  <1>3. IsSet(q, f, NewValue(T, q, f, v), k)
    BY <1>1, PutIs
  <1>4. IsMerge(T, p, q, n)
    BY MergeIs
  <1>5. IsMerge(T, p, k, a)
    BY <1>2, MergeIs
  <1>6. IsSet(n, f, NewValue(T, n, f, u), b)
    BY <1>4, PutIs DEF IsMerge
  <1> HIDE DEF k, n, a, b, u
  <1>7. a.unknown = b.unknown /\ IsRecord(a) /\ IsRecord(b)
    BY <1>3, <1>4, <1>5, <1>6 DEF IsMerge, IsSet
  <1>8. DOMAIN a.set = DOMAIN b.set
    BY <1>3, <1>4, <1>5, <1>6 DEF IsMerge, IsSet
  <1>9. a.set[f] = b.set[f]
    <2>1. f \in DOMAIN k.set /\ k.set[f] = NewValue(T, q, f, v) /\ b.set[f] = NewValue(T, n, f, u)
      BY <1>3, <1>6 DEF IsSet
    <2>2. a.set[f] = IF f \in DOMAIN p.set THEN MergeValue(T, f, p.set[f], k.set[f]) ELSE k.set[f]
      BY <1>5, <2>1 DEF IsMerge
    <2>3. CASE ~IsRepeated(T, f)
      BY <2>1, <2>2, <2>3 DEF NewValue, u, PutThrough
    <2>4. CASE IsRepeated(T, f)
      <3> DEFINE V == Values(W, Kind(T, f))
                 s == p.set[f]
                 t == q.set[f]
      <3>1. u = v
        BY <2>4 DEF u, PutThrough
      <3>2. f \in DOMAIN p.set => s \in Seq(V)
        BY <2>4 DEF Shaped
      <3>3. f \in DOMAIN q.set => t \in Seq(V)
        BY <2>4 DEF Shaped
      <3>4. \A y : MergeValue(T, f, s, y) = s \o y
        BY <2>4 DEF MergeValue
      <3>5. v \in V
        OBVIOUS
      <3> HIDE DEF V, s, t
      <3>6. CASE f \in DOMAIN p.set /\ f \in DOMAIN q.set
        <4>1. n.set[f] = s \o t
          BY <1>4, <3>4, <3>6 DEF IsMerge, s, t
        <4>2. f \in DOMAIN n.set
          BY <1>4, <3>6 DEF IsMerge
        <4>3. s \o Append(t, v) = Append(s \o t, v)
          BY <3>2, <3>3, <3>5, <3>6, ConcatProperties
        <4>4. a.set[f] = s \o Append(t, v)
          BY <2>1, <2>2, <2>4, <3>4, <3>6 DEF NewValue, s, t
        <4>5. b.set[f] = Append(s \o t, v)
          BY <2>1, <2>4, <3>1, <4>1, <4>2 DEF NewValue
        <4> QED
          BY <4>3, <4>4, <4>5
      <3>7. CASE f \in DOMAIN p.set /\ f \notin DOMAIN q.set
        <4>1. n.set[f] = s /\ f \in DOMAIN n.set
          BY <1>4, <3>7 DEF IsMerge, s
        <4>2. a.set[f] = s \o <<v>>
          BY <2>1, <2>2, <2>4, <3>4, <3>7 DEF NewValue, s
        <4>3. b.set[f] = Append(s, v)
          BY <2>1, <2>4, <3>1, <4>1 DEF NewValue
        <4>4. s \o <<v>> = Append(s, v)
          BY <3>2, <3>5, <3>7, ConcatProperties, AppendProperties
        <4> QED
          BY <4>2, <4>3, <4>4
      <3>8. CASE f \notin DOMAIN p.set /\ f \in DOMAIN q.set
        <4>1. n.set[f] = t /\ f \in DOMAIN n.set
          BY <1>4, <3>8 DEF IsMerge, t
        <4>2. a.set[f] = Append(t, v)
          BY <2>1, <2>2, <2>4, <3>8 DEF NewValue, t
        <4>3. b.set[f] = Append(t, v)
          BY <2>1, <2>4, <3>1, <4>1 DEF NewValue
        <4> QED
          BY <4>2, <4>3
      <3>9. CASE f \notin DOMAIN p.set /\ f \notin DOMAIN q.set
        <4>1. f \notin DOMAIN n.set
          BY <1>4, <3>9 DEF IsMerge
        <4>2. a.set[f] = <<v>>
          BY <2>1, <2>2, <2>4, <3>9 DEF NewValue
        <4>3. b.set[f] = <<v>>
          BY <2>1, <2>4, <3>1, <4>1 DEF NewValue
        <4> QED
          BY <4>2, <4>3
      <3> QED
        BY <3>6, <3>7, <3>8, <3>9
    <2> QED
      BY <2>3, <2>4
  <1>10. \A g \in DOMAIN a.set : g # f => a.set[g] = b.set[g]
    <2> SUFFICES ASSUME NEW g \in DOMAIN a.set, g # f PROVE a.set[g] = b.set[g]
      OBVIOUS
    <2>1. g \in DOMAIN n.set /\ b.set[g] = n.set[g] /\ (g \in DOMAIN k.set <=> g \in DOMAIN q.set)
      BY <1>3, <1>6, <1>8 DEF IsSet
    <2>2. g \in DOMAIN q.set => k.set[g] = q.set[g]
      BY <1>3 DEF IsSet
    <2>3. a.set[g] = n.set[g]
      BY <1>4, <1>5, <2>1, <2>2 DEF IsMerge
    <2> QED
      BY <2>1, <2>3
  <1>11. a = b
    BY <1>7, <1>8, <1>9, <1>10, SameMessage
  <1> QED
    BY <1>11 DEF a, b, k, n, u

-----------------------------------------------------------------------------
(* To read on after q is to read on after p merged with q: the classes of    *)
(* which this is known.                                                      *)

Merges(W) ==
    {K \in DOMAIN Messages : \A p, q \in Readables(W, K) : \A d \in Seq(W) :
        MergePartialFromCodedStream(K, q, d).how = "reading"
        => MergePartialFromCodedStream(K, MergeFrom(K, p, q), d)
             = State("reading", MergeFrom(K, p, MergePartialFromCodedStream(K, q, d).msg))}

\* One field read after a merge is that field read before it.
LEMMA MergeField ==
    ASSUME NEW W, Knot(W), NEW T \in DOMAIN Messages, Embeds(T) \subseteq Merges(W),
           NEW p \in Readables(W, T), NEW q \in Readables(W, T), NEW x \in W,
           ReadNext(T, State("reading", q), x).how = "reading"
    PROVE  ReadNext(T, State("reading", MergeFrom(T, p, q)), x)
             = State("reading", MergeFrom(T, p, ReadNext(T, State("reading", q), x).msg))
  <1> DEFINE n == MergeFrom(T, p, q)
             kind == Reader(T, x.tag)[2]
             f == Reader(T, x.tag)[3]
  <1>1. Shaped(W, T, p) /\ Shaped(W, T, q)
    BY ReadableIsShaped
  <1>2. Known(T, x.tag) => /\ f \in Names(T) /\ Kind(T, f) = kind
                           /\ kind \in DOMAIN Messages => kind \in Embeds(T)
    BY Readers
  <1>3. CASE Odd(W, T, x)
    <2>1. PICK y \in Surplus(W, T) : \A m :
            ReadNext(T, State("reading", m), x) = State("reading", KeepUnknown(m, y))
      BY <1>3 DEF Odd
    <2>2. MergeFrom(T, p, KeepUnknown(q, y)) = KeepUnknown(n, y)
      BY <1>1, MergeKeep
    <2> QED
      BY <2>1, <2>2, StateIs
  <1>4. CASE Puts(W, T, x)
    <2>1. PICK v \in Values(W, kind) : \A m :
            ReadNext(T, State("reading", m), x) = State("reading", PutIn(T, m, f, v))
      BY <1>4 DEF Puts
    <2>2. Known(T, x.tag) /\ kind \notin DOMAIN Messages
      BY <1>4 DEF Puts
    <2>3. PutThrough(T, p, f, v) = v
      BY <1>2, <2>2 DEF PutThrough, MergeValue
    <2>4. MergeFrom(T, p, PutIn(T, q, f, v)) = PutIn(T, n, f, v)
      BY <1>1, <1>2, <2>2, <2>3, MergePut
    <2> QED
      BY <2>1, <2>4, StateIs
  <1>5. CASE Embedded(T, x)
    <2> DEFINE there == There(T, q, f)
               here == There(T, n, f)
               sub == MergePartialFromCodedStream(kind, there, x.data)
               sup == MergePartialFromCodedStream(kind, here, x.data)
    <2>1. Known(T, x.tag) /\ kind \in DOMAIN Messages /\ x.data \in Seq(W)
      BY <1>5, WireField DEF Embedded
    <2>2. sub.how = "reading" /\ ReadNext(T, State("reading", q), x) = State("reading", PutIn(T, q, f, sub.msg))
      BY <1>5, ReadEmbedded, StateIs DEF Failed
    <2>3. there \in Readables(W, kind)
      BY <1>1, <1>2, <2>1, ThereIsReadable
    <2>4. sub.msg \in Readables(W, kind)
      <3> HIDE DEF kind, there
      <3> QED
        BY <2>1, <2>2, <2>3, ReadOnReadable
    <2>5. sub.msg \in Values(W, Kind(T, f))
      <3> HIDE DEF sub, f, kind
      <3> QED
        BY <1>2, <2>1, <2>4 DEF Values
    <2>6. MergeFrom(T, p, PutIn(T, q, f, sub.msg)) = PutIn(T, n, f, PutThrough(T, p, f, sub.msg))
      <3> HIDE DEF sub, f, kind
      <3> QED
        BY <1>1, <1>2, <2>1, <2>5, MergePut
    <2>7. sup = State("reading", PutThrough(T, p, f, sub.msg))
      <3>1. IsMerge(T, p, q, n)
        BY <1>1, MergeIs
      <3>2. sub = State("reading", sub.msg)
        <4>1. IsState(sub)
          BY <2>1, ReadIsState
        <4> QED
          BY <2>2, <4>1 DEF IsState
      <3>3. CASE f \in DOMAIN p.set /\ ~IsRepeated(T, f)
        <4> DEFINE old == p.set[f]
        <4>1. old \in Readables(W, kind)
          BY <1>1, <1>2, <2>1, <3>3 DEF Shaped, Values
        <4>2. here = MergeFrom(kind, old, there)
          <5>1. CASE f \in DOMAIN q.set
            <6>1. there = q.set[f]
              BY <3>3, <5>1 DEF There
            <6>2. here = MergeValue(T, f, old, q.set[f])
              BY <3>1, <3>3, <5>1 DEF There, IsMerge
            <6>3. MergeValue(T, f, old, q.set[f]) = EmbeddedMergeFrom(kind, old, q.set[f])
              BY <1>2, <2>1, <3>3 DEF MergeValue
            <6> HIDE DEF kind, f
            <6>4. EmbeddedMergeFrom(kind, old, q.set[f]) = MergeFrom(kind, old, q.set[f])
              BY <2>1 DEF Knot
            <6> QED
              BY <6>1, <6>2, <6>3, <6>4
          <5>2. CASE f \notin DOMAIN q.set
            <6>1. there = Empty
              BY <5>2 DEF There
            <6>2. here = old
              BY <3>1, <3>3, <5>2 DEF There, IsMerge
            <6> HIDE DEF kind, f, old
            <6>3. Shaped(W, kind, old)
              BY <2>1, <4>1, ReadableIsShaped
            <6>4. MergeFrom(kind, old, Empty) = old
              BY <2>1, <6>3, MergeNothing
            <6> QED
              BY <6>1, <6>2, <6>4
          <5> QED
            BY <5>1, <5>2
        <4>3. PutThrough(T, p, f, sub.msg) = MergeFrom(kind, old, sub.msg)
          <5>1. PutThrough(T, p, f, sub.msg) = EmbeddedMergeFrom(kind, old, sub.msg)
            BY <1>2, <2>1, <3>3 DEF PutThrough, MergeValue
          <5> HIDE DEF kind, f, old, sub
          <5>2. EmbeddedMergeFrom(kind, old, sub.msg) = MergeFrom(kind, old, sub.msg)
            BY <2>1 DEF Knot
          <5> QED
            BY <5>1, <5>2
        <4>4. kind \in Merges(W)
          BY <1>2, <2>1
        <4>5. sub = MergePartialFromCodedStream(kind, there, x.data)
          OBVIOUS
        <4>6. sup = MergePartialFromCodedStream(kind, here, x.data)
          OBVIOUS
        <4> HIDE DEF kind, f, old, sub, sup, there, here
        <4>7. MergePartialFromCodedStream(kind, MergeFrom(kind, old, there), x.data)
                = State("reading", MergeFrom(kind, old, sub.msg))
          BY <2>1, <2>2, <2>3, <4>1, <4>4, <4>5 DEF Merges
        <4> QED
          BY <4>2, <4>3, <4>6, <4>7
      <3>4. CASE ~(f \in DOMAIN p.set /\ ~IsRepeated(T, f))
        <4>1. here = there
          BY <3>1, <3>4 DEF There, IsMerge
        <4>2. PutThrough(T, p, f, sub.msg) = sub.msg
          BY <3>4 DEF PutThrough
        <4> QED
          BY <3>2, <4>1, <4>2
      <3> QED
        BY <3>3, <3>4
    <2>8. sup.how = "reading" /\ sup.msg = PutThrough(T, p, f, sub.msg)
      BY <2>7, StateIs
    <2>9. ReadNext(T, State("reading", n), x) = State("reading", PutIn(T, n, f, sup.msg))
      BY <1>5, <2>8, ReadEmbedded
    <2> DEFINE k == PutIn(T, q, f, sub.msg)
    <2>10. ReadNext(T, State("reading", q), x) = State("reading", k)
      BY <2>2
    <2>11. ReadNext(T, State("reading", n), x) = State("reading", MergeFrom(T, p, k))
      BY <2>6, <2>8, <2>9
    <2> HIDE DEF k, n
    <2>12. ReadNext(T, State("reading", q), x).msg = k
      BY <2>10, StateIs
    <2> QED
      BY <2>11, <2>12 DEF n
  <1> QED
    BY <1>3, <1>4, <1>5, Effect

\* What is read before was read already.
LEMMA ReadingBefore ==
    ASSUME NEW T, NEW m, NEW S, NEW a \in Seq(S), NEW x \in S,
           MergePartialFromCodedStream(T, m, Append(a, x)).how = "reading"
    PROVE  MergePartialFromCodedStream(T, m, a).how = "reading"
  BY ReadOneMore DEF ReadNext

\* Every class merges as its parser reads on.
LEMMA AllMerge ==
    ASSUME NEW W, Knot(W)
    PROVE  \A T \in DOMAIN Messages : T \in Merges(W)
  <1> SUFFICES ASSUME NEW T \in DOMAIN Messages, Embeds(T) \subseteq Merges(W) PROVE T \in Merges(W)
    BY ByClass
  <1> SUFFICES ASSUME NEW p \in Readables(W, T), NEW q \in Readables(W, T)
               PROVE  \A d \in Seq(W) :
                 MergePartialFromCodedStream(T, q, d).how = "reading"
                 => MergePartialFromCodedStream(T, MergeFrom(T, p, q), d)
                      = State("reading", MergeFrom(T, p, MergePartialFromCodedStream(T, q, d).msg))
    BY DEF Merges
  <1> DEFINE n == MergeFrom(T, p, q)
             A == {d \in Seq(W) : MergePartialFromCodedStream(T, q, d).how = "reading"
                    => MergePartialFromCodedStream(T, n, d)
                         = State("reading", MergeFrom(T, p, MergePartialFromCodedStream(T, q, d).msg))}
  <1>1. <<>> \in A
    <2>1. <<>> \in Seq(W)
      BY EmptySeq
    <2>2. MergePartialFromCodedStream(T, q, <<>>).msg = q
      BY ReadNothing, StateIs
    <2>3. MergePartialFromCodedStream(T, n, <<>>) = State("reading", n)
      BY ReadNothing
    <2> QED
      BY <2>1, <2>2, <2>3
  <1>2. ASSUME NEW d \in Seq(W), NEW x \in W, d \in A PROVE Append(d, x) \in A
    <2> DEFINE e == Append(d, x)
               st == MergePartialFromCodedStream(T, q, d)
    <2>1. e \in Seq(W)
      BY AppendProperties
    <2>2. MergePartialFromCodedStream(T, q, e) = ReadNext(T, st, x)
      BY ReadOneMore
    <2>3. MergePartialFromCodedStream(T, n, e) = ReadNext(T, MergePartialFromCodedStream(T, n, d), x)
      BY ReadOneMore
    <2> SUFFICES ASSUME MergePartialFromCodedStream(T, q, e).how = "reading"
                 PROVE  MergePartialFromCodedStream(T, n, e)
                          = State("reading", MergeFrom(T, p, MergePartialFromCodedStream(T, q, e).msg))
      BY <2>1
    <2>4. st.how = "reading"
      BY ReadingBefore
    <2>5. st = State("reading", st.msg)
      BY <2>4, ReadIsState DEF IsState
    <2>6. st.msg \in Readables(W, T)
      BY <2>4, ReadOnReadable
    <2>7. MergePartialFromCodedStream(T, n, d) = State("reading", MergeFrom(T, p, st.msg))
      BY <1>2, <2>4
    <2> HIDE DEF st, e, n
    <2>8. ReadNext(T, State("reading", st.msg), x).how = "reading"
      BY <2>2, <2>5
    <2>9. ReadNext(T, State("reading", MergeFrom(T, p, st.msg)), x)
            = State("reading", MergeFrom(T, p, ReadNext(T, State("reading", st.msg), x).msg))
      BY <2>6, <2>8, MergeField
    <2> QED
      BY <2>2, <2>3, <2>5, <2>7, <2>9
  <1> HIDE DEF A
  <1>3. \A d \in Seq(W) : d \in A
    BY <1>1, <1>2, SeqInduction
  <1> QED
    BY <1>3 DEF A

\* Read apart and merged, or read one after the other.
LEMMA ReadApart ==
    ASSUME NEW W, Knot(W), NEW T \in DOMAIN Messages, NEW a \in Seq(W), NEW b \in Seq(W)
    PROVE  LET front == MergePartialFromCodedStream(T, Empty, a)
               back == MergePartialFromCodedStream(T, Empty, b)
           IN  front.how = "reading" /\ back.how = "reading"
               => MergePartialFromCodedStream(T, Empty, a \o b)
                    = State("reading", MergeFrom(T, front.msg, back.msg))
  <1> DEFINE front == MergePartialFromCodedStream(T, Empty, a)
             back == MergePartialFromCodedStream(T, Empty, b)
  <1> SUFFICES ASSUME front.how = "reading", back.how = "reading"
               PROVE  MergePartialFromCodedStream(T, Empty, a \o b)
                        = State("reading", MergeFrom(T, front.msg, back.msg))
    OBVIOUS
  <1>1. front.msg \in Readables(W, T) /\ Empty \in Readables(W, T)
    BY ReadableIs
  <1>2. MergePartialFromCodedStream(T, Empty, a \o b) = MergePartialFromCodedStream(T, front.msg, b)
    BY ReadOn
  <1>3. Shaped(W, T, front.msg) /\ T \in Merges(W)
    BY <1>1, ReadableIsShaped, AllMerge
  <1> DEFINE p == front.msg
  <1> HIDE DEF p
  <1>4. MergeFrom(T, p, Empty) = p
    BY <1>3, MergeNothing DEF p
  <1>5. MergePartialFromCodedStream(T, MergeFrom(T, p, Empty), b) = State("reading", MergeFrom(T, p, back.msg))
    BY <1>1, <1>3 DEF Merges, p
  <1> QED
    BY <1>2, <1>4, <1>5 DEF p

-----------------------------------------------------------------------------
(* Whether bytes are read does not depend on the message they are read into. *)

Good(T, x) == ReadNext(T, State("reading", Empty), x).how = "reading"

\* The classes of which this is known.
Steady(W) ==
    {K \in DOMAIN Messages : \A m \in Readables(W, K) : \A a \in Seq(W) :
        MergePartialFromCodedStream(K, m, a).how = "reading"
        <=> \A i \in 1 .. Len(a) : Good(K, a[i])}

\* Whether one field is read does not depend on the message, if that holds of
\* the messages inside.
LEMMA SteadyField ==
    ASSUME NEW W, Knot(W), NEW T \in DOMAIN Messages, Embeds(T) \subseteq Steady(W),
           NEW m \in Readables(W, T), NEW x \in W
    PROVE  ReadNext(T, State("reading", m), x).how = "reading" <=> Good(T, x)
  <1> DEFINE kind == Reader(T, x.tag)[2]
             f == Reader(T, x.tag)[3]
  <1>1. CASE Odd(W, T, x)
    <2>1. PICK y \in Surplus(W, T) : \A k :
            ReadNext(T, State("reading", k), x) = State("reading", KeepUnknown(k, y))
      BY <1>1 DEF Odd
    <2>2. \A k : ReadNext(T, State("reading", k), x).how = "reading"
      BY <2>1, StateIs
    <2> QED
      BY <2>2 DEF Good
  <1>2. CASE Puts(W, T, x)
    <2>1. PICK v \in Values(W, kind) : \A k :
            ReadNext(T, State("reading", k), x) = State("reading", PutIn(T, k, f, v))
      BY <1>2 DEF Puts
    <2>2. \A k : ReadNext(T, State("reading", k), x).how = "reading"
      BY <2>1, StateIs
    <2> QED
      BY <2>2 DEF Good
  <1>3. CASE Embedded(T, x)
    <2> DEFINE Sub(k) == MergePartialFromCodedStream(kind, There(T, k, f), x.data)
    <2>1. \A k : ReadNext(T, State("reading", k), x).how = "reading" <=> Sub(k).how = "reading"
      <3> SUFFICES ASSUME NEW k
                   PROVE  ReadNext(T, State("reading", k), x).how = "reading" <=> Sub(k).how = "reading"
        OBVIOUS
      <3>1. ReadNext(T, State("reading", k), x)
              = IF Sub(k).how = "reading" THEN State("reading", PutIn(T, k, f, Sub(k).msg)) ELSE Failed
        BY <1>3, ReadEmbedded
      <3>2. Failed.how = "failed" /\ State("reading", PutIn(T, k, f, Sub(k).msg)).how = "reading"
        BY StateIs DEF Failed
      <3> HIDE DEF Sub
      <3> QED
        BY <3>1, <3>2
    <2>2. kind \in DOMAIN Messages /\ kind \in Embeds(T) /\ x.data \in Seq(W)
          /\ f \in Names(T) /\ Kind(T, f) = kind
      BY <1>3, Readers, WireField DEF Embedded
    <2>3. There(T, m, f) \in Readables(W, kind)
      BY <2>2, ReadableIsShaped, ThereIsReadable
    <2>4. There(T, Empty, f) = Empty /\ Empty \in Readables(W, kind)
      BY ReadableIs DEF There, Empty
    <2>5. Sub(m).how = "reading" <=> Sub(Empty).how = "reading"
      <3> DEFINE p == There(T, m, f)
                 q == There(T, Empty, f)
      <3>1. p \in Readables(W, kind) /\ q \in Readables(W, kind) /\ kind \in Steady(W)
        BY <2>2, <2>3, <2>4
      <3> HIDE DEF kind, p, q
      <3>2. MergePartialFromCodedStream(kind, p, x.data).how = "reading"
            <=> MergePartialFromCodedStream(kind, q, x.data).how = "reading"
        BY <2>2, <3>1 DEF Steady
      <3> QED
        BY <3>2 DEF p, q
    <2> HIDE DEF Sub
    <2> QED
      BY <2>1, <2>5 DEF Good
  <1>4. CASE ~Odd(W, T, x) /\ ~Puts(W, T, x) /\ ~Embedded(T, x)
    <2>1. \A k : ReadNext(T, State("reading", k), x).how # "reading"
      BY <1>4, Effect
    <2> QED
      BY <2>1 DEF Good
  <1> QED
    BY <1>1, <1>2, <1>3, <1>4

\* No class's parser depends on the message it reads into.
LEMMA AllSteady ==
    ASSUME NEW W, Knot(W)
    PROVE  \A T \in DOMAIN Messages : T \in Steady(W)
  <1> SUFFICES ASSUME NEW T \in DOMAIN Messages, Embeds(T) \subseteq Steady(W) PROVE T \in Steady(W)
    BY ByClass
  <1> SUFFICES ASSUME NEW m \in Readables(W, T)
               PROVE  \A a \in Seq(W) : MergePartialFromCodedStream(T, m, a).how = "reading"
                                        <=> \A i \in 1 .. Len(a) : Good(T, a[i])
    BY DEF Steady
  <1> DEFINE A == {a \in Seq(W) : MergePartialFromCodedStream(T, m, a).how = "reading"
                                  <=> \A i \in 1 .. Len(a) : Good(T, a[i])}
  <1>1. <<>> \in A
    <2> DEFINE a == <<>>
    <2>1. a \in Seq(W) /\ Len(a) = 0 /\ MergePartialFromCodedStream(T, m, a) = State("reading", m)
      BY EmptySeq, ReadNothing
    <2> HIDE DEF a
    <2>2. MergePartialFromCodedStream(T, m, a).how = "reading" /\ 1 .. Len(a) = {}
      BY <2>1, StateIs
    <2> QED
      BY <2>1, <2>2 DEF a
  <1>2. ASSUME NEW a \in Seq(W), NEW x \in W, a \in A PROVE Append(a, x) \in A
    <2> DEFINE b == Append(a, x)
               st == MergePartialFromCodedStream(T, m, a)
               n == Len(a)
    <2>1. b \in Seq(W) /\ Len(b) = n + 1 /\ n \in Nat /\ b[n + 1] = x /\ \A i \in 1 .. n : b[i] = a[i]
      BY AppendProperties, LenProperties
    <2>2. MergePartialFromCodedStream(T, m, b) = ReadNext(T, st, x)
      BY ReadOneMore
    <2>3. st.how = "reading" <=> \A i \in 1 .. n : Good(T, a[i])
      BY <1>2
    <2>4. st.how = "reading" => (ReadNext(T, st, x).how = "reading" <=> Good(T, x))
      <3> SUFFICES ASSUME st.how = "reading" PROVE ReadNext(T, st, x).how = "reading" <=> Good(T, x)
        OBVIOUS
      <3>1. st.msg \in Readables(W, T)
        BY ReadOnReadable
      <3>2. st = State("reading", st.msg)
        BY ReadIsState DEF IsState
      <3> HIDE DEF st
      <3>3. ReadNext(T, State("reading", st.msg), x).how = "reading" <=> Good(T, x)
        BY <3>1, SteadyField
      <3> QED
        BY <3>2, <3>3
    <2>5. ReadNext(T, st, x).how = "reading" => st.how = "reading"
      BY DEF ReadNext
    <2>6. (\A i \in 1 .. n + 1 : Good(T, b[i])) <=> (\A i \in 1 .. n : Good(T, a[i])) /\ Good(T, x)
      <3> HIDE DEF b, n
      <3>1. 1 .. n + 1 = 1 .. n \union {n + 1}
        BY <2>1
      <3> QED
        BY <2>1, <3>1
    <2> HIDE DEF b, st, n
    <2>7. MergePartialFromCodedStream(T, m, b).how = "reading" <=> \A i \in 1 .. Len(b) : Good(T, b[i])
      BY <2>1, <2>2, <2>3, <2>4, <2>5, <2>6
    <2> QED
      BY <2>1, <2>7 DEF b
  <1> HIDE DEF A
  <1>3. \A a \in Seq(W) : a \in A
    BY <1>1, <1>2, SeqInduction
  <1> QED
    BY <1>3 DEF A

\* An input is read if each of its fields is.
LEMMA ReadIfGood ==
    ASSUME NEW W, Knot(W), NEW T \in DOMAIN Messages, NEW a \in Seq(W)
    PROVE  /\ MergePartialFromCodedStream(T, Empty, a).how = "reading"
              <=> \A i \in 1 .. Len(a) : Good(T, a[i])
           /\ \A m \in Readables(W, T) : MergePartialFromCodedStream(T, m, a).how = "reading"
              <=> \A i \in 1 .. Len(a) : Good(T, a[i])
  <1>1. T \in Steady(W)
    BY AllSteady
  <1>2. Empty \in Readables(W, T)
    BY ReadableIs
  <1>3. \A m \in Readables(W, T) : MergePartialFromCodedStream(T, m, a).how = "reading"
              <=> \A i \in 1 .. Len(a) : Good(T, a[i])
    BY <1>1 DEF Steady
  <1> QED
    BY <1>2, <1>3

-----------------------------------------------------------------------------
(* Writing one field.                                                        *)

\* Every writer of a class has a reader, for the same field and kind.
LEMMA Writers ==
    ASSUME NEW T \in DOMAIN Messages, NEW w \in ToSet(Messages[T].writes)
    PROVE  /\ w[1] \in Nat \ {0} /\ w[3] \in Names(T)
           /\ Known(T, TagOf(w)) /\ Reader(T, TagOf(w))[3] = w[3]
           /\ Reader(T, TagOf(w))[2] = Kind(T, w[3])
           /\ Kind(T, w[3]) \in Basic \union DOMAIN IsValid \union DOMAIN Messages
           /\ w[2] = WrittenAs(Kind(T, w[3]))
           /\ \A r \in Messages[T].reads : r[3] = w[3] => r[1] = TagOf(w)
  <1> DEFINE reads == Messages[T].reads
             writes == Messages[T].writes
  <1>1. /\ writes \in Seq((Nat \ {0}) \X (Basic \union {"message", "enum"}) \X STRING)
        /\ {<<TagOf(v), v[2], v[3]>> : v \in ToSet(writes)}
             = {<<r[1], WrittenAs(r[2]), r[3]>> : r \in reads}
    BY TablesAssumption DEF Agrees
  <1> HIDE DEF reads, writes
  <1>2. w[1] \in Nat \ {0}
    BY <1>1, ElementOfSeq DEF ToSet, writes
  <1>3. PICK r \in reads : <<TagOf(w), w[2], w[3]>> = <<r[1], WrittenAs(r[2]), r[3]>>
    BY <1>1 DEF writes
  <1>4. TagOf(w) = r[1] /\ w[2] = WrittenAs(r[2]) /\ w[3] = r[3]
    BY <1>3
  <1>5. /\ r[2] \in Basic \union DOMAIN IsValid \union DOMAIN Messages
        /\ r[3] \in Names(T) /\ Known(T, r[1]) /\ Reader(T, r[1]) = r /\ Kind(T, r[3]) = r[2]
    BY Readers DEF reads
  <1>6. \A q \in reads : q[3] = r[3] => q = r
    BY TablesAssumption DEF Agrees, reads
  <1> QED
    BY <1>2, <1>4, <1>5, <1>6 DEF reads

\* What the writer of a kind writes.
LEMMA WrittenIs ==
    ASSUME NEW kind \in Basic \union DOMAIN IsValid \union DOMAIN Messages
    PROVE  LET k == WrittenAs(kind)
           IN  /\ kind \in DOMAIN Messages => k = "message"
               /\ kind \in DOMAIN IsValid => k = "enum"
               /\ kind \in Basic => k = kind
  BY Kinds DEF WrittenAs

\* The wire type of a writer's tag is no end of a group, and none that does not
\* exist.
LEMMA TagIs ==
    ASSUME NEW T \in DOMAIN Messages, NEW w \in ToSet(Messages[T].writes)
    PROVE  /\ TagOf(w) \in Nat \ {0} /\ WireType(TagOf(w)) = TypeWritten(w[2])
           /\ TypeWritten(w[2]) = IF Kind(T, w[3]) \in DOMAIN Messages \union {"string", "bytes"}
                                  THEN 2 ELSE IF Kind(T, w[3]) = "float" THEN 5 ELSE 0
           /\ TagBytes(TagOf(w)) = IF w[3] \in Messages[T].keeps.short THEN 1 ELSE 2
  <1> DEFINE kind == Kind(T, w[3])
             type == TypeWritten(w[2])
  <1>1. /\ w[1] \in Nat \ {0} /\ w[3] \in Names(T) /\ Known(T, TagOf(w))
        /\ kind \in Basic \union DOMAIN IsValid \union DOMAIN Messages
        /\ w[2] = WrittenAs(kind)
        /\ \A r \in Messages[T].reads : r[3] = w[3] => r[1] = TagOf(w)
    BY Writers
  <1>2. /\ kind \in DOMAIN Messages => w[2] = "message"
        /\ kind \in DOMAIN IsValid => w[2] = "enum"
        /\ kind \in Basic => w[2] = kind
    BY <1>1, WrittenIs
  <1>3. type = IF kind \in DOMAIN Messages \union {"string", "bytes"} THEN 2
               ELSE IF kind = "float" THEN 5 ELSE 0
    <2> HIDE DEF kind
    <2>1. CASE kind \in DOMAIN Messages
      BY <1>2, <2>1 DEF TypeWritten, LENGTH_DELIMITED
    <2>2. CASE kind \in DOMAIN IsValid
      BY <1>2, <2>2, Kinds DEF TypeWritten, VARINT, Basic
    <2>3. CASE kind \in {"string", "bytes"}
      BY <1>2, <2>3, Kinds DEF TypeWritten, LENGTH_DELIMITED, Basic
    <2>4. CASE kind = "float"
      BY <1>2, <2>4, Kinds DEF TypeWritten, FIXED32, Basic
    <2>5. CASE kind \in {"uint32", "uint64", "bool"}
      BY <1>2, <2>5, Kinds DEF TypeWritten, VARINT, Basic
    <2> QED
      BY <1>1, <2>1, <2>2, <2>3, <2>4, <2>5 DEF Basic
  <1>4. TagOf(w) = w[1] * 8 + type
    BY DEF TagOf
  <1>5. type \in {0, 2, 5}
    BY <1>3
  <1> HIDE DEF type, kind
  <1>6. TagOf(w) \in Nat \ {0} /\ TagOf(w) % 8 = type
    BY <1>1, <1>4, <1>5
  <1>7. w[3] \in Messages[T].keeps.short <=> TagOf(w) < 128
    <2>1. Messages[T].keeps.short = {r[3] : r \in {q \in Messages[T].reads : q[1] < 128}}
      BY TablesAssumption DEF Agrees
    <2>2. PICK r \in Messages[T].reads : r[3] = w[3]
      BY <1>1, Readers
    <2>3. r[1] = TagOf(w)
      BY <1>1, <2>2
    <2> QED
      BY <1>1, <2>1, <2>2, <2>3
  <1>8. TagBytes(TagOf(w)) = IF w[3] \in Messages[T].keeps.short THEN 1 ELSE 2
    BY <1>7 DEF TagBytes
  <1> QED
    BY <1>3, <1>6, <1>8 DEF WireType, type, kind

\* A class reads what it wrote, and counts it right.
Writes(W) ==
    {K \in DOMAIN Messages : \A m \in Readables(W, K) :
        /\ Serialize(K, m) \in Seq(W)
        /\ MergePartialFromCodedStream(K, Empty, Serialize(K, m)) = State("reading", m)
        /\ ByteSize(K, m) = BytesOf(Serialize(K, m))}

\* A value that is written is read back as that value, and counted right.
LEMMA ValueWritten ==
    ASSUME NEW W, Knot(W), NEW T \in DOMAIN Messages, Embeds(T) \subseteq Writes(W),
           NEW w \in ToSet(Messages[T].writes), NEW v \in Values(W, Kind(T, w[3]))
    PROVE  LET x == WriteValue(T, w, v)
           IN  /\ x \in W
               /\ \A m : w[3] \notin DOMAIN m.set \/ IsRepeated(T, w[3])
                    => ReadNext(T, State("reading", m), x) = State("reading", PutIn(T, m, w[3], v))
               /\ FieldBytes(x) = ValueSize(T, w[3], v)
  <1> DEFINE f == w[3]
             kind == Kind(T, f)
             tag == TagOf(w)
             x == WriteValue(T, w, v)
             size == IF f \in Messages[T].keeps.short THEN 1 ELSE 2
  <1>1. /\ f \in Names(T) /\ Known(T, tag) /\ Reader(T, tag)[3] = f /\ Reader(T, tag)[2] = kind
        /\ kind \in Basic \union DOMAIN IsValid \union DOMAIN Messages
        /\ w[2] = WrittenAs(kind)
    BY Writers
  <1>2. tag \in Nat \ {0} /\ TagBytes(tag) = size
        /\ WireType(tag) = IF kind \in DOMAIN Messages \union {"string", "bytes"}
                           THEN 2 ELSE IF kind = "float" THEN 5 ELSE 0
    BY TagIs
  <1>3. /\ kind \in DOMAIN Messages => w[2] = "message"
        /\ kind \in DOMAIN IsValid => w[2] = "enum"
        /\ kind \in Basic => w[2] = kind
    BY <1>1, WrittenIs
  <1>4. \A d \in Seq(W) : WireType(tag) = 2 =>
          /\ Field(tag, 0, d) \in W
          /\ Field(tag, 0, d).tag = tag /\ Field(tag, 0, d).data = d
          /\ FieldBytes(Field(tag, 0, d)) = size + 1 + EmbeddedBytes(d)
    <2> SUFFICES ASSUME NEW d \in Seq(W), WireType(tag) = 2
                 PROVE  /\ Field(tag, 0, d) \in W
                        /\ Field(tag, 0, d).tag = tag /\ Field(tag, 0, d).data = d
                        /\ FieldBytes(Field(tag, 0, d)) = size + 1 + EmbeddedBytes(d)
      OBVIOUS
    <2> DEFINE y == Field(tag, 0, d)
    <2> HIDE DEF tag
    <2>1. y \in W /\ y.tag = tag /\ y.data = d
      BY <1>2, NewField
    <2> HIDE DEF y
    <2>2. FieldBytes(y) = size + 1 + EmbeddedBytes(d)
      BY <1>2, <2>1 DEF FieldBytes, LENGTH_DELIMITED
    <2> QED
      BY <2>1, <2>2 DEF y
  <1>5. \A n \in Nat : WireType(tag) # 2 =>
          /\ Field(tag, n, <<>>) \in W
          /\ Field(tag, n, <<>>).tag = tag /\ Field(tag, n, <<>>).num = n
          /\ FieldBytes(Field(tag, n, <<>>)) = size + 1 + 0
    <2> SUFFICES ASSUME NEW n \in Nat, WireType(tag) # 2
                 PROVE  /\ Field(tag, n, <<>>) \in W
                        /\ Field(tag, n, <<>>).tag = tag /\ Field(tag, n, <<>>).num = n
                        /\ FieldBytes(Field(tag, n, <<>>)) = size + 1 + 0
      OBVIOUS
    <2> DEFINE d == <<>>
               y == Field(tag, n, d)
    <2>1. d \in Seq(W)
      BY EmptySeq
    <2> HIDE DEF tag, d
    <2>2. y \in W /\ y.tag = tag /\ y.num = n
      BY <1>2, <2>1, NewField
    <2> HIDE DEF y
    <2>3. FieldBytes(y) = size + 1 + 0
      BY <1>2, <2>2 DEF FieldBytes, LENGTH_DELIMITED
    <2> QED
      BY <2>2, <2>3 DEF y, d
  <1>6. CASE kind \in DOMAIN Messages
    <2> DEFINE d == Serialize(kind, v)
    <2>1. v \in Readables(W, kind) /\ kind \in Embeds(T)
      BY <1>1, <1>6, Readers DEF Values
    <2>2. d \in Seq(W) /\ MergePartialFromCodedStream(kind, Empty, d) = State("reading", v)
          /\ ByteSize(kind, v) = BytesOf(d)
      <3> HIDE DEF kind
      <3> QED
        BY <2>1 DEF Writes
    <2>3. EmbeddedSerialize(kind, v) = d /\ EmbeddedByteSize(kind, v) = ByteSize(kind, v)
          /\ EmbeddedBytes(d) = BytesOf(d)
      <3> HIDE DEF kind
      <3> QED
        BY <1>6, <2>2 DEF Knot
    <2>4. x = Field(tag, 0, d)
      <3>1. w[2] = "message"
        BY <1>3, <1>6
      <3>2. x = Field(tag, 0, EmbeddedSerialize(kind, v))
        BY <3>1 DEF WriteValue
      <3> QED
        BY <2>3, <3>2
    <2>5. WireType(tag) = 2
      BY <1>2, <1>6
    <2> HIDE DEF d, tag, x
    <2>6. x \in W /\ x.tag = tag /\ x.data = d /\ FieldBytes(x) = size + 1 + EmbeddedBytes(d)
      BY <1>4, <2>2, <2>4, <2>5
    <2>7. ValueSize(T, f, v) = size + 1 + EmbeddedByteSize(kind, v)
      <3>1. kind \notin {"string", "bytes"}
        BY <1>6, Kinds DEF Basic
      <3> QED
        BY <1>6, <3>1 DEF ValueSize
    <2>8. FieldBytes(x) = ValueSize(T, f, v)
      BY <2>2, <2>3, <2>6, <2>7
    <2>9. ASSUME NEW m, f \notin DOMAIN m.set \/ IsRepeated(T, f)
          PROVE  ReadNext(T, State("reading", m), x) = State("reading", PutIn(T, m, f, v))
      <3>1. There(T, m, f) = Empty
        BY <2>9 DEF There
      <3>2. Embedded(T, x)
        BY <1>1, <1>6, <2>6 DEF Embedded
      <3> DEFINE sub == MergePartialFromCodedStream(kind, There(T, m, f), x.data)
      <3>3. ReadNext(T, State("reading", m), x)
              = IF sub.how = "reading" THEN State("reading", PutIn(T, m, f, sub.msg)) ELSE Failed
        BY <1>1, <2>6, <3>2, ReadEmbedded
      <3>4. sub = State("reading", v)
        BY <2>2, <2>6, <3>1
      <3>5. sub.how = "reading" /\ sub.msg = v
        BY <3>4, StateIs
      <3> HIDE DEF sub, f
      <3> QED
        BY <3>3, <3>5
    <2> QED
      BY <2>6, <2>8, <2>9 DEF x
  <1>7. CASE kind \in {"string", "bytes"}
    <2>1. kind \notin DOMAIN Messages /\ kind \notin DOMAIN IsValid /\ kind \in Basic
      BY <1>7, Kinds DEF Basic
    <2>2. v \in Seq(W)
      BY <1>7, <2>1 DEF Values
    <2>3. x = Field(tag, 0, v)
      BY <1>3, <1>7, <2>1 DEF WriteValue
    <2>4. WireType(tag) = 2
      BY <1>2, <1>7
    <2> HIDE DEF tag, x
    <2>5. x \in W /\ x.tag = tag /\ x.data = v /\ FieldBytes(x) = size + 1 + EmbeddedBytes(v)
      BY <1>4, <2>2, <2>3, <2>4
    <2>6. ValueSize(T, f, v) = size + 1 + EmbeddedBytes(v)
      BY <1>7, <2>1 DEF ValueSize
    <2>7. ASSUME NEW m
          PROVE  ReadNext(T, State("reading", m), x) = State("reading", PutIn(T, m, f, v))
      BY <1>1, <1>7, <2>1, <2>5, ReadKnown
    <2> QED
      BY <2>5, <2>6, <2>7 DEF x
  <1>8. CASE kind \in DOMAIN IsValid
    <2>1. kind \notin DOMAIN Messages /\ kind \notin {"string", "bytes"} /\ kind # "float"
      BY <1>8, Kinds DEF Basic
    <2>2. v \in IsValid[kind] /\ v \in Nat /\ v < Word
      BY <1>8, <2>1, Kinds, WordAssumption DEF Values, Numbers
    <2>3. x = Field(tag, v, <<>>)
      BY <1>3, <1>8 DEF WriteValue
    <2>4. WireType(tag) # 2
      BY <1>2, <2>1
    <2> HIDE DEF tag, x
    <2>5. x \in W /\ x.tag = tag /\ x.num = v /\ FieldBytes(x) = size + 1 + 0
      BY <1>5, <2>2, <2>3, <2>4
    <2>6. ValueSize(T, f, v) = size + 1 + 0
      BY <2>1 DEF ValueSize
    <2>7. x.num % Word = v
      BY <2>2, <2>5, Modulo
    <2>8. ASSUME NEW m
          PROVE  ReadNext(T, State("reading", m), x) = State("reading", PutIn(T, m, f, v))
      BY <1>1, <1>8, <2>1, <2>2, <2>5, <2>7, ReadKnown
    <2> QED
      BY <2>5, <2>6, <2>8 DEF x
  <1>9. CASE kind \in Basic \ {"string", "bytes"}
    <2>1. kind \notin DOMAIN Messages /\ kind \notin {"string", "bytes"} /\ kind \notin DOMAIN IsValid
      BY <1>9, Kinds DEF Basic
    <2>2. v \in Nat /\ Primitive(kind, v) = v
      <3>1. CASE kind = "uint32"
        BY <2>1, <3>1, Modulo, WordAssumption DEF Values, Numbers, Primitive
      <3>2. CASE kind = "bool"
        BY <2>1, <3>2 DEF Values, Numbers, Primitive
      <3>3. CASE kind \in {"uint64", "float"}
        BY <2>1, <3>3 DEF Values, Numbers, Primitive
      <3> QED
        BY <1>9, <3>1, <3>2, <3>3 DEF Basic
    <2>3. w[2] = kind /\ kind # "message"
      BY <1>3, <1>9 DEF Basic
    <2>4. x = Field(tag, v, <<>>)
      BY <2>1, <2>3 DEF WriteValue
    <2>5. WireType(tag) # 2
      BY <1>2, <2>1
    <2> HIDE DEF tag, x
    <2>6. x \in W /\ x.tag = tag /\ x.num = v /\ FieldBytes(x) = size + 1 + 0
      BY <1>5, <2>2, <2>4, <2>5
    <2>7. ValueSize(T, f, v) = size + 1 + 0
      BY <2>1 DEF ValueSize
    <2>8. ASSUME NEW m
          PROVE  ReadNext(T, State("reading", m), x) = State("reading", PutIn(T, m, f, v))
      <3> DEFINE sub == MergePartialFromCodedStream(kind, There(T, m, f), x.data)
      <3>1. ReadNext(T, State("reading", m), x)
              = IF kind \in DOMAIN Messages
                THEN IF sub.how = "reading" THEN State("reading", PutIn(T, m, f, sub.msg))
                     ELSE Failed
                ELSE IF kind \in {"string", "bytes"} THEN State("reading", PutIn(T, m, f, x.data))
                ELSE IF kind \in DOMAIN IsValid
                THEN IF x.num % Word \in IsValid[kind]
                     THEN State("reading", PutIn(T, m, f, x.num % Word))
                     ELSE State("reading", KeepUnknown(m, [x EXCEPT !.num = @ % Word]))
                ELSE State("reading", PutIn(T, m, f, Primitive(kind, x.num)))
        BY <1>1, <2>6, ReadKnown
      <3> HIDE DEF kind, sub
      <3> QED
        BY <2>1, <2>2, <2>6, <3>1
    <2> QED
      BY <2>6, <2>7, <2>8 DEF x
  <1> QED
    BY <1>1, <1>6, <1>7, <1>8, <1>9

-----------------------------------------------------------------------------
(* Writing a message, and reading it again.                                  *)

\* No sequences behind each other.
LEMMA FlattenNone ==
    ASSUME NEW ss, Len(ss) = 0
    PROVE  FlattenSeq(ss) = ss
  BY DEF FlattenSeq

\* FlattenSeq with one sequence more.
LEMMA FlattenIs ==
    ASSUME NEW S, NEW ss \in Seq(Seq(S))
    PROVE  /\ FlattenSeq(ss) \in Seq(S)
           /\ \A x \in Seq(S) : FlattenSeq(Append(ss, x)) = FlattenSeq(ss) \o x
  <1> DEFINE Q == Seq(S)
             More(s) == \A x \in Q : FlattenSeq(Append(s, x)) = FlattenSeq(s) \o x
             A == {s \in Seq(Q) : FlattenSeq(s) \in Q /\ More(s)}
  <1>1. ASSUME NEW s \in Seq(Q), FlattenSeq(s) \in Q PROVE More(s)
    <2> SUFFICES ASSUME NEW x \in Q PROVE FlattenSeq(Append(s, x)) = FlattenSeq(s) \o x
      OBVIOUS
    <2> DEFINE t == Append(s, x)
    <2>1. t \in Seq(Q) /\ Len(t) = Len(s) + 1 /\ Len(s) \in Nat /\ t[Len(s) + 1] = x
      BY AppendProperties, LenProperties
    <2>2. CASE Len(s) = 0
      <3>1. s = <<>> /\ FlattenSeq(s) = s
        BY <2>2, FlattenNone, EmptySeq
      <3> HIDE DEF t
      <3>2. FlattenSeq(t) = t[1]
        BY <2>1, <2>2, FlattenOne
      <3>3. <<>> \o x = x
        BY ConcatEmptySeq
      <3> QED
        BY <2>1, <2>2, <3>1, <3>2, <3>3 DEF t
    <2>3. CASE Len(s) > 0
      <3> HIDE DEF Q
      <3> QED
        BY <2>3, FlattenMore
    <2> QED
      BY <2>1, <2>2, <2>3
  <1>2. <<>> \in A
    <2> DEFINE s == <<>>
    <2>1. s \in Seq(Q) /\ s \in Q /\ Len(s) = 0
      BY EmptySeq
    <2> HIDE DEF s
    <2>2. FlattenSeq(s) = s
      BY <2>1, FlattenNone
    <2>3. s \in A
      BY <1>1, <2>1, <2>2
    <2> QED
      BY <2>3 DEF s
  <1>3. ASSUME NEW s \in Seq(Q), NEW x \in Q, s \in A PROVE Append(s, x) \in A
    <2> DEFINE t == Append(s, x)
    <2>1. t \in Seq(Q)
      BY AppendProperties
    <2>2. FlattenSeq(t) = FlattenSeq(s) \o x /\ FlattenSeq(s) \in Q
      BY <1>3
    <2>3. FlattenSeq(t) \in Q
      BY <2>2, ConcatProperties
    <2> HIDE DEF t
    <2>4. t \in A
      BY <1>1, <2>1, <2>3
    <2> QED
      BY <2>4 DEF t
  <1>4. \A s \in Seq(Q) : s \in A
    <2> HIDE DEF A, Q
    <2> QED
      BY <1>2, <1>3, SeqInduction
  <1> QED
    BY <1>4

\* The values of a repeated field.
InTurn(T, w, vs) == [i \in DOMAIN vs |-> WriteValue(T, w, vs[i])]

\* The elements of a repeated field are written one behind the other.
LEMMA InTurnMore ==
    ASSUME NEW S, NEW T, NEW w, NEW vs \in Seq(S), NEW v \in S
    PROVE  InTurn(T, w, Append(vs, v)) = Append(InTurn(T, w, vs), WriteValue(T, w, v))
  <1> DEFINE n == Len(vs)
             us == Append(vs, v)
             Val(i) == WriteValue(T, w, us[i])
  <1>1. n \in Nat /\ DOMAIN vs = 1 .. n /\ DOMAIN us = 1 .. n + 1
        /\ us[n + 1] = v /\ \A i \in 1 .. n : us[i] = vs[i]
    BY AppendProperties, LenProperties
  <1> DEFINE a == InTurn(T, w, vs)
             x == WriteValue(T, w, v)
  <1>2. a = [i \in 1 .. n |-> Val(i)] /\ x = Val(n + 1)
    BY <1>1 DEF InTurn
  <1>3. InTurn(T, w, us) = [i \in 1 .. n + 1 |-> Val(i)]
    BY <1>1 DEF InTurn
  <1> HIDE DEF n, us, a, x, Val
  <1>4. Append([i \in 1 .. n |-> Val(i)], Val(n + 1)) = [i \in 1 .. n + 1 |-> Val(i)]
    BY <1>1
  <1> QED
    BY <1>2, <1>3, <1>4 DEF us, a, x

\* What is set again is as it was set last.
LEMMA SetTwice ==
    ASSUME NEW m, NEW f, NEW u, NEW k, IsSet(m, f, u, k), NEW v, NEW n, IsSet(k, f, v, n)
    PROVE  IsSet(m, f, v, n)
  BY DEF IsSet

\* A repeated field is read back element by element.
LEMMA ValuesWritten ==
    ASSUME NEW W, Knot(W), NEW T \in DOMAIN Messages, Embeds(T) \subseteq Writes(W),
           NEW w \in ToSet(Messages[T].writes), IsRepeated(T, w[3]),
           NEW vs \in Seq(Values(W, Kind(T, w[3]))),
           NEW m, IsRecord(m), w[3] \notin DOMAIN m.set
    PROVE  /\ InTurn(T, w, vs) \in Seq(W)
           /\ BytesOf(InTurn(T, w, vs)) = SumFunction([i \in DOMAIN vs |-> ValueSize(T, w[3], vs[i])])
           /\ \E k : /\ MergePartialFromCodedStream(T, m, InTurn(T, w, vs)) = State("reading", k)
                     /\ vs # <<>> => IsSet(m, w[3], vs, k)
  <1> DEFINE f == w[3]
             V == Values(W, Kind(T, f))
             a == InTurn(T, w, vs)
  <1>1. \A v \in V : WriteValue(T, w, v) \in W /\ FieldBytes(WriteValue(T, w, v)) = ValueSize(T, f, v)
    BY ValueWritten
  <1>2. Len(vs) \in Nat /\ DOMAIN vs = 1 .. Len(vs) /\ \A i \in 1 .. Len(vs) : vs[i] \in V
    BY LenProperties, ElementOfSeq
  <1>3. a \in Seq(W)
    <2> HIDE DEF V
    <2>1. \A i \in 1 .. Len(vs) : WriteValue(T, w, vs[i]) \in W
      BY <1>1, <1>2
    <2>2. a = [i \in 1 .. Len(vs) |-> WriteValue(T, w, vs[i])]
      BY <1>2 DEF InTurn
    <2> HIDE DEF a
    <2> QED
      BY <1>2, <2>1, <2>2, IsASeq
  <1>4. BytesOf(a) = SumFunction([i \in DOMAIN vs |-> ValueSize(T, f, vs[i])])
    <2> HIDE DEF V, f
    <2>1. DOMAIN a = DOMAIN vs /\ \A i \in DOMAIN vs : a[i] = WriteValue(T, w, vs[i])
      BY DEF InTurn
    <2> HIDE DEF a
    <2>2. [i \in DOMAIN a |-> FieldBytes(a[i])] = [i \in DOMAIN vs |-> ValueSize(T, f, vs[i])]
      BY <1>1, <1>2, <2>1
    <2> QED
      BY <2>2 DEF BytesOf
  <1> DEFINE Reads(s, k) ==
               /\ MergePartialFromCodedStream(T, m, InTurn(T, w, s)) = State("reading", k)
               /\ s = <<>> => k = m
               /\ s # <<>> => IsSet(m, f, s, k)
             A == {s \in Seq(V) : InTurn(T, w, s) \in Seq(W) /\ \E k : Reads(s, k)}
  <1>5. <<>> \in A
    <2> DEFINE s == <<>>
    <2>1. InTurn(T, w, <<>>) = <<>> /\ <<>> \in Seq(V) /\ <<>> \in Seq(W)
      BY EmptySeq DEF InTurn
    <2>2. Reads(<<>>, m)
      BY <2>1, ReadNothing
    <2> QED
      BY <2>1, <2>2
  <1>6. ASSUME NEW s \in Seq(V), NEW v \in V, s \in A PROVE Append(s, v) \in A
    <2> DEFINE b == InTurn(T, w, s)
               x == WriteValue(T, w, v)
               t == Append(s, v)
    <2>1. PICK k : Reads(s, k)
      BY <1>6
    <2>2. b \in Seq(W) /\ x \in W /\ t \in Seq(V) /\ t # <<>>
      BY <1>1, <1>6, AppendProperties
    <2>3. InTurn(T, w, t) = Append(b, x)
      BY InTurnMore
    <2>4. MergePartialFromCodedStream(T, m, b) = State("reading", k)
      BY <2>1
    <2> DEFINE n == PutIn(T, k, f, v)
    <2>5. ReadNext(T, State("reading", k), x) = State("reading", n)
      BY ValueWritten
    <2> HIDE DEF b, x
    <2>6. MergePartialFromCodedStream(T, m, InTurn(T, w, t)) = State("reading", n)
      BY <2>2, <2>3, <2>4, <2>5, ReadOneMore
    <2>7. InTurn(T, w, t) \in Seq(W)
      BY <2>2, <2>3, AppendProperties
    <2>8. IsRecord(k)
      BY <2>1 DEF IsSet
    <2>9. IsSet(k, f, NewValue(T, k, f, v), n)
      BY <2>8, PutIs
    <2>10. IsSet(m, f, t, n)
      <3>1. CASE s = <<>>
        <4>1. k = m /\ NewValue(T, k, f, v) = <<v>> /\ t = <<v>>
          BY <2>1, <3>1 DEF NewValue
        <4> QED
          BY <2>9, <4>1
      <3>2. CASE s # <<>>
        <4>1. IsSet(m, f, s, k)
          BY <2>1, <3>2
        <4>2. NewValue(T, k, f, v) = t
          BY <4>1 DEF NewValue, IsSet
        <4> HIDE DEF n, t, f
        <4> QED
          BY <2>9, <4>1, <4>2, SetTwice
      <3> QED
        BY <3>1, <3>2
    <2> HIDE DEF n, t
    <2>11. Reads(t, n)
      BY <2>2, <2>6, <2>10
    <2> HIDE DEF Reads
    <2>12. t \in A
      BY <2>2, <2>7, <2>11
    <2> QED
      BY <2>12 DEF t
  <1>7. \A s \in Seq(V) : s \in A
    <2> HIDE DEF A, V
    <2> QED
      BY <1>5, <1>6, SeqInduction
  <1>8. PICK k : Reads(vs, k)
    BY <1>7
  <1> QED
    BY <1>3, <1>4, <1>8

\* A field of a message is read back as that field.
LEMMA FieldWritten ==
    ASSUME NEW W, Knot(W), NEW T \in DOMAIN Messages, Embeds(T) \subseteq Writes(W),
           NEW w \in ToSet(Messages[T].writes), NEW m, Shaped(W, T, m),
           NEW k, IsRecord(k), w[3] \notin DOMAIN k.set
    PROVE  LET a == WriteField(T, m, w)
           IN  /\ a \in Seq(W)
               /\ w[3] \notin DOMAIN m.set => a = <<>>
               /\ w[3] \in DOMAIN m.set =>
                    /\ BytesOf(a) = FieldSize(T, m, w[3])
                    /\ \E n : /\ MergePartialFromCodedStream(T, k, a) = State("reading", n)
                              /\ IsSet(k, w[3], m.set[w[3]], n)
  <1> DEFINE f == w[3]
             a == WriteField(T, m, w)
             v == m.set[f]
             V == Values(W, Kind(T, f))
  <1>1. CASE f \notin DOMAIN m.set
    BY <1>1, EmptySeq DEF WriteField
  <1>2. CASE f \in DOMAIN m.set /\ IsRepeated(T, f)
    <2>1. a = InTurn(T, w, v)
      BY <1>2 DEF WriteField, InTurn
    <2>2. v \in Seq(V) /\ v # <<>>
      BY <1>2 DEF Shaped
    <2>3. FieldSize(T, m, f) = SumFunction([i \in DOMAIN v |-> ValueSize(T, f, v[i])])
      BY <1>2 DEF FieldSize
    <2> HIDE DEF a, v
    <2>4. /\ a \in Seq(W)
          /\ BytesOf(a) = SumFunction([i \in DOMAIN v |-> ValueSize(T, w[3], v[i])])
          /\ \E n : /\ MergePartialFromCodedStream(T, k, a) = State("reading", n)
                    /\ v # <<>> => IsSet(k, w[3], v, n)
      BY <1>2, <2>1, <2>2, ValuesWritten
    <2> QED
      BY <1>2, <2>2, <2>3, <2>4 DEF a, v
  <1>3. CASE f \in DOMAIN m.set /\ ~IsRepeated(T, f)
    <2> DEFINE x == WriteValue(T, w, v)
    <2>1. a = <<x>>
      BY <1>3 DEF WriteField
    <2>2. v \in V
      BY <1>3 DEF Shaped
    <2>3. FieldSize(T, m, f) = ValueSize(T, f, v)
      BY <1>3 DEF FieldSize
    <2> DEFINE n == PutIn(T, k, f, v)
    <2> HIDE DEF v
    <2>4. x \in W /\ FieldBytes(x) = ValueSize(T, f, v)
          /\ ReadNext(T, State("reading", k), x) = State("reading", n)
      BY <2>2, ValueWritten
    <2> DEFINE e == <<>>
    <2>5. a = Append(e, x) /\ e \in Seq(W) /\ BytesOf(e) = 0
          /\ MergePartialFromCodedStream(T, k, e) = State("reading", k)
      BY <2>1, EmptySeq, BytesOfNone, ReadNothing
    <2> HIDE DEF x, a, n, e
    <2>6. a \in Seq(W)
      BY <2>4, <2>5, AppendProperties
    <2>7. MergePartialFromCodedStream(T, k, a) = State("reading", n)
      <3>1. MergePartialFromCodedStream(T, k, Append(e, x))
              = ReadNext(T, MergePartialFromCodedStream(T, k, e), x)
        BY <2>4, <2>5, ReadOneMore
      <3> QED
        BY <2>4, <2>5, <3>1
    <2>8. BytesOf(a) = FieldBytes(x)
      <3>1. BytesOf(Append(e, x)) = BytesOf(e) + FieldBytes(x)
        BY <2>4, <2>5, BytesOfOneMore
      <3>2. FieldBytes(x) \in Nat
        BY <2>4, WireField
      <3> QED
        BY <2>5, <3>1, <3>2
    <2>9. IsSet(k, f, v, n)
      <3>1. IsSet(k, f, NewValue(T, k, f, v), n)
        BY PutIs DEF n
      <3>2. NewValue(T, k, f, v) = v
        BY <1>3 DEF NewValue
      <3> QED
        BY <3>1, <3>2
    <2> QED
      BY <1>3, <2>3, <2>4, <2>6, <2>7, <2>8, <2>9 DEF a, v
  <1> QED
    BY <1>1, <1>2, <1>3

\* The fields ws of m, written and read again.
Fresh(ws) == \A i, j \in DOMAIN ws : ws[i][3] = ws[j][3] => i = j
Through(T, m, ws) == FlattenSeq([i \in DOMAIN ws |-> WriteField(T, m, ws[i])])
Sizes(T, m) == [f \in DOMAIN m.set |-> FieldSize(T, m, f)]
Back(W, T, m, ws, k) ==
    /\ Through(T, m, ws) \in Seq(W)
    /\ MergePartialFromCodedStream(T, Empty, Through(T, m, ws)) = State("reading", k)
    /\ IsRecord(k) /\ k.unknown = <<>> /\ IsFiniteSet(DOMAIN k.set)
    /\ DOMAIN k.set = {w[3] : w \in ToSet(ws)} \intersect DOMAIN m.set
    /\ \A f \in DOMAIN k.set : k.set[f] = m.set[f]
    /\ BytesOf(Through(T, m, ws)) = SumFunctionOnSet(Sizes(T, m), DOMAIN k.set)

\* Sizes are numbers.
LEMMA FieldSizeType ==
    ASSUME NEW W, Knot(W), NEW T \in DOMAIN Messages, Embeds(T) \subseteq Writes(W),
           NEW w \in ToSet(Messages[T].writes), NEW m, Shaped(W, T, m), w[3] \in DOMAIN m.set
    PROVE  FieldSize(T, m, w[3]) \in Nat
  <1>1. IsRecord(Empty) /\ w[3] \notin DOMAIN Empty.set
    BY DEF IsRecord, IsFcn, Empty
  <1>2. WriteField(T, m, w) \in Seq(W) /\ BytesOf(WriteField(T, m, w)) = FieldSize(T, m, w[3])
    BY <1>1, FieldWritten
  <1>3. BytesOf(WriteField(T, m, w)) \in Nat
    BY <1>2 DEF Knot
  <1> QED
    BY <1>2, <1>3

\* The fields written so far, and one more.
LEMMA ThroughMore ==
    ASSUME NEW W, Knot(W), NEW T \in DOMAIN Messages, Embeds(T) \subseteq Writes(W),
           NEW m, Shaped(W, T, m),
           NEW ws \in Seq(ToSet(Messages[T].writes)), NEW w \in ToSet(Messages[T].writes)
    PROVE  Through(T, m, Append(ws, w)) = Through(T, m, ws) \o WriteField(T, m, w)
  <1> DEFINE n == Len(ws)
             us == Append(ws, w)
             Out(i) == WriteField(T, m, us[i])
             x == WriteField(T, m, w)
             ss == [i \in 1 .. n |-> Out(i)]
             N == ToSet(Messages[T].writes)
  <1>1. n \in Nat /\ DOMAIN ws = 1 .. n /\ DOMAIN us = 1 .. n + 1 /\ us[n + 1] = w
        /\ (\A i \in 1 .. n : us[i] = ws[i]) /\ (\A i \in 1 .. n : ws[i] \in N)
    <2>1. ws \in Seq(N) /\ w \in N
      OBVIOUS
    <2> HIDE DEF N
    <2>2. us \in Seq(N) /\ Len(us) = n + 1 /\ us[n + 1] = w /\ \A i \in 1 .. n : us[i] = ws[i]
      BY <2>1, AppendProperties
    <2>3. n \in Nat /\ DOMAIN ws = 1 .. n /\ DOMAIN us = 1 .. Len(us)
      BY <2>1, <2>2, LenProperties
    <2>4. \A i \in 1 .. n : ws[i] \in N
      BY <2>1, ElementOfSeq
    <2> QED
      BY <2>2, <2>3, <2>4
  <1>2. \A v \in N : WriteField(T, m, v) \in Seq(W)
    <2>1. IsRecord(Empty) /\ DOMAIN Empty.set = {}
      BY DEF IsRecord, IsFcn, Empty
    <2> QED
      BY <2>1, FieldWritten
  <1>3. [i \in DOMAIN ws |-> WriteField(T, m, ws[i])] = ss /\ x = Out(n + 1)
    BY <1>1
  <1>4. [i \in DOMAIN us |-> WriteField(T, m, us[i])] = [i \in 1 .. n + 1 |-> Out(i)]
    BY <1>1
  <1>5. ss \in Seq(Seq(W)) /\ x \in Seq(W)
    <2> HIDE DEF N, x
    <2>1. \A i \in 1 .. n : Out(i) \in Seq(W)
      BY <1>1, <1>2
    <2>2. x \in Seq(W)
      BY <1>2 DEF N, x
    <2> HIDE DEF Out, n
    <2> QED
      BY <1>1, <2>1, <2>2, IsASeq
  <1>6. [i \in 1 .. n + 1 |-> Out(i)] = Append(ss, x)
    <2> HIDE DEF Out, n, x
    <2> QED
      BY <1>1, <1>3
  <1>7. FlattenSeq(Append(ss, x)) = FlattenSeq(ss) \o x
    <2> HIDE DEF ss, x
    <2> QED
      BY <1>5, FlattenIs
  <1> QED
    BY <1>3, <1>4, <1>6, <1>7 DEF Through

\* The elements of a sequence with one more.
LEMMA ToSetMore ==
    ASSUME NEW S, NEW s \in Seq(S), NEW x \in S
    PROVE  ToSet(Append(s, x)) = ToSet(s) \union {x}
  <1>1. /\ Append(s, x) \in Seq(S) /\ Len(Append(s, x)) = Len(s) + 1 /\ Len(s) \in Nat
        /\ Append(s, x)[Len(s) + 1] = x /\ \A i \in 1 .. Len(s) : Append(s, x)[i] = s[i]
        /\ DOMAIN s = 1 .. Len(s) /\ DOMAIN Append(s, x) = 1 .. Len(s) + 1
    BY AppendProperties, LenProperties
  <1> DEFINE t == Append(s, x)
             n == Len(s)
  <1>2. n \in Nat /\ DOMAIN s = 1 .. n /\ DOMAIN t = 1 .. n + 1 /\ t[n + 1] = x
        /\ \A i \in 1 .. n : t[i] = s[i]
    BY <1>1
  <1> HIDE DEF t, n
  <1>3. 1 .. n + 1 = 1 .. n \union {n + 1}
    BY <1>2
  <1>4. ToSet(t) = ToSet(s) \union {x}
    BY <1>2, <1>3 DEF ToSet
  <1> QED
    BY <1>4 DEF t

\* If the fields written so far are read back, so are these and the next.
LEMMA BackMore ==
    ASSUME NEW W, Knot(W), NEW T \in DOMAIN Messages, Embeds(T) \subseteq Writes(W),
           NEW m, Shaped(W, T, m),
           NEW ws \in Seq(ToSet(Messages[T].writes)), NEW w \in ToSet(Messages[T].writes),
           w[3] \notin {v[3] : v \in ToSet(ws)}, NEW k, Back(W, T, m, ws, k)
    PROVE  \E n : Back(W, T, m, Append(ws, w), n)
  <1> DEFINE f == w[3]
             N == ToSet(Messages[T].writes)
             us == Append(ws, w)
             p == Through(T, m, ws)
             a == WriteField(T, m, w)
             q == Through(T, m, us)
             names == {v[3] : v \in ToSet(ws)}
             sizes == Sizes(T, m)
  <1>1. /\ p \in Seq(W) /\ MergePartialFromCodedStream(T, Empty, p) = State("reading", k)
        /\ IsRecord(k) /\ k.unknown = <<>> /\ IsFiniteSet(DOMAIN k.set)
        /\ DOMAIN k.set = names \intersect DOMAIN m.set
        /\ \A g \in DOMAIN k.set : k.set[g] = m.set[g]
        /\ BytesOf(p) = SumFunctionOnSet(sizes, DOMAIN k.set)
    BY DEF Back
  <1>2. q = p \o a
    BY ThroughMore
  <1>3. f \notin DOMAIN k.set
    BY <1>1
  <1>4. /\ a \in Seq(W)
        /\ f \notin DOMAIN m.set => a = <<>>
        /\ f \in DOMAIN m.set =>
             /\ BytesOf(a) = FieldSize(T, m, f)
             /\ \E n : /\ MergePartialFromCodedStream(T, k, a) = State("reading", n)
                       /\ IsSet(k, f, m.set[f], n)
    BY <1>1, <1>3, FieldWritten
  <1>5. {v[3] : v \in ToSet(us)} = names \union {f}
    <2> HIDE DEF N, us
    <2>1. ToSet(us) = ToSet(ws) \union {w}
      BY ToSetMore DEF N, us
    <2> QED
      BY <2>1
  <1>6. CASE f \notin DOMAIN m.set
    <2>1. q = p
      BY <1>1, <1>2, <1>4, <1>6, ConcatEmptySeq
    <2>2. (names \union {f}) \intersect DOMAIN m.set = names \intersect DOMAIN m.set
      BY <1>6
    <2> HIDE DEF f, names, us, p, q, sizes
    <2>3. Back(W, T, m, us, k)
      BY <1>1, <1>5, <2>1, <2>2 DEF Back, p, q, sizes
    <2> QED
      BY <2>3 DEF us
  <1>7. CASE f \in DOMAIN m.set
    <2>1. PICK n : /\ MergePartialFromCodedStream(T, k, a) = State("reading", n)
                   /\ IsSet(k, f, m.set[f], n)
      BY <1>4, <1>7
    <2> DEFINE S == DOMAIN n.set
    <2>2. S = DOMAIN k.set \union {f} /\ IsRecord(n) /\ n.unknown = <<>>
          /\ \A g \in S : n.set[g] = m.set[g]
      BY <1>1, <2>1 DEF IsSet
    <2>3. MergePartialFromCodedStream(T, Empty, q) = State("reading", n)
      <3> HIDE DEF p, a, q
      <3>1. MergePartialFromCodedStream(T, Empty, p \o a) = MergePartialFromCodedStream(T, k, a)
        BY <1>1, <1>4, ReadOn, StateIs
      <3> QED
        BY <1>2, <2>1, <3>1
    <2>4. q \in Seq(W) /\ BytesOf(q) = BytesOf(p) + BytesOf(a) /\ BytesOf(p) \in Nat /\ BytesOf(a) \in Nat
      <3> HIDE DEF p, a, q
      <3>1. q \in Seq(W)
        BY <1>1, <1>2, <1>4, ConcatProperties
      <3>2. BytesOf(q) = BytesOf(p) + BytesOf(a)
        BY <1>1, <1>2, <1>4, BytesOfBoth
      <3> QED
        BY <1>1, <1>4, <3>1, <3>2 DEF Knot
    <2>5. S = (names \union {f}) \intersect DOMAIN m.set
      BY <1>1, <1>7, <2>2
    <2>6. IsFiniteSet(S)
      <3> HIDE DEF S
      <3> QED
        BY <1>1, <2>2, FS_AddElement
    <2>7. \A g \in S : sizes[g] \in Nat
      <3> SUFFICES ASSUME NEW g \in S PROVE sizes[g] \in Nat
        OBVIOUS
      <3>1. \A v \in ToSet(ws) : v \in N
        <4> HIDE DEF N
        <4> QED
          BY ElementOfSeq, LenProperties DEF ToSet, N
      <3>2. PICK v \in N : v[3] = g
        BY <2>5, <3>1
      <3>3. g \in DOMAIN m.set
        BY <2>5
      <3>4. FieldSize(T, m, g) \in Nat
        BY <3>2, <3>3, FieldSizeType
      <3> QED
        BY <3>3, <3>4 DEF Sizes
    <2>8. S \ {f} = DOMAIN k.set /\ f \in S
      BY <1>3, <2>2
    <2>9. sizes[f] = BytesOf(a)
      BY <1>4, <1>7 DEF Sizes
    <2> HIDE DEF S, sizes, f, a, p, q, us, names
    <2>10. SumFunctionOnSet(sizes, S) = sizes[f] + SumFunctionOnSet(sizes, S \ {f})
      BY <2>6, <2>7, <2>8, SumOneMore
    <2>11. BytesOf(q) = SumFunctionOnSet(sizes, S)
      <3>1. SumFunctionOnSet(sizes, S \ {f}) = BytesOf(p)
        BY <1>1, <2>8
      <3> QED
        BY <2>4, <2>9, <2>10, <3>1
    <2>12. Back(W, T, m, us, n)
      BY <1>5, <2>2, <2>3, <2>4, <2>5, <2>6, <2>11 DEF Back, q, sizes, S
    <2> QED
      BY <2>12 DEF us
  <1> QED
    BY <1>6, <1>7

\* All fields are read back.
LEMMA BackAgain ==
    ASSUME NEW W, Knot(W), NEW T \in DOMAIN Messages, Embeds(T) \subseteq Writes(W),
           NEW m, Shaped(W, T, m), NEW all \in Seq(ToSet(Messages[T].writes)), Fresh(all)
    PROVE  \E k : Back(W, T, m, all, k)
  <1> DEFINE N == ToSet(Messages[T].writes)
             A == {ws \in Seq(N) : Fresh(ws) => \E k : Back(W, T, m, ws, k)}
  <1>1. <<>> \in A
    <2> DEFINE e == <<>>
               ss == [i \in DOMAIN e |-> WriteField(T, m, e[i])]
    <2>1. e \in Seq(N) /\ e \in Seq(W) /\ ToSet(e) = {}
      BY EmptySeq DEF ToSet
    <2>2. ss = e /\ Len(ss) = 0
      OBVIOUS
    <2> HIDE DEF ss
    <2>3. Through(T, m, e) = e
      BY <2>2, FlattenNone DEF Through, ss
    <2>4. Empty.set = e /\ Empty.unknown = e /\ IsRecord(Empty) /\ DOMAIN Empty.set = {}
      BY DEF Empty, IsRecord, IsFcn
    <2>5. MergePartialFromCodedStream(T, Empty, e) = State("reading", Empty) /\ BytesOf(e) = 0
      BY ReadNothing, BytesOfNone
    <2>6. SumFunctionOnSet(Sizes(T, m), {}) = 0 /\ IsFiniteSet({})
      BY SumOfNone, FS_EmptySet
    <2>7. Back(W, T, m, e, Empty)
      BY <2>1, <2>3, <2>4, <2>5, <2>6 DEF Back
    <2> QED
      BY <2>1, <2>7
  <1>2. ASSUME NEW ws \in Seq(N), NEW w \in N, ws \in A PROVE Append(ws, w) \in A
    <2> DEFINE us == Append(ws, w)
               n == Len(ws)
    <2> HIDE DEF N
    <2>1. us \in Seq(N) /\ n \in Nat /\ DOMAIN ws = 1 .. n /\ DOMAIN us = 1 .. n + 1 /\ us[n + 1] = w
          /\ \A i \in 1 .. n : us[i] = ws[i]
      BY AppendProperties, LenProperties
    <2> SUFFICES ASSUME Fresh(us) PROVE \E k : Back(W, T, m, us, k)
      BY <2>1
    <2> HIDE DEF us, n
    <2>2. Fresh(ws)
      BY <2>1 DEF Fresh
    <2>3. w[3] \notin {v[3] : v \in ToSet(ws)}
      BY <2>1 DEF Fresh, ToSet
    <2>4. PICK k : Back(W, T, m, ws, k)
      BY <1>2, <2>2
    <2> QED
      BY <2>3, <2>4, BackMore DEF N, us
  <1>3. \A ws \in Seq(N) : ws \in A
    <2> HIDE DEF A, N
    <2> QED
      BY <1>1, <1>2, SeqInduction
  <1> QED
    BY <1>3

\* The unknown fields are read as they were.
LEMMA KeptBack ==
    ASSUME NEW W, NEW T, NEW m, IsRecord(m), NEW u \in Seq(Surplus(W, T)), m.unknown = <<>>
    PROVE  \E n : /\ MergePartialFromCodedStream(T, m, u) = State("reading", n)
                  /\ IsRecord(n) /\ n.set = m.set /\ n.unknown = u
  <1> DEFINE K == Surplus(W, T)
             Reads(s, n) == /\ MergePartialFromCodedStream(T, m, s) = State("reading", n)
                            /\ IsRecord(n) /\ n.set = m.set /\ n.unknown = s
             A == {s \in Seq(K) : \E n : Reads(s, n)}
  <1>1. <<>> \in A
    <2>1. Reads(<<>>, m) /\ <<>> \in Seq(K)
      BY ReadNothing, EmptySeq
    <2> QED
      BY <2>1
  <1>2. ASSUME NEW s \in Seq(K), NEW x \in K, s \in A PROVE Append(s, x) \in A
    <2> DEFINE t == Append(s, x)
    <2>1. PICK n : Reads(s, n)
      BY <1>2
    <2>2. t \in Seq(K)
      BY AppendProperties
    <2> DEFINE k == KeepUnknown(n, x)
    <2>3. ReadNext(T, State("reading", n), x) = State("reading", k)
      BY DEF Surplus
    <2>4. MergePartialFromCodedStream(T, m, t) = State("reading", k)
      BY <2>1, <2>3, ReadOneMore
    <2>5. IsRecord(k) /\ k.set = m.set /\ k.unknown = t
      BY <2>1, KeepIs
    <2> HIDE DEF k, t
    <2>6. Reads(t, k)
      BY <2>4, <2>5
    <2> HIDE DEF Reads
    <2>7. t \in A
      BY <2>2, <2>6
    <2> QED
      BY <2>7 DEF t
  <1>3. \A s \in Seq(K) : s \in A
    <2> HIDE DEF A, K
    <2> QED
      BY <1>1, <1>2, SeqInduction
  <1> QED
    BY <1>3

\* What has the shape of a message is written, and read as that message.
LEMMA ShapedWritten ==
    ASSUME NEW W, Knot(W), NEW T \in DOMAIN Messages, Embeds(T) \subseteq Writes(W),
           NEW m, Shaped(W, T, m)
    PROVE  /\ Serialize(T, m) \in Seq(W)
           /\ MergePartialFromCodedStream(T, Empty, Serialize(T, m)) = State("reading", m)
           /\ ByteSize(T, m) = BytesOf(Serialize(T, m))
  <1> DEFINE ws == Messages[T].writes
             N == ToSet(ws)
  <1>1. ws \in Seq(N) /\ Fresh(ws) /\ {w[3] : w \in N} = Names(T)
    <2> DEFINE X == (Nat \ {0}) \X (Basic \union {"message", "enum"}) \X STRING
    <2>1. ws \in Seq(X) /\ Fresh(ws)
      BY TablesAssumption DEF Agrees, Fresh
    <2>2. ws \in Seq(N)
      <3> HIDE DEF X, ws
      <3>1. Len(ws) \in Nat /\ DOMAIN ws = 1 .. Len(ws) /\ ws = [i \in 1 .. Len(ws) |-> ws[i]]
        BY <2>1, LenProperties
      <3>2. \A i \in 1 .. Len(ws) : ws[i] \in N
        BY <3>1 DEF ToSet
      <3> HIDE DEF N
      <3> QED
        BY <3>1, <3>2, IsASeq
    <2>3. {<<TagOf(w), w[2], w[3]>> : w \in N}
             = {<<r[1], WrittenAs(r[2]), r[3]>> : r \in Messages[T].reads}
      BY TablesAssumption DEF Agrees
    <2>4. \A w \in N : w[3] \in Names(T)
      BY Writers
    <2>5. ASSUME NEW f \in Names(T) PROVE \E w \in N : w[3] = f
      <3> HIDE DEF N
      <3>1. PICK r \in Messages[T].reads : r[3] = f
        BY DEF Names
      <3>2. PICK w \in N : <<TagOf(w), w[2], w[3]>> = <<r[1], WrittenAs(r[2]), r[3]>>
        BY <2>3
      <3> QED
        BY <3>1, <3>2
    <2> HIDE DEF N
    <2> QED
      BY <2>1, <2>2, <2>4, <2>5
  <1>2. Shaped(W, T, m)
    OBVIOUS
  <1>3. PICK k : Back(W, T, m, ws, k)
    BY <1>1, <1>2, BackAgain
  <1> DEFINE p == Through(T, m, ws)
             u == m.unknown
  <1>4. Serialize(T, m) = p \o u
    BY DEF Serialize, WriteFields, Through
  <1>5. /\ p \in Seq(W) /\ MergePartialFromCodedStream(T, Empty, p) = State("reading", k)
        /\ IsRecord(k) /\ k.unknown = <<>> /\ DOMAIN k.set = DOMAIN m.set
        /\ \A f \in DOMAIN m.set : k.set[f] = m.set[f]
        /\ BytesOf(p) = SumFunctionOnSet(Sizes(T, m), DOMAIN m.set)
    <2>1. DOMAIN m.set \subseteq Names(T)
      BY <1>2 DEF Shaped
    <2> HIDE DEF ws
    <2>2. DOMAIN k.set = DOMAIN m.set
      BY <1>1, <1>3, <2>1 DEF Back
    <2> QED
      BY <1>3, <2>2 DEF Back
  <1>6. u \in Seq(Surplus(W, T)) /\ u \in Seq(W) /\ IsRecord(m)
    <2>1. u \in Seq(Surplus(W, T)) /\ IsRecord(m)
      BY <1>2 DEF Shaped
    <2>2. Surplus(W, T) \subseteq W
      BY DEF Surplus
    <2> HIDE DEF u
    <2>3. Len(u) \in Nat /\ u = [i \in 1 .. Len(u) |-> u[i]] /\ \A i \in 1 .. Len(u) : u[i] \in W
      BY <2>1, <2>2, LenProperties, ElementOfSeq
    <2>4. u \in Seq(W)
      BY <2>3, IsASeq
    <2> QED
      BY <2>1, <2>4
  <1> HIDE DEF p
  <1>7. PICK n : /\ MergePartialFromCodedStream(T, k, u) = State("reading", n)
                 /\ IsRecord(n) /\ n.set = k.set /\ n.unknown = u
    BY <1>5, <1>6, KeptBack
  <1>8. n = m
    BY <1>5, <1>6, <1>7, SameMessage
  <1>9. MergePartialFromCodedStream(T, Empty, p \o u) = State("reading", m)
    <2> HIDE DEF u
    <2>1. MergePartialFromCodedStream(T, Empty, p \o u) = MergePartialFromCodedStream(T, k, u)
      BY <1>5, <1>6, ReadOn, StateIs
    <2> QED
      BY <1>7, <1>8, <2>1
  <1>10. p \o u \in Seq(W) /\ BytesOf(p \o u) = BytesOf(p) + BytesOf(u)
    <2> HIDE DEF u
    <2> QED
      BY <1>5, <1>6, ConcatProperties, BytesOfBoth
  <1>11. ByteSize(T, m) = BytesOf(p) + BytesOf(u)
    <2>1. DOMAIN m.set \intersect (Messages[T].keeps.short \union Messages[T].keeps.long) = DOMAIN m.set
      BY <1>2, Readers DEF Shaped
    <2>2. SumFunction(Sizes(T, m)) = SumFunctionOnSet(Sizes(T, m), DOMAIN m.set)
      BY DEF SumFunction, Sizes
    <2> QED
      BY <1>5, <2>1, <2>2 DEF ByteSize, Sizes
  <1> QED
    BY <1>4, <1>9, <1>10, <1>11

\* Every class reads what it wrote.
LEMMA AllWrite ==
    ASSUME NEW W, Knot(W)
    PROVE  \A T \in DOMAIN Messages : T \in Writes(W)
  <1> SUFFICES ASSUME NEW T \in DOMAIN Messages, Embeds(T) \subseteq Writes(W) PROVE T \in Writes(W)
    BY ByClass
  <1>1. \A m \in Readables(W, T) : Shaped(W, T, m)
    BY ReadableIsShaped
  <1> QED
    BY <1>1, ShapedWritten DEF Writes

-----------------------------------------------------------------------------
(* Bytes that are read are the bytes that make a message.                    *)

\* Field x has a value that its class takes.
Taken(T, x) ==
    /\ Known(T, x.tag)
    /\ Reader(T, x.tag)[2] \in DOMAIN IsValid
         => x.num % Word \in IsValid[Reader(T, x.tag)[2]]

\* What a field that is read does to the message m, which becomes n.
LEMMA FieldEffect ==
    ASSUME NEW W, Knot(W), NEW T \in DOMAIN Messages, NEW m, IsRecord(m), NEW x \in W,
           NEW n, ReadNext(T, State("reading", m), x) = State("reading", n)
    PROVE  LET kind == Reader(T, x.tag)[2]
               f == Reader(T, x.tag)[3]
           IN  /\ ~Taken(T, x) => n.set = m.set
               /\ Taken(T, x) => \E v :
                    /\ IsSet(m, f, NewValue(T, m, f, v), n)
                    /\ kind \in DOMAIN Messages
                         => MergePartialFromCodedStream(kind, There(T, m, f), x.data) = State("reading", v)
  <1> DEFINE kind == Reader(T, x.tag)[2]
             f == Reader(T, x.tag)[3]
             sub == MergePartialFromCodedStream(kind, There(T, m, f), x.data)
  <1>1. \A k : State("reading", n) = State("reading", k) => n = k
    BY StateIs
  <1>2. CASE ~Known(T, x.tag)
    <2>1. ReadNext(T, State("reading", m), x) = State("reading", KeepUnknown(m, x))
      BY <1>2, StateIs, UnknownIsKept
    <2>2. n = KeepUnknown(m, x)
      BY <1>1, <2>1
    <2> QED
      BY <1>2, <2>2, KeepIs DEF Taken
  <1>3. CASE Known(T, x.tag)
    <2>1. ReadNext(T, State("reading", m), x)
            = IF kind \in DOMAIN Messages
              THEN IF sub.how = "reading" THEN State("reading", PutIn(T, m, f, sub.msg)) ELSE Failed
              ELSE IF kind \in {"string", "bytes"} THEN State("reading", PutIn(T, m, f, x.data))
              ELSE IF kind \in DOMAIN IsValid
              THEN IF x.num % Word \in IsValid[kind]
                   THEN State("reading", PutIn(T, m, f, x.num % Word))
                   ELSE State("reading", KeepUnknown(m, [x EXCEPT !.num = @ % Word]))
              ELSE State("reading", PutIn(T, m, f, Primitive(kind, x.num)))
      BY <1>3, ReadKnown
    <2>2. \A v : n = PutIn(T, m, f, v) => IsSet(m, f, NewValue(T, m, f, v), n)
      BY PutIs
    <2>3. sub.how = "reading" => sub = State("reading", sub.msg)
      <3> DEFINE there == There(T, m, f)
      <3>1. x.data \in Seq(W)
        BY WireField
      <3> HIDE DEF there, kind
      <3> QED
        BY <3>1, ReadIsState DEF IsState
    <2>4. CASE kind \in DOMAIN Messages
      <3>1. Taken(T, x)
        BY <1>3, <2>4, Kinds DEF Taken
      <3>2. sub.how = "reading" /\ n = PutIn(T, m, f, sub.msg)
        <4> HIDE DEF sub
        <4>1. State("reading", n) # Failed
          BY StateIs DEF Failed
        <4> QED
          BY <1>1, <2>1, <2>4, <4>1
      <3> DEFINE v == sub.msg
      <3>3. sub = State("reading", v) /\ IsSet(m, f, NewValue(T, m, f, v), n)
        BY <2>2, <2>3, <3>2
      <3> HIDE DEF v, f, sub
      <3> QED
        BY <3>1, <3>3 DEF sub, f
    <2>5. CASE kind \notin DOMAIN Messages /\ ~Taken(T, x)
      <3>1. kind \in DOMAIN IsValid /\ x.num % Word \notin IsValid[kind]
        BY <1>3, <2>5 DEF Taken
      <3>2. kind \notin {"string", "bytes"}
        BY <3>1, Kinds DEF Basic
      <3> DEFINE y == [x EXCEPT !.num = @ % Word]
      <3> HIDE DEF y
      <3>3. n = KeepUnknown(m, y)
        BY <1>1, <2>1, <2>5, <3>1, <3>2 DEF y
      <3> QED
        BY <2>5, <3>3, KeepIs
    <2>6. CASE kind \notin DOMAIN Messages /\ Taken(T, x)
      <3>1. \E v : ReadNext(T, State("reading", m), x) = State("reading", PutIn(T, m, f, v))
        <4>1. kind \in DOMAIN IsValid => x.num % Word \in IsValid[kind]
          BY <2>6 DEF Taken
        <4> HIDE DEF sub, kind, f
        <4> QED
          BY <2>1, <2>6, <4>1
      <3>2. PICK v : n = PutIn(T, m, f, v)
        BY <1>1, <3>1
      <3>3. IsSet(m, f, NewValue(T, m, f, v), n)
        BY <2>2, <3>2
      <3> HIDE DEF f, kind
      <3> QED
        BY <2>6, <3>3 DEF f, kind
    <2> QED
      BY <2>4, <2>5, <2>6
  <1> QED
    BY <1>2, <1>3

\* What a message read of the wire fields s holds for the field that r reads.
Of(s, tag) == {x \in s : x.tag = tag}
Each(T, r, s, m) ==
    /\ \A i \in DOMAIN m.set[r[3]] : \E x \in Of(s, r[1]) :
         MergePartialFromCodedStream(r[2], Empty, x.data) = State("reading", m.set[r[3]][i])
    /\ \A x \in Of(s, r[1]) : \E i \in DOMAIN m.set[r[3]] :
         MergePartialFromCodedStream(r[2], Empty, x.data) = State("reading", m.set[r[3]][i])
Together(W, T, r, s, m) ==
    \E d \in Seq(W) :
        /\ ToSet(d) = UNION {ToSet(x.data) : x \in Of(s, r[1])}
        /\ MergePartialFromCodedStream(r[2], Empty, d) = State("reading", m.set[r[3]])
Fed(W, T, r, s, m) ==
    /\ r[3] \in DOMAIN m.set <=> \E x \in Of(s, r[1]) : Taken(T, x)
    /\ r[2] \in DOMAIN Messages /\ r[3] \in DOMAIN m.set =>
         IF IsRepeated(T, r[3]) THEN Each(T, r, s, m) ELSE Together(W, T, r, s, m)

\* All that is said of one field's reader, so that it can be told from another.
LEMMA FedSame ==
    ASSUME NEW W, NEW T, NEW r, NEW s, NEW m, Fed(W, T, r, s, m), NEW x, x.tag # r[1],
           NEW n, r[3] \in DOMAIN n.set <=> r[3] \in DOMAIN m.set,
           r[3] \in DOMAIN m.set => n.set[r[3]] = m.set[r[3]]
    PROVE  Fed(W, T, r, s \union {x}, n)
  <1>1. Of(s \union {x}, r[1]) = Of(s, r[1])
    BY DEF Of
  <1>2. r[3] \in DOMAIN n.set <=> \E y \in Of(s \union {x}, r[1]) : Taken(T, y)
    BY <1>1 DEF Fed
  <1>3. ASSUME r[2] \in DOMAIN Messages, r[3] \in DOMAIN n.set
        PROVE  IF IsRepeated(T, r[3]) THEN Each(T, r, s \union {x}, n)
               ELSE Together(W, T, r, s \union {x}, n)
    <2>1. n.set[r[3]] = m.set[r[3]]
      BY <1>3
    <2>2. CASE IsRepeated(T, r[3])
      <3>1. Each(T, r, s, m)
        BY <1>3, <2>2 DEF Fed
      <3> QED
        BY <1>1, <2>1, <2>2, <3>1 DEF Each
    <2>3. CASE ~IsRepeated(T, r[3])
      <3>1. Together(W, T, r, s, m)
        BY <1>3, <2>3 DEF Fed
      <3> QED
        BY <1>1, <2>1, <2>3, <3>1 DEF Together
    <2> QED
      BY <2>2, <2>3
  <1> QED
    BY <1>2, <1>3 DEF Fed

\* The repeated field in what was read, with one wire field more.
LEMMA EachMore ==
    ASSUME NEW S, NEW T, NEW r, NEW s, NEW m,
           r[3] \in DOMAIN m.set => Each(T, r, s, m) /\ m.set[r[3]] \in Seq(S),
           r[3] \notin DOMAIN m.set => Of(s, r[1]) = {},
           NEW x, x.tag = r[1], NEW v \in S,
           MergePartialFromCodedStream(r[2], Empty, x.data) = State("reading", v),
           NEW n, IsRepeated(T, r[3]), n.set[r[3]] = NewValue(T, m, r[3], v)
    PROVE  Each(T, r, s \union {x}, n)
  <1> DEFINE t == s \union {x}
             f == r[3]
             us == n.set[f]
             Reads(y, u) == MergePartialFromCodedStream(r[2], Empty, y.data) = State("reading", u)
  <1>1. Of(t, r[1]) = Of(s, r[1]) \union {x}
    BY DEF Of
  <1>2. Reads(x, v)
    OBVIOUS
  <1>3. CASE f \notin DOMAIN m.set
    <2>1. us = <<v>> /\ Of(t, r[1]) = {x}
      BY <1>1, <1>3 DEF NewValue
    <2>2. DOMAIN us = {1} /\ us[1] = v
      BY <2>1
    <2> HIDE DEF us, t, Reads
    <2>3. /\ \A i \in DOMAIN us : \E y \in Of(t, r[1]) : Reads(y, us[i])
          /\ \A y \in Of(t, r[1]) : \E i \in DOMAIN us : Reads(y, us[i])
      BY <1>2, <2>1, <2>2
    <2> QED
      BY <2>3 DEF Each, us, t, Reads
  <1>4. CASE f \in DOMAIN m.set
    <2> DEFINE vs == m.set[f]
               k == Len(vs)
    <2>1. us = Append(vs, v) /\ vs \in Seq(S)
      BY <1>4 DEF NewValue
    <2>2. /\ \A i \in DOMAIN vs : \E y \in Of(s, r[1]) : Reads(y, vs[i])
          /\ \A y \in Of(s, r[1]) : \E i \in DOMAIN vs : Reads(y, vs[i])
      BY <1>4 DEF Each
    <2> HIDE DEF us, vs, t, Reads
    <2>3. k \in Nat /\ DOMAIN vs = 1 .. k /\ DOMAIN us = 1 .. k + 1 /\ us[k + 1] = v
          /\ \A i \in 1 .. k : us[i] = vs[i]
      BY <2>1, AppendProperties, LenProperties
    <2> HIDE DEF k
    <2>4. 1 .. k + 1 = 1 .. k \union {k + 1}
      BY <2>3
    <2>5. \A i \in DOMAIN us : \E y \in Of(t, r[1]) : Reads(y, us[i])
      BY <1>1, <1>2, <2>2, <2>3, <2>4
    <2>6. \A y \in Of(t, r[1]) : \E i \in DOMAIN us : Reads(y, us[i])
      BY <1>1, <1>2, <2>2, <2>3, <2>4
    <2> QED
      BY <2>5, <2>6 DEF Each, us, t, Reads
  <1> QED
    BY <1>3, <1>4

\* The elements of two sequences.
LEMMA ToSetBoth ==
    ASSUME NEW S, NEW a \in Seq(S), NEW b \in Seq(S)
    PROVE  ToSet(a \o b) = ToSet(a) \union ToSet(b)
  <1> DEFINE A == {s \in Seq(S) : ToSet(a \o s) = ToSet(a) \union ToSet(s)}
  <1>1. <<>> \in A
    <2>1. a \o <<>> = a /\ <<>> \in Seq(S) /\ ToSet(<<>>) = {}
      BY ConcatEmptySeq, EmptySeq DEF ToSet
    <2> QED
      BY <2>1
  <1>2. ASSUME NEW s \in Seq(S), NEW e \in S, s \in A PROVE Append(s, e) \in A
    <2> DEFINE c == a \o s
    <2>1. a \o Append(s, e) = Append(c, e) /\ c \in Seq(S) /\ Append(s, e) \in Seq(S)
      BY ConcatProperties, AppendProperties
    <2>2. ToSet(c) = ToSet(a) \union ToSet(s)
      BY <1>2
    <2> HIDE DEF c
    <2>3. ToSet(Append(c, e)) = ToSet(c) \union {e} /\ ToSet(Append(s, e)) = ToSet(s) \union {e}
      BY <2>1, ToSetMore
    <2> QED
      BY <2>1, <2>2, <2>3
  <1> HIDE DEF A
  <1>3. \A s \in Seq(S) : s \in A
    BY <1>1, <1>2, SeqInduction
  <1> QED
    BY <1>3 DEF A

\* The embedded message in what was read, with one piece more.
LEMMA TogetherMore ==
    ASSUME NEW W, Knot(W), NEW T, NEW r, NEW s, NEW m,
           r[3] \in DOMAIN m.set => Together(W, T, r, s, m),
           r[3] \notin DOMAIN m.set => Of(s, r[1]) = {},
           NEW x \in W, x.tag = r[1], NEW v, ~IsRepeated(T, r[3]),
           MergePartialFromCodedStream(r[2], There(T, m, r[3]), x.data) = State("reading", v),
           NEW n, n.set[r[3]] = v
    PROVE  Together(W, T, r, s \union {x}, n)
  <1> DEFINE t == s \union {x}
             Bytes(u) == UNION {ToSet(y.data) : y \in Of(u, r[1])}
             e == x.data
  <1>1. Bytes(t) = Bytes(s) \union ToSet(e)
    <2>1. Of(t, r[1]) = Of(s, r[1]) \union {x}
      BY DEF Of
    <2> QED
      BY <2>1
  <1>2. e \in Seq(W)
    BY WireField
  <1>3. \E d \in Seq(W) : ToSet(d) = Bytes(t)
                          /\ MergePartialFromCodedStream(r[2], Empty, d) = State("reading", v)
    <2>1. CASE r[3] \notin DOMAIN m.set
      <3>1. There(T, m, r[3]) = Empty /\ Bytes(s) = {}
        BY <2>1 DEF There
      <3> HIDE DEF Bytes, t, e
      <3>2. ToSet(e) = Bytes(t) /\ MergePartialFromCodedStream(r[2], Empty, e) = State("reading", v)
        BY <1>1, <3>1 DEF e
      <3> QED
        BY <1>2, <3>2
    <2>2. CASE r[3] \in DOMAIN m.set
      <3>1. There(T, m, r[3]) = m.set[r[3]]
        BY <2>2 DEF There
      <3>2. PICK d \in Seq(W) :
              /\ ToSet(d) = Bytes(s)
              /\ MergePartialFromCodedStream(r[2], Empty, d) = State("reading", m.set[r[3]])
        BY <2>2 DEF Together
      <3> DEFINE c == d \o e
      <3> HIDE DEF Bytes, t, e
      <3>3. c \in Seq(W) /\ ToSet(c) = Bytes(t)
        BY <1>1, <1>2, <3>2, ConcatProperties, ToSetBoth
      <3>4. MergePartialFromCodedStream(r[2], Empty, c) = State("reading", v)
        <4>1. MergePartialFromCodedStream(r[2], Empty, c)
                = MergePartialFromCodedStream(r[2], m.set[r[3]], e)
          BY <1>2, <3>2, ReadOn, StateIs
        <4> QED
          BY <3>1, <4>1 DEF e
      <3> HIDE DEF c
      <3> QED
        BY <3>3, <3>4
    <2> QED
      BY <2>1, <2>2
  <1> QED
    BY <1>3 DEF Together

\* A field in what was read, with one wire field more.
LEMMA FedMore ==
    ASSUME NEW W, Knot(W), NEW T \in DOMAIN Messages, NEW m, Shaped(W, T, m), NEW x \in W,
           NEW n, ReadNext(T, State("reading", m), x) = State("reading", n),
           NEW r \in Messages[T].reads, NEW s, Fed(W, T, r, s, m)
    PROVE  Fed(W, T, r, s \union {x}, n)
  <1> DEFINE q == Reader(T, x.tag)
             f == r[3]
  <1>1. IsRecord(m)
    BY DEF Shaped
  <1>2. /\ ~Taken(T, x) => n.set = m.set
        /\ Taken(T, x) => \E v :
             /\ IsSet(m, q[3], NewValue(T, m, q[3], v), n)
             /\ q[2] \in DOMAIN Messages
                  => MergePartialFromCodedStream(q[2], There(T, m, q[3]), x.data) = State("reading", v)
    BY <1>1, FieldEffect
  <1>3. Known(T, r[1]) /\ Reader(T, r[1]) = r /\ Kind(T, f) = r[2] /\ f \in Names(T)
    BY Readers
  <1>4. \A p \in Messages[T].reads : p[3] = f => p = r
    BY TablesAssumption DEF Agrees
  <1>5. CASE ~Taken(T, x)
    <2>1. n.set = m.set
      BY <1>2, <1>5
    <2>2. CASE x.tag # r[1]
      BY <2>1, <2>2, FedSame
    <2>3. CASE x.tag = r[1]
      <3>1. r[2] \notin DOMAIN Messages
        BY <1>3, <1>5, <2>3, Kinds DEF Taken
      <3>2. (\E y \in Of(s \union {x}, r[1]) : Taken(T, y)) <=> \E y \in Of(s, r[1]) : Taken(T, y)
        BY <1>5 DEF Of
      <3> QED
        BY <2>1, <3>1, <3>2 DEF Fed
    <2> QED
      BY <2>2, <2>3
  <1>6. CASE Taken(T, x)
    <2>1. PICK v : /\ IsSet(m, q[3], NewValue(T, m, q[3], v), n)
                   /\ q[2] \in DOMAIN Messages
                        => MergePartialFromCodedStream(q[2], There(T, m, q[3]), x.data) = State("reading", v)
      BY <1>2, <1>6
    <2>2. q \in Messages[T].reads /\ q[1] = x.tag
      BY <1>6, Readers DEF Taken
    <2>3. CASE x.tag # r[1]
      <3>1. q[3] # f
        BY <1>4, <2>2, <2>3
      <3>2. (f \in DOMAIN n.set <=> f \in DOMAIN m.set) /\ (f \in DOMAIN m.set => n.set[f] = m.set[f])
        BY <2>1, <3>1 DEF IsSet
      <3> QED
        BY <2>3, <3>2, FedSame
    <2>4. CASE x.tag = r[1]
      <3>1. q = r
        BY <1>3, <2>4
      <3>2. f \in DOMAIN n.set /\ n.set[f] = NewValue(T, m, f, v)
        BY <2>1, <3>1 DEF IsSet
      <3>3. \E y \in Of(s \union {x}, r[1]) : Taken(T, y)
        BY <1>6, <2>4 DEF Of
      <3>4. ASSUME r[2] \in DOMAIN Messages
            PROVE  IF IsRepeated(T, f) THEN Each(T, r, s \union {x}, n)
                   ELSE Together(W, T, r, s \union {x}, n)
        <4>1. f \notin DOMAIN m.set => Of(s, r[1]) = {}
          <5>1. \A y \in Of(s, r[1]) : Taken(T, y)
            BY <1>3, <3>4, Kinds DEF Of, Taken
          <5> QED
            BY <5>1 DEF Fed
        <4>2. MergePartialFromCodedStream(r[2], There(T, m, f), x.data) = State("reading", v)
          BY <2>1, <3>1, <3>4
        <4>3. CASE IsRepeated(T, f)
          <5>1. There(T, m, f) = Empty
            BY <4>3 DEF There
          <5>2. v \in Readables(W, r[2])
            <6>1. x.data \in Seq(W)
              BY WireField
            <6> QED
              BY <4>2, <5>1, <6>1, ReadableIs, StateIs
          <5>3. f \in DOMAIN m.set => Each(T, r, s, m) /\ m.set[f] \in Seq(Readables(W, r[2]))
            BY <1>3, <3>4, <4>3 DEF Fed, Shaped, Values
          <5>4. Each(T, r, s \union {x}, n)
            BY <2>4, <3>2, <4>1, <4>2, <4>3, <5>1, <5>2, <5>3, EachMore
          <5> QED
            BY <4>3, <5>4
        <4>4. CASE ~IsRepeated(T, f)
          <5>1. f \in DOMAIN m.set => Together(W, T, r, s, m)
            BY <3>4, <4>4 DEF Fed
          <5>2. n.set[f] = v
            BY <3>2, <4>4 DEF NewValue
          <5>3. Together(W, T, r, s \union {x}, n)
            BY <2>4, <4>1, <4>2, <4>4, <5>1, <5>2, TogetherMore
          <5> QED
            BY <4>4, <5>3
        <4> QED
          BY <4>3, <4>4
      <3> QED
        BY <3>2, <3>3, <3>4 DEF Fed
    <2> QED
      BY <2>3, <2>4
  <1> QED
    BY <1>5, <1>6

\* A field in what was read is what the input has for it.
LEMMA ReadIsFed ==
    ASSUME NEW W, Knot(W), NEW T \in DOMAIN Messages, NEW r \in Messages[T].reads
    PROVE  \A a \in Seq(W) : \A m :
             MergePartialFromCodedStream(T, Empty, a) = State("reading", m) => Fed(W, T, r, ToSet(a), m)
  <1> DEFINE A == {a \in Seq(W) : \A m :
                MergePartialFromCodedStream(T, Empty, a) = State("reading", m)
                => Fed(W, T, r, ToSet(a), m)}
  <1>1. <<>> \in A
    <2> DEFINE e == <<>>
    <2>1. e \in Seq(W) /\ MergePartialFromCodedStream(T, Empty, e) = State("reading", Empty)
          /\ ToSet(e) = {}
      BY EmptySeq, ReadNothing DEF ToSet
    <2>2. DOMAIN Empty.set = {} /\ Of({}, r[1]) = {}
      BY DEF Empty, Of
    <2> HIDE DEF e
    <2>3. Fed(W, T, r, ToSet(e), Empty)
      BY <2>1, <2>2 DEF Fed
    <2>4. \A m : State("reading", Empty) = State("reading", m) => m = Empty
      BY StateIs
    <2>5. e \in A
      BY <2>1, <2>3, <2>4
    <2> QED
      BY <2>5 DEF e
  <1>2. ASSUME NEW a \in Seq(W), NEW x \in W, a \in A PROVE Append(a, x) \in A
    <2> DEFINE b == Append(a, x)
    <2>1. b \in Seq(W) /\ ToSet(b) = ToSet(a) \union {x}
      BY AppendProperties, ToSetMore
    <2> SUFFICES ASSUME NEW n, MergePartialFromCodedStream(T, Empty, b) = State("reading", n)
                 PROVE  Fed(W, T, r, ToSet(b), n)
      BY <2>1
    <2> DEFINE st == MergePartialFromCodedStream(T, Empty, a)
    <2>2. MergePartialFromCodedStream(T, Empty, b) = ReadNext(T, st, x)
      BY ReadOneMore
    <2>3. st.how = "reading" /\ st = State("reading", st.msg)
      <3>1. st.how = "reading"
        BY ReadingBefore, StateIs
      <3> QED
        BY <3>1, ReadIsState DEF IsState
    <2>4. Fed(W, T, r, ToSet(a), st.msg)
      BY <1>2, <2>3
    <2>5. Shaped(W, T, st.msg)
      BY <2>3, ReadableIs, ReadableIsShaped
    <2> DEFINE m == st.msg
    <2>6. ReadNext(T, State("reading", m), x) = State("reading", n)
      BY <2>2, <2>3
    <2> HIDE DEF m, b
    <2>7. Fed(W, T, r, ToSet(a) \union {x}, n)
      BY <2>4, <2>5, <2>6, FedMore DEF m
    <2> QED
      BY <2>1, <2>7
  <1> HIDE DEF A
  <1>3. \A a \in Seq(W) : a \in A
    BY <1>1, <1>2, SeqInduction
  <1> QED
    BY <1>3 DEF A

\* The data of the fields with a tag, one after the other.
LEMMA AllTogether ==
    ASSUME NEW W, Knot(W), NEW tag
    PROVE  \A a \in Seq(W) : \E d \in Seq(W) :
             ToSet(d) = UNION {ToSet(x.data) : x \in Of(ToSet(a), tag)}
  <1> DEFINE Bytes(s) == UNION {ToSet(x.data) : x \in Of(s, tag)}
             A == {a \in Seq(W) : \E d \in Seq(W) : ToSet(d) = Bytes(ToSet(a))}
  <1>1. <<>> \in A
    <2>1. <<>> \in Seq(W) /\ ToSet(<<>>) = {} /\ Bytes({}) = {}
      BY EmptySeq DEF ToSet, Of
    <2> QED
      BY <2>1
  <1>2. ASSUME NEW a \in Seq(W), NEW x \in W, a \in A PROVE Append(a, x) \in A
    <2> DEFINE b == Append(a, x)
               e == x.data
    <2>1. b \in Seq(W) /\ ToSet(b) = ToSet(a) \union {x} /\ e \in Seq(W)
      BY AppendProperties, ToSetMore, WireField
    <2>2. PICK d \in Seq(W) : ToSet(d) = Bytes(ToSet(a))
      BY <1>2
    <2>3. Bytes(ToSet(a) \union {x}) = IF x.tag = tag THEN Bytes(ToSet(a)) \union ToSet(e) ELSE Bytes(ToSet(a))
      <3>1. Of(ToSet(a) \union {x}, tag) = IF x.tag = tag THEN Of(ToSet(a), tag) \union {x} ELSE Of(ToSet(a), tag)
        BY DEF Of
      <3> QED
        BY <3>1
    <2> DEFINE c == d \o e
    <2>4. c \in Seq(W) /\ ToSet(c) = ToSet(d) \union ToSet(e)
      BY <2>1, ConcatProperties, ToSetBoth
    <2> HIDE DEF b, c, e, Bytes
    <2>5. \E h \in Seq(W) : ToSet(h) = Bytes(ToSet(b))
      BY <2>1, <2>2, <2>3, <2>4
    <2> QED
      BY <2>1, <2>5 DEF b
  <1>3. \A a \in Seq(W) : a \in A
    <2> HIDE DEF A
    <2> QED
      BY <1>1, <1>2, SeqInduction
  <1> QED
    BY <1>3

\* A field is read if it is a whole one, and what it holds is read.
LEMMA WholeIsGood ==
    ASSUME NEW W, Knot(W), NEW T \in DOMAIN Messages, NEW x \in W
    PROVE  Good(T, x) <=>
             /\ Whole(x)
             /\ Embedded(T, x) =>
                  MergePartialFromCodedStream(Reader(T, x.tag)[2], Empty, x.data).how = "reading"
  <1> DEFINE kind == Reader(T, x.tag)[2]
             f == Reader(T, x.tag)[3]
             sub == MergePartialFromCodedStream(kind, There(T, Empty, f), x.data)
  <1>1. State("stopped", Empty).how # "reading" /\ Failed.how # "reading"
        /\ \A n : State("reading", n).how = "reading"
    BY StateIs DEF Failed
  <1>2. CASE ~Known(T, x.tag)
    <2>1. Good(T, x) <=> HandleUnusual(Empty, x).how = "reading"
      BY <1>2, ReadUnknown DEF Good
    <2>2. x.tag \in Int
      BY WireField
    <2>3. HandleUnusual(Empty, x).how = "reading" <=> Whole(x)
      BY <1>1, <2>2 DEF HandleUnusual, Whole, END_GROUP, WireType
    <2> QED
      BY <1>2, <2>1, <2>3 DEF Embedded
  <1>3. CASE Known(T, x.tag)
    <2>1. Whole(x)
      <3>1. Reader(T, x.tag) \in Messages[T].reads /\ Reader(T, x.tag)[1] = x.tag
        BY <1>3, Readers
      <3>2. {<<TagOf(w), w[2], w[3]>> : w \in ToSet(Messages[T].writes)}
              = {<<r[1], WrittenAs(r[2]), r[3]>> : r \in Messages[T].reads}
        BY TablesAssumption DEF Agrees
      <3>3. PICK w \in ToSet(Messages[T].writes) : TagOf(w) = x.tag
        <4>1. PICK w \in ToSet(Messages[T].writes) :
                <<TagOf(w), w[2], w[3]>>
                  = <<Reader(T, x.tag)[1], WrittenAs(kind), f>>
          BY <3>1, <3>2
        <4> QED
          BY <3>1, <4>1
      <3>4. x.tag \in Nat \ {0} /\ WireType(x.tag) \in {0, 2, 5}
        <4>1. TagOf(w) \in Nat \ {0} /\ WireType(TagOf(w)) = TypeWritten(w[2])
              /\ TypeWritten(w[2]) \in {0, 2, 5}
          BY TagIs
        <4> QED
          BY <3>3, <4>1
      <3> QED
        BY <3>4 DEF Whole, END_GROUP
    <2>2. ReadNext(T, State("reading", Empty), x)
            = IF kind \in DOMAIN Messages
              THEN IF sub.how = "reading" THEN State("reading", PutIn(T, Empty, f, sub.msg)) ELSE Failed
              ELSE IF kind \in {"string", "bytes"} THEN State("reading", PutIn(T, Empty, f, x.data))
              ELSE IF kind \in DOMAIN IsValid
              THEN IF x.num % Word \in IsValid[kind]
                   THEN State("reading", PutIn(T, Empty, f, x.num % Word))
                   ELSE State("reading", KeepUnknown(Empty, [x EXCEPT !.num = @ % Word]))
              ELSE State("reading", PutIn(T, Empty, f, Primitive(kind, x.num)))
      BY <1>3, ReadKnown
    <2>3. There(T, Empty, f) = Empty
      BY DEF There, Empty
    <2>4. Good(T, x) <=> (kind \in DOMAIN Messages => sub.how = "reading")
      <3> HIDE DEF kind, sub, f
      <3> QED
        BY <1>1, <2>2 DEF Good
    <2>5. sub = MergePartialFromCodedStream(kind, Empty, x.data)
      BY <2>3
    <2> HIDE DEF sub
    <2> QED
      BY <1>3, <2>1, <2>4, <2>5 DEF Embedded
  <1> QED
    BY <1>2, <1>3

\* The parts of Makes and of IsInitialized that are about one writer.
Has(T, s, w) ==
    w[3] \in Messages[T].keeps.required =>
        \E x \in Of(s, TagOf(w)) : w[2] = "enum" => x.num % Word \in IsValid[Kind(T, w[3])]
Embedding(T, s, w) ==
    w[2] = "message" /\ Of(s, TagOf(w)) # {} =>
        \A d \in IF IsRepeated(T, w[3]) THEN {ToSet(x.data) : x \in Of(s, TagOf(w))}
                 ELSE {UNION {ToSet(x.data) : x \in Of(s, TagOf(w))}} :
            EmbeddedMakes(Kind(T, w[3]), d)
Inside(T, m, f) ==
    IF IsRepeated(T, f)
    THEN \A i \in DOMAIN m.set[f] : EmbeddedIsInitialized(Kind(T, f), m.set[f][i])
    ELSE EmbeddedIsInitialized(Kind(T, f), m.set[f])
Initialized(T, m, w) ==
    /\ w[3] \in Messages[T].keeps.required => w[3] \in DOMAIN m.set
    /\ w[3] \in Messages[T].keeps.checked /\ w[3] \in DOMAIN m.set => Inside(T, m, w[3])

\* Makes, writer by writer.
LEMMA MakesIs ==
    ASSUME NEW T, NEW s
    PROVE  Makes(T, s) <=>
             /\ \A x \in s : Whole(x)
             /\ \A w \in ToSet(Messages[T].writes) : Has(T, s, w) /\ Embedding(T, s, w)
  BY DEF Makes, Has, Embedding, Of

\* Every reader has its writer.
LEMMA WritersCover ==
    ASSUME NEW T \in DOMAIN Messages, NEW r \in Messages[T].reads
    PROVE  \E w \in ToSet(Messages[T].writes) : TagOf(w) = r[1] /\ w[3] = r[3]
  <1>1. {<<TagOf(w), w[2], w[3]>> : w \in ToSet(Messages[T].writes)}
          = {<<q[1], WrittenAs(q[2]), q[3]>> : q \in Messages[T].reads}
    BY TablesAssumption DEF Agrees
  <1>2. PICK w \in ToSet(Messages[T].writes) : <<TagOf(w), w[2], w[3]>> = <<r[1], WrittenAs(r[2]), r[3]>>
    BY <1>1
  <1> QED
    BY <1>2

\* IsInitialized, writer by writer.
LEMMA InitializedIs ==
    ASSUME NEW T \in DOMAIN Messages, NEW m
    PROVE  IsInitialized(T, m) <=> \A w \in ToSet(Messages[T].writes) : Initialized(T, m, w)
  <1> DEFINE N == ToSet(Messages[T].writes)
             keeps == Messages[T].keeps
  <1>1. keeps.required \subseteq Names(T) /\ keeps.checked \subseteq Names(T)
    <2>1. /\ keeps.required \union keeps.repeated \subseteq keeps.short \union keeps.long
          /\ keeps.checked = {r[3] : r \in {q \in Messages[T].reads : q[2] \in DOMAIN Messages}}
      BY TablesAssumption DEF Agrees
    <2>2. keeps.short \union keeps.long = Names(T)
      BY Readers
    <2> QED
      BY <2>1, <2>2 DEF Names
  <1>2. \A f \in Names(T) : \E w \in N : w[3] = f
    <2> SUFFICES ASSUME NEW f \in Names(T) PROVE \E w \in N : w[3] = f
      OBVIOUS
    <2>1. PICK r \in Messages[T].reads : r[3] = f
      BY DEF Names
    <2> QED
      BY <2>1, WritersCover
  <1>3. IsInitialized(T, m) <=>
          /\ keeps.required \subseteq DOMAIN m.set
          /\ \A f \in keeps.checked \intersect DOMAIN m.set : Inside(T, m, f)
    BY DEF IsInitialized, Inside
  <1> HIDE DEF N, keeps
  <1> QED
    BY <1>1, <1>2, <1>3 DEF Initialized, N, keeps

\* The classes of which bytes that parse are bytes that make a message.
Recognized(W) ==
    {K \in DOMAIN Messages : \A d \in Seq(W) : Parses(K, d) <=> Makes(K, ToSet(d))}

\* The fields of an input.
LEMMA ToSetOfBytes ==
    ASSUME NEW W, NEW d \in Seq(W)
    PROVE  ToSet(d) \in SUBSET W /\ ToSet(d) = {d[i] : i \in 1 .. Len(d)}
  <1>1. DOMAIN d = 1 .. Len(d) /\ \A i \in 1 .. Len(d) : d[i] \in W
    BY LenProperties, ElementOfSeq
  <1> QED
    BY <1>1 DEF ToSet

\* What an embedded class makes of bytes.
LEMMA EmbeddedRecognized ==
    ASSUME NEW W, Knot(W), NEW K \in Recognized(W), NEW d \in Seq(W)
    PROVE  /\ EmbeddedMakes(K, ToSet(d)) <=> Parses(K, d)
           /\ \A m : MergePartialFromCodedStream(K, Empty, d) = State("reading", m)
                     => (EmbeddedIsInitialized(K, m) <=> EmbeddedMakes(K, ToSet(d)))
  <1>1. K \in DOMAIN Messages /\ (Parses(K, d) <=> Makes(K, ToSet(d)))
    BY DEF Recognized
  <1>2. EmbeddedMakes(K, ToSet(d)) = Makes(K, ToSet(d)) /\ \A m : EmbeddedIsInitialized(K, m) = IsInitialized(K, m)
    BY <1>1, ToSetOfBytes DEF Knot
  <1>3. ASSUME NEW m, MergePartialFromCodedStream(K, Empty, d) = State("reading", m)
        PROVE  Parses(K, d) <=> IsInitialized(K, m)
    BY <1>3, StateIs DEF Parses
  <1> QED
    BY <1>1, <1>2, <1>3

\* The writer of a message inside, and the class it writes.
LEMMA MessageWriter ==
    ASSUME NEW T \in DOMAIN Messages, NEW w \in ToSet(Messages[T].writes)
    PROVE  /\ w[2] = "message" <=> Kind(T, w[3]) \in DOMAIN Messages
           /\ w[2] = "enum" <=> Kind(T, w[3]) \in DOMAIN IsValid
           /\ w[3] \in Messages[T].keeps.checked <=> Kind(T, w[3]) \in DOMAIN Messages
           /\ Kind(T, w[3]) \in DOMAIN Messages => Kind(T, w[3]) \in Embeds(T)
  <1> DEFINE kind == Kind(T, w[3])
  <1>1. /\ kind \in Basic \union DOMAIN IsValid \union DOMAIN Messages
        /\ w[2] = WrittenAs(kind) /\ w[3] \in Names(T)
    BY Writers
  <1>2. /\ kind \in DOMAIN Messages => w[2] = "message"
        /\ kind \in DOMAIN IsValid => w[2] = "enum"
        /\ kind \in Basic => w[2] = kind
    BY <1>1, WrittenIs
  <1>3. w[3] \in Messages[T].keeps.checked <=> kind \in DOMAIN Messages
    <2>1. Messages[T].keeps.checked = {r[3] : r \in {q \in Messages[T].reads : q[2] \in DOMAIN Messages}}
      BY TablesAssumption DEF Agrees
    <2>2. PICK r \in Messages[T].reads : r[3] = w[3]
      BY <1>1, Readers
    <2>3. \A q \in Messages[T].reads : q[3] = w[3] => q[2] = kind
      BY Readers
    <2> QED
      BY <2>1, <2>2, <2>3
  <1>4. kind \in DOMAIN Messages => kind \in Embeds(T)
    <2>1. PICK r \in Messages[T].reads : r[3] = w[3]
      BY <1>1, Readers
    <2>2. r[2] = kind
      BY <2>1, Readers
    <2> QED
      BY <2>2 DEF Embeds
  <1>5. w[2] = "message" => kind \in DOMAIN Messages
    BY <1>1, <1>2 DEF Basic
  <1>6. w[2] = "enum" => kind \in DOMAIN IsValid
    BY <1>1, <1>2 DEF Basic
  <1> QED
    BY <1>2, <1>3, <1>4, <1>5, <1>6

\* One field of what is read is initialized when its bytes are what they have to be.
LEMMA FieldMade ==
    ASSUME NEW W, Knot(W), NEW T \in DOMAIN Messages, Embeds(T) \subseteq Recognized(W),
           NEW a \in Seq(W), NEW m, MergePartialFromCodedStream(T, Empty, a) = State("reading", m),
           NEW w \in ToSet(Messages[T].writes)
    PROVE  Initialized(T, m, w) <=> Has(T, ToSet(a), w) /\ Embedding(T, ToSet(a), w)
  <1> DEFINE s == ToSet(a)
             f == w[3]
             kind == Kind(T, f)
             tag == TagOf(w)
             of == Of(s, tag)
             r == Reader(T, tag)
  <1>1. /\ Known(T, tag) /\ r[3] = f /\ r[2] = kind
        /\ r \in Messages[T].reads /\ r[1] = tag
    BY Writers, Readers
  <1>2. Fed(W, T, r, s, m)
    BY <1>1, ReadIsFed
  <1>3. /\ w[2] = "message" <=> kind \in DOMAIN Messages
        /\ w[2] = "enum" <=> kind \in DOMAIN IsValid
        /\ f \in Messages[T].keeps.checked <=> kind \in DOMAIN Messages
        /\ kind \in DOMAIN Messages => kind \in Recognized(W)
    BY MessageWriter
  <1>4. \A x \in of : Taken(T, x) <=> (w[2] = "enum" => x.num % Word \in IsValid[kind])
    <2> SUFFICES ASSUME NEW x \in of
                 PROVE  Taken(T, x) <=> (w[2] = "enum" => x.num % Word \in IsValid[kind])
      OBVIOUS
    <2>1. x.tag = tag
      BY DEF Of
    <2> HIDE DEF tag, kind
    <2> QED
      BY <1>1, <1>3, <2>1 DEF Taken
  <1>5. f \in DOMAIN m.set <=> \E x \in of : (w[2] = "enum" => x.num % Word \in IsValid[kind])
    <2> HIDE DEF of, kind, f, r
    <2>1. f \in DOMAIN m.set <=> \E x \in of : Taken(T, x)
      BY <1>1, <1>2 DEF Fed, of
    <2> QED
      BY <1>4, <2>1
  <1>6. Has(T, s, w) <=> (f \in Messages[T].keeps.required => f \in DOMAIN m.set)
    BY <1>5 DEF Has
  <1>7. CASE kind \notin DOMAIN Messages
    BY <1>3, <1>6, <1>7 DEF Initialized, Embedding
  <1>8. CASE kind \in DOMAIN Messages
    <2>1. f \in DOMAIN m.set <=> of # {}
      BY <1>3, <1>5, <1>8, Kinds
    <2>2. \A x \in of : x.data \in Seq(W)
      BY ToSetOfBytes, WireField DEF Of
    <2>3. ASSUME f \in DOMAIN m.set
          PROVE  Inside(T, m, f) <=> Embedding(T, s, w)
      <3>1. CASE IsRepeated(T, f)
        <4> DEFINE vs == m.set[f]
                   Reads(x, v) == MergePartialFromCodedStream(kind, Empty, x.data) = State("reading", v)
        <4>1. /\ \A i \in DOMAIN vs : \E x \in of : Reads(x, vs[i])
              /\ \A x \in of : \E i \in DOMAIN vs : Reads(x, vs[i])
          <5>1. Each(T, r, s, m)
            BY <1>1, <1>2, <1>8, <2>3, <3>1 DEF Fed
          <5> QED
            BY <1>1, <5>1 DEF Each
        <4>2. \A x \in of : \A v : Reads(x, v) =>
                (EmbeddedIsInitialized(kind, v) <=> EmbeddedMakes(kind, ToSet(x.data)))
          BY <1>3, <1>8, <2>2, EmbeddedRecognized
        <4>3. Embedding(T, s, w) <=> \A x \in of : EmbeddedMakes(kind, ToSet(x.data))
          <5>1. Embedding(T, s, w) <=> \A d \in {ToSet(x.data) : x \in of} : EmbeddedMakes(kind, d)
            BY <1>3, <1>8, <2>1, <2>3, <3>1 DEF Embedding
          <5> HIDE DEF of, kind
          <5> QED
            BY <5>1
        <4>4. Inside(T, m, f) <=> \A i \in DOMAIN vs : EmbeddedIsInitialized(kind, vs[i])
          BY <3>1 DEF Inside
        <4> HIDE DEF vs, of, kind, Reads
        <4> QED
          BY <4>1, <4>2, <4>3, <4>4
      <3>2. CASE ~IsRepeated(T, f)
        <4>1. PICK d \in Seq(W) :
                /\ ToSet(d) = UNION {ToSet(x.data) : x \in of}
                /\ MergePartialFromCodedStream(kind, Empty, d) = State("reading", m.set[f])
          <5>1. Together(W, T, r, s, m)
            BY <1>1, <1>2, <1>8, <2>3, <3>2 DEF Fed
          <5> QED
            BY <1>1, <5>1 DEF Together
        <4>2. EmbeddedIsInitialized(kind, m.set[f]) <=> EmbeddedMakes(kind, ToSet(d))
          BY <1>3, <1>8, <4>1, EmbeddedRecognized
        <4>3. Embedding(T, s, w) <=> EmbeddedMakes(kind, ToSet(d))
          BY <1>3, <1>8, <2>1, <2>3, <3>2, <4>1 DEF Embedding
        <4>4. Inside(T, m, f) <=> EmbeddedIsInitialized(kind, m.set[f])
          BY <3>2 DEF Inside
        <4> QED
          BY <4>2, <4>3, <4>4
      <3> QED
        BY <3>1, <3>2
    <2>4. f \notin DOMAIN m.set => Embedding(T, s, w)
      BY <2>1 DEF Embedding
    <2>5. Initialized(T, m, w) <=>
            /\ f \in Messages[T].keeps.required => f \in DOMAIN m.set
            /\ f \in DOMAIN m.set => Inside(T, m, f)
      BY <1>3, <1>8 DEF Initialized
    <2> HIDE DEF f, s
    <2> QED
      BY <1>6, <2>3, <2>4, <2>5 DEF s
  <1> QED
    BY <1>7, <1>8

\* Bytes that make a message are read to the end.
LEMMA MadeIsRead ==
    ASSUME NEW W, Knot(W), NEW T \in DOMAIN Messages, Embeds(T) \subseteq Recognized(W),
           NEW a \in Seq(W), Makes(T, ToSet(a))
    PROVE  MergePartialFromCodedStream(T, Empty, a).how = "reading"
  <1> DEFINE s == ToSet(a)
  <1>1. /\ \A x \in s : Whole(x)
        /\ \A w \in ToSet(Messages[T].writes) : Embedding(T, s, w)
    BY MakesIs
  <1>2. ASSUME NEW x \in s, Embedded(T, x)
        PROVE  MergePartialFromCodedStream(Reader(T, x.tag)[2], Empty, x.data).how = "reading"
    <2> DEFINE r == Reader(T, x.tag)
               kind == r[2]
    <2>1. /\ r \in Messages[T].reads /\ r[1] = x.tag /\ kind \in DOMAIN Messages
          /\ Kind(T, r[3]) = kind
      BY <1>2, Readers DEF Embedded
    <2>2. PICK w \in ToSet(Messages[T].writes) : TagOf(w) = r[1] /\ w[3] = r[3]
      BY <2>1, WritersCover
    <2>3. w[2] = "message" /\ kind \in Recognized(W)
      BY <2>1, <2>2, MessageWriter
    <2>4. x \in W /\ x.data \in Seq(W) /\ x \in Of(s, TagOf(w))
      BY <2>1, <2>2, ToSetOfBytes, WireField DEF Of
    <2> HIDE DEF r, kind
    <2>5. CASE IsRepeated(T, w[3])
      <3>1. EmbeddedMakes(kind, ToSet(x.data))
        BY <1>1, <2>1, <2>2, <2>3, <2>4, <2>5 DEF Embedding
      <3>2. Parses(kind, x.data)
        BY <2>3, <2>4, <3>1, EmbeddedRecognized
      <3> QED
        BY <3>2 DEF Parses, kind, r
    <2>6. CASE ~IsRepeated(T, w[3])
      <3>1. PICK d \in Seq(W) : ToSet(d) = UNION {ToSet(y.data) : y \in Of(s, TagOf(w))}
        BY AllTogether
      <3>2. EmbeddedMakes(kind, ToSet(d))
        BY <1>1, <2>1, <2>2, <2>3, <2>4, <2>6, <3>1 DEF Embedding
      <3>3. Parses(kind, d)
        BY <2>3, <3>2, EmbeddedRecognized
      <3>4. \A i \in 1 .. Len(d) : Good(kind, d[i])
        BY <2>1, <3>3, ReadIfGood DEF Parses
      <3>5. \A i \in 1 .. Len(x.data) : Good(kind, x.data[i])
        <4>1. ToSet(x.data) \subseteq ToSet(d)
          BY <2>4, <3>1
        <4>2. ToSet(d) = {d[i] : i \in 1 .. Len(d)}
              /\ ToSet(x.data) = {x.data[i] : i \in 1 .. Len(x.data)}
          BY <2>4, ToSetOfBytes
        <4> QED
          BY <3>4, <4>1, <4>2
      <3> QED
        BY <2>1, <2>4, <3>5, ReadIfGood DEF kind, r
    <2> QED
      BY <2>5, <2>6
  <1>3. ASSUME NEW i \in 1 .. Len(a) PROVE Good(T, a[i])
    <2>1. a[i] \in s /\ a[i] \in W
      BY ToSetOfBytes, ElementOfSeq
    <2> QED
      BY <1>1, <1>2, <2>1, WholeIsGood
  <1> QED
    BY <1>3, ReadIfGood

\* Of every class, the bytes that parse are those that make a message.
LEMMA AllRecognized ==
    ASSUME NEW W, Knot(W)
    PROVE  \A T \in DOMAIN Messages : T \in Recognized(W)
  <1> SUFFICES ASSUME NEW T \in DOMAIN Messages, Embeds(T) \subseteq Recognized(W)
               PROVE  T \in Recognized(W)
    BY ByClass
  <1> SUFFICES ASSUME NEW a \in Seq(W) PROVE Parses(T, a) <=> Makes(T, ToSet(a))
    BY DEF Recognized
  <1> DEFINE st == MergePartialFromCodedStream(T, Empty, a)
             m == st.msg
  <1>1. CASE st.how # "reading"
    BY <1>1, MadeIsRead DEF Parses
  <1>2. CASE st.how = "reading"
    <2>1. st = State("reading", m)
      BY <1>2, ReadIsState DEF IsState
    <2>2. \A x \in ToSet(a) : Whole(x)
      <3>1. \A i \in 1 .. Len(a) : Good(T, a[i]) /\ a[i] \in W
        BY <1>2, ReadIfGood, ElementOfSeq
      <3>2. \A i \in 1 .. Len(a) : Whole(a[i])
        BY <3>1, WholeIsGood
      <3> QED
        BY <3>2, ToSetOfBytes
    <2>3. Parses(T, a) <=> IsInitialized(T, m)
      BY <1>2 DEF Parses
    <2> HIDE DEF m, st
    <2>4. \A w \in ToSet(Messages[T].writes) :
            Initialized(T, m, w) <=> Has(T, ToSet(a), w) /\ Embedding(T, ToSet(a), w)
      BY <2>1, FieldMade DEF st
    <2> QED
      BY <2>2, <2>3, <2>4, InitializedIs, MakesIs
  <1> QED
    BY <1>1, <1>2

-----------------------------------------------------------------------------
(* Bytes: wire fields whose data are wire fields, to any depth.              *)

\* The wire fields with less than n levels of them.
Nested(n) ==
    LET level[i \in 0 .. n] ==
            IF i = 0 THEN {} ELSE [tag : Int, num : Nat, data : Seq(level[i - 1])]
    IN  level[n]
WireFields == UNION {Nested(n) : n \in Nat}

\* The levels of nesting, one by one.
LEMMA Levels ==
    ASSUME NEW n \in Nat
    PROVE  \E f : /\ f[0] = {}
                  /\ \A i \in 1 .. n : f[i] = [tag : Int, num : Nat, data : Seq(f[i - 1])]
                  /\ Nested(n) = f[n]
  <1> DEFINE Holding(s) == [tag : Int, num : Nat, data : Seq(s)]
             Eq(f, k) == f = [i \in 0 .. k |-> IF i = 0 THEN {} ELSE Holding(f[i - 1])]
             A == {k \in 0 .. n : \E f : Eq(f, k)}
  <1>1. 0 \in A
    <2> DEFINE f == [i \in 0 .. 0 |-> {}]
    <2> HIDE DEF Holding
    <2>1. Eq(f, 0)
      OBVIOUS
    <2> HIDE DEF Eq, f
    <2>2. \E g : Eq(g, 0)
      BY <2>1
    <2> QED
      BY <2>2
  <1>2. ASSUME NEW k \in 0 .. n - 1, k \in A PROVE k + 1 \in A
    <2> HIDE DEF Holding
    <2>1. PICK f : Eq(f, k)
      BY <1>2
    <2> DEFINE g == [i \in 0 .. k + 1 |-> IF i <= k THEN f[i] ELSE Holding(f[k])]
    <2>2. \A i \in 0 .. k : f[i] = IF i = 0 THEN {} ELSE Holding(f[i - 1])
      BY <2>1
    <2>3. \A i \in 0 .. k + 1 : g[i] = IF i = 0 THEN {} ELSE Holding(g[i - 1])
      <3> SUFFICES ASSUME NEW i \in 0 .. k + 1
                   PROVE  g[i] = IF i = 0 THEN {} ELSE Holding(g[i - 1])
        OBVIOUS
      <3>1. CASE i <= k
        BY <2>2, <3>1
      <3>2. CASE i = k + 1
        BY <3>2
      <3> QED
        BY <3>1, <3>2
    <2>4. g = [i \in 0 .. k + 1 |-> g[i]]
      OBVIOUS
    <2> HIDE DEF g
    <2>5. Eq(g, k + 1)
      BY <2>3, <2>4
    <2> QED
      BY <2>5
  <1>3. n \in A
    <2> HIDE DEF A
    <2>1. \A k \in 0 .. n : k \in A
      BY <1>1, <1>2, Induction
    <2> QED
      BY <2>1
  <1> DEFINE level == CHOOSE f : Eq(f, n)
  <1>4. Eq(level, n)
    BY <1>3
  <1>5. Nested(n) = level[n]
    BY DEF Nested
  <1> HIDE DEF level, Holding
  <1>6. \A i \in 0 .. n : level[i] = IF i = 0 THEN {} ELSE Holding(level[i - 1])
    BY <1>4
  <1>7. level[0] = {}
    BY <1>6
  <1>8. \A i \in 1 .. n : level[i] = Holding(level[i - 1])
    BY <1>6
  <1> QED
    BY <1>5, <1>7, <1>8 DEF Holding

\* The wire fields with one level more hold those with the level less.
LEMMA NestedIs ==
    /\ Nested(0) = {}
    /\ \A n \in Nat : Nested(n + 1) = [tag : Int, num : Nat, data : Seq(Nested(n))]
  <1> DEFINE Holding(s) == [tag : Int, num : Nat, data : Seq(s)]
  <1>1. Nested(0) = {}
    BY Levels
  <1>2. ASSUME NEW n \in Nat PROVE Nested(n + 1) = Holding(Nested(n))
    <2>1. PICK f : /\ f[0] = {}
                   /\ \A i \in 1 .. n : f[i] = [tag : Int, num : Nat, data : Seq(f[i - 1])]
                   /\ Nested(n) = f[n]
      BY Levels
    <2>2. PICK g : /\ g[0] = {}
                   /\ \A i \in 1 .. n + 1 : g[i] = [tag : Int, num : Nat, data : Seq(g[i - 1])]
                   /\ Nested(n + 1) = g[n + 1]
      <3>1. n + 1 \in Nat
        OBVIOUS
      <3> QED
        BY <3>1, Levels
    <2> DEFINE A == {k \in 0 .. n : f[k] = g[k]}
    <2>3. \A i \in 1 .. n : f[i] = Holding(f[i - 1]) /\ g[i] = Holding(g[i - 1])
      BY <2>1, <2>2
    <2>4. g[n + 1] = Holding(g[n])
      <3>1. n + 1 \in 1 .. n + 1 /\ (n + 1) - 1 = n
        OBVIOUS
      <3> QED
        BY <2>2, <3>1
    <2> HIDE DEF Holding
    <2>5. 0 \in A
      <3>1. f[0] = g[0]
        BY <2>1, <2>2
      <3> QED
        BY <3>1
    <2>6. ASSUME NEW k \in 0 .. n - 1, k \in A PROVE k + 1 \in A
      <3>1. k + 1 \in 1 .. n /\ (k + 1) - 1 = k /\ k + 1 \in 0 .. n
        OBVIOUS
      <3>2. f[k + 1] = Holding(f[k]) /\ g[k + 1] = Holding(g[k])
        BY <2>3, <3>1
      <3> QED
        BY <2>6, <3>1, <3>2
    <2>7. n \in A
      <3> HIDE DEF A
      <3>1. \A k \in 0 .. n : k \in A
        BY <2>5, <2>6, Induction
      <3> QED
        BY <3>1
    <2> QED
      BY <2>1, <2>2, <2>4, <2>7
  <1> QED
    BY <1>1, <1>2

\* Sequences of fewer things are sequences of more.
LEMMA SeqOfMore ==
    ASSUME NEW S, NEW R, S \subseteq R
    PROVE  Seq(S) \subseteq Seq(R)
  <1> SUFFICES ASSUME NEW s \in Seq(S) PROVE s \in Seq(R)
    OBVIOUS
  <1>1. Len(s) \in Nat /\ s = [i \in 1 .. Len(s) |-> s[i]] /\ \A i \in 1 .. Len(s) : s[i] \in R
    BY LenProperties, ElementOfSeq
  <1> QED
    BY <1>1, IsASeq

\* Holding more is being more.
LEMMA HoldingMore ==
    ASSUME NEW S, NEW R, S \subseteq R
    PROVE  [tag : Int, num : Nat, data : Seq(S)] \subseteq [tag : Int, num : Nat, data : Seq(R)]
  BY SeqOfMore

\* A level holds those below it.
LEMMA NestedGrows ==
    ASSUME NEW n \in Nat, NEW k \in Nat
    PROVE  Nested(n) \subseteq Nested(n + k)
  <1> DEFINE A == {i \in 0 .. n : Nested(i) \subseteq Nested(i + 1)}
             B == {i \in 0 .. k : Nested(n) \subseteq Nested(n + i)}
  <1>1. \A m \in Nat : Nested(m) \subseteq Nested(m + 1)
    <2> SUFFICES ASSUME NEW m \in Nat PROVE Nested(m) \subseteq Nested(m + 1)
      OBVIOUS
    <2> DEFINE C == {i \in 0 .. m : Nested(i) \subseteq Nested(i + 1)}
    <2>1. 0 \in C
      BY NestedIs
    <2>2. ASSUME NEW i \in 0 .. m - 1, i \in C PROVE i + 1 \in C
      <3>1. Nested(i) \subseteq Nested(i + 1) /\ i \in Nat /\ i + 1 \in Nat /\ i + 1 \in 0 .. m
        BY <2>2
      <3>2. Nested(i + 1) = [tag : Int, num : Nat, data : Seq(Nested(i))]
            /\ Nested((i + 1) + 1) = [tag : Int, num : Nat, data : Seq(Nested(i + 1))]
        BY <3>1, NestedIs
      <3>3. Nested(i + 1) \subseteq Nested((i + 1) + 1)
        BY <3>1, <3>2, HoldingMore
      <3> QED
        BY <3>1, <3>3
    <2>3. m \in C
      <3> HIDE DEF C
      <3>1. \A i \in 0 .. m : i \in C
        BY <2>1, <2>2, Induction
      <3> QED
        BY <3>1
    <2> QED
      BY <2>3
  <1>2. 0 \in B
    OBVIOUS
  <1>3. ASSUME NEW i \in 0 .. k - 1, i \in B PROVE i + 1 \in B
    <2>1. n + i \in Nat /\ n + (i + 1) = (n + i) + 1
      OBVIOUS
    <2>2. Nested(n + i) \subseteq Nested((n + i) + 1)
      BY <1>1, <2>1
    <2> QED
      BY <1>3, <2>1, <2>2
  <1>4. k \in B
    <2> HIDE DEF B
    <2>1. \A i \in 0 .. k : i \in B
      BY <1>2, <1>3, Induction
    <2> QED
      BY <2>1
  <1> QED
    BY <1>4

\* Wire fields are what holds wire fields.
LEMMA WireFieldsHoldThemselves ==
    WireFields = [tag : Int, num : Nat, data : Seq(WireFields)]
  <1> DEFINE All == [tag : Int, num : Nat, data : Seq(WireFields)]
  <1>1. \A n \in Nat : Nested(n) \subseteq WireFields
    BY DEF WireFields
  <1>2. ASSUME NEW x \in WireFields PROVE x \in All
    <2>1. PICK n \in Nat : x \in Nested(n)
      BY DEF WireFields
    <2>2. n # 0 /\ n - 1 \in Nat /\ (n - 1) + 1 = n
      BY <2>1, NestedIs
    <2>3. x \in [tag : Int, num : Nat, data : Seq(Nested(n - 1))]
      BY <2>1, <2>2, NestedIs
    <2> QED
      BY <1>1, <2>2, <2>3, HoldingMore
  <1>3. ASSUME NEW x \in All PROVE x \in WireFields
    <2> DEFINE A == {d \in Seq(WireFields) : \E n \in Nat : d \in Seq(Nested(n))}
    <2>1. <<>> \in A
      BY EmptySeq
    <2>2. ASSUME NEW d \in Seq(WireFields), NEW y \in WireFields, d \in A PROVE Append(d, y) \in A
      <3>1. PICK n \in Nat : d \in Seq(Nested(n))
        BY <2>2
      <3>2. PICK k \in Nat : y \in Nested(k)
        BY DEF WireFields
      <3>3. Nested(n) \subseteq Nested(n + k) /\ Nested(k) \subseteq Nested(k + n) /\ k + n = n + k
        <4>1. k + n = n + k
          OBVIOUS
        <4>2. Nested(n) \subseteq Nested(n + k)
          BY NestedGrows
        <4>3. Nested(k) \subseteq Nested(k + n)
          BY NestedGrows
        <4> QED
          BY <4>1, <4>2, <4>3
      <3>4. d \in Seq(Nested(n + k)) /\ y \in Nested(n + k)
        BY <3>1, <3>2, <3>3, SeqOfMore
      <3>5. n + k \in Nat
        OBVIOUS
      <3>6. Append(d, y) \in Seq(Nested(n + k)) /\ Append(d, y) \in Seq(WireFields)
        BY <3>4, AppendProperties
      <3> QED
        BY <3>5, <3>6
    <2>3. \A d \in Seq(WireFields) : d \in A
      <3> HIDE DEF A
      <3> QED
        BY <2>1, <2>2, SeqInduction
    <2>4. x.data \in Seq(WireFields) /\ x.tag \in Int /\ x.num \in Nat
          /\ x = [tag |-> x.tag, num |-> x.num, data |-> x.data]
      OBVIOUS
    <2>5. PICK n \in Nat : x.data \in Seq(Nested(n))
      BY <2>3, <2>4
    <2>6. x \in [tag : Int, num : Nat, data : Seq(Nested(n))]
      BY <2>4, <2>5
    <2>7. x \in Nested(n + 1) /\ n + 1 \in Nat
      <3>1. n \in Nat => Nested(n + 1) = [tag : Int, num : Nat, data : Seq(Nested(n))]
        BY NestedIs
      <3>2. n \in Nat /\ n + 1 \in Nat
        OBVIOUS
      <3> QED
        BY <2>6, <3>1, <3>2, Zenon
    <2> QED
      BY <1>1, <2>7
  <1> QED
    BY <1>2, <1>3

\* A sum of counts is a count.
LEMMA BytesAreCounted ==
    ASSUME NEW S, \A x \in S : FieldBytes(x) \in Nat, NEW d \in Seq(S)
    PROVE  BytesOf(d) \in Nat
  <1> DEFINE h == [i \in DOMAIN d |-> FieldBytes(d[i])]
             D == DOMAIN d
  <1>1. D = 1 .. Len(d) /\ Len(d) \in Nat /\ \A i \in 1 .. Len(d) : d[i] \in S
    BY LenProperties, ElementOfSeq
  <1>2. \A i \in D : h[i] \in Nat
    BY <1>1
  <1>3. IsFiniteSet(D)
    BY <1>1, FS_Interval
  <1>4. BytesOf(d) = SumFunctionOnSet(h, D)
    BY DEF BytesOf, SumFunction
  <1> HIDE DEF h, D
  <1> QED
    BY <1>2, <1>3, <1>4, SumOneMore

\* The functions the classes call for the messages inside theirs are the same
\* functions, of the class of the message inside.
Tied ==
    /\ \A K \in DOMAIN Messages :
        /\ \A m : \A d \in Seq(WireFields) :
            EmbeddedRead(K, m, d) = MergePartialFromCodedStream(K, m, d)
        /\ \A m : EmbeddedIsInitialized(K, m) = IsInitialized(K, m)
        /\ \A m : EmbeddedSerialize(K, m) = Serialize(K, m)
        /\ \A m : EmbeddedByteSize(K, m) = ByteSize(K, m)
        /\ \A m, n : EmbeddedMergeFrom(K, m, n) = MergeFrom(K, m, n)
        /\ \A s \in SUBSET WireFields : EmbeddedMakes(K, s) = Makes(K, s)
    /\ \A d \in Seq(WireFields) : EmbeddedBytes(d) = BytesOf(d)

\* What the laws ask of the functions and the bytes.
LEMMA TiedIsKnot == ASSUME Tied PROVE Knot(WireFields)
  <1>1. \A n \in Nat : Nested(n) \subseteq WireFields
    BY DEF WireFields
  <1>2. \A n \in Nat : \A x \in Nested(n) : FieldBytes(x) \in Nat
    <2> SUFFICES ASSUME NEW N \in Nat PROVE \A x \in Nested(N) : FieldBytes(x) \in Nat
      OBVIOUS
    <2> DEFINE A == {n \in 0 .. N : \A x \in Nested(n) : FieldBytes(x) \in Nat}
    <2>1. 0 \in A
      BY NestedIs
    <2>2. ASSUME NEW n \in 0 .. N - 1, n \in A PROVE n + 1 \in A
      <3>1. n \in Nat /\ n + 1 \in 0 .. N
        OBVIOUS
      <3>2. Nested(n + 1) = [tag : Int, num : Nat, data : Seq(Nested(n))]
        BY <3>1, NestedIs
      <3>3. ASSUME NEW x \in Nested(n + 1) PROVE FieldBytes(x) \in Nat
        <4>1. x.data \in Seq(Nested(n))
          <5> DEFINE L == Nested(n + 1)
                     S == Seq(Nested(n))
          <5>1. x \in L /\ L = [tag : Int, num : Nat, data : S]
            BY <3>2
          <5> HIDE DEF L, S
          <5>2. x.data \in S
            BY <5>1
          <5> QED
            BY <5>2 DEF S
        <4>2. BytesOf(x.data) \in Nat
          BY <2>2, <4>1, BytesAreCounted
        <4>3. x.data \in Seq(WireFields)
          BY <1>1, <3>1, <4>1, SeqOfMore
        <4>4. EmbeddedBytes(x.data) \in Nat
          BY <4>2, <4>3 DEF Tied
        <4> QED
          BY <4>4 DEF FieldBytes, TagBytes
      <3> QED
        BY <3>1, <3>3
    <2>3. N \in A
      <3> HIDE DEF A
      <3>1. \A n \in 0 .. N : n \in A
        BY <2>1, <2>2, Induction
      <3> QED
        BY <3>1
    <2> QED
      BY <2>3
  <1>3. \A x \in WireFields : FieldBytes(x) \in Nat
    BY <1>2 DEF WireFields
  <1>4. \A d \in Seq(WireFields) : BytesOf(d) \in Nat
    BY <1>3, BytesAreCounted
  <1> QED
    BY <1>4, WireFieldsHoldThemselves DEF Tied, Knot

-----------------------------------------------------------------------------
(* The names of the messages                                                 *)

Titles ==
    ToSet(address_types) \union ToSet(ca_types) \union ToSet(im_types)
        \union ToSet(message_types) \union ToSet(user_types)

\* The files' lists one after the other.
LEMMA PoolIsListed ==
    /\ generated_pool \in Seq(Titles)
    /\ Len(generated_pool) = 30
    /\ generated_pool[16] = "avpacket"
<1>1. address_types \in Seq(Titles) /\ Len(address_types) = 1
  <2>1. address_types \in Seq(ToSet(address_types))
    BY DEF ToSet, address_types
  <2>2. address_types \in Seq(Titles)
    BY <2>1, SeqMonotonic DEF Titles
  <2> QED  BY <2>2 DEF address_types
<1>2. ca_types \in Seq(Titles) /\ Len(ca_types) = 7
  <2>1. ca_types \in Seq(ToSet(ca_types))
    BY DEF ToSet, ca_types
  <2>2. ca_types \in Seq(Titles)
    BY <2>1, SeqMonotonic DEF Titles
  <2> QED  BY <2>2 DEF ca_types
<1>3. im_types \in Seq(Titles) /\ Len(im_types) = 6
  <2>1. im_types \in Seq(ToSet(im_types))
    BY DEF ToSet, im_types
  <2>2. im_types \in Seq(Titles)
    BY <2>1, SeqMonotonic DEF Titles
  <2> QED  BY <2>2 DEF im_types
<1>4. message_types \in Seq(Titles) /\ Len(message_types) = 6
  <2>1. message_types \in Seq(ToSet(message_types))
    BY DEF ToSet, message_types
  <2>2. message_types \in Seq(Titles)
    BY <2>1, SeqMonotonic DEF Titles
  <2> QED  BY <2>2 DEF message_types
<1>5. user_types \in Seq(Titles) /\ Len(user_types) = 10
  <2>1. user_types \in Seq(ToSet(user_types))
    BY DEF ToSet, user_types
  <2>2. user_types \in Seq(Titles)
    BY <2>1, SeqMonotonic DEF Titles
  <2> QED  BY <2>2 DEF user_types
<1>6. message_types[2] = "avpacket"
  BY DEF message_types
<1> DEFINE two == address_types \o ca_types
           three == two \o im_types
           four == three \o message_types
<1>7. two \in Seq(Titles) /\ Len(two) = 8
  <2>1. Len(two) = Len(address_types) + Len(ca_types)
    BY <1>1, <1>2, ConcatProperties
  <2> QED  BY <1>1, <1>2, <2>1, ConcatProperties
<1> HIDE DEF two
<1>8. three \in Seq(Titles) /\ Len(three) = 14
  <2>1. Len(three) = Len(two) + Len(im_types)
    BY <1>3, <1>7, ConcatProperties
  <2> QED  BY <1>3, <1>7, <2>1, ConcatProperties
<1> HIDE DEF three
<1>9. four \in Seq(Titles) /\ Len(four) = 20 /\ four[16] = "avpacket"
  <2>1. Len(four) = Len(three) + Len(message_types)
    BY <1>4, <1>8, ConcatProperties
  <2>2. four \in Seq(Titles)
    BY <1>4, <1>8, ConcatProperties
  <2>3. four[16] = message_types[2]
    <3>1. \A i \in 1 .. Len(three) + Len(message_types) :
            four[i] = IF i <= Len(three) THEN three[i] ELSE message_types[i - Len(three)]
      BY <1>4, <1>8, ConcatProperties
    <3>2. 16 \in 1 .. Len(three) + Len(message_types)
      BY <1>4, <1>8
    <3>3. ~(16 <= Len(three)) /\ 16 - Len(three) = 2
      BY <1>8
    <3> QED  BY <3>1, <3>2, <3>3
  <2> QED  BY <1>4, <1>6, <1>8, <2>1, <2>2, <2>3
<1> HIDE DEF four
<1>10. generated_pool = four \o user_types
  BY DEF generated_pool, four, three, two
<1>11. Len(generated_pool) = Len(four) + Len(user_types)
  BY <1>5, <1>9, <1>10, ConcatProperties
<1>12. generated_pool \in Seq(Titles)
  BY <1>5, <1>9, <1>10, ConcatProperties
<1>13. generated_pool[16] = four[16]
  <2>1. \A i \in 1 .. Len(four) + Len(user_types) :
          (four \o user_types)[i] = IF i <= Len(four) THEN four[i] ELSE user_types[i - Len(four)]
    BY <1>5, <1>9, ConcatProperties
  <2>2. 16 \in 1 .. Len(four) + Len(user_types) /\ 16 <= Len(four)
    BY <1>5, <1>9
  <2> QED  BY <1>10, <2>1, <2>2
<1> QED  BY <1>5, <1>9, <1>11, <1>12, <1>13

\* No message is called like the marks decode() returns without one.
LEMMA MarksAreNoTitles == "nullptr" \notin Titles /\ "length_error" \notin Titles
<1>1. "nullptr" \notin ToSet(address_types) /\ "length_error" \notin ToSet(address_types)
  <2>1. \A i \in 1 .. 1 : address_types[i] # "nullptr" /\ address_types[i] # "length_error"
    BY DEF address_types
  <2>2. DOMAIN address_types = 1 .. 1
    BY DEF address_types
  <2> QED  BY <2>1, <2>2 DEF ToSet
<1>2. "nullptr" \notin ToSet(ca_types) /\ "length_error" \notin ToSet(ca_types)
  <2>1. \A i \in 1 .. 7 : ca_types[i] # "nullptr" /\ ca_types[i] # "length_error"
    BY DEF ca_types
  <2>2. DOMAIN ca_types = 1 .. 7
    BY DEF ca_types
  <2> QED  BY <2>1, <2>2 DEF ToSet
<1>3. "nullptr" \notin ToSet(im_types) /\ "length_error" \notin ToSet(im_types)
  <2>1. \A i \in 1 .. 6 : im_types[i] # "nullptr" /\ im_types[i] # "length_error"
    BY DEF im_types
  <2>2. DOMAIN im_types = 1 .. 6
    BY DEF im_types
  <2> QED  BY <2>1, <2>2 DEF ToSet
<1>4. "nullptr" \notin ToSet(message_types) /\ "length_error" \notin ToSet(message_types)
  <2>1. \A i \in 1 .. 6 : message_types[i] # "nullptr" /\ message_types[i] # "length_error"
    BY DEF message_types
  <2>2. DOMAIN message_types = 1 .. 6
    BY DEF message_types
  <2> QED  BY <2>1, <2>2 DEF ToSet
<1>5. "nullptr" \notin ToSet(user_types) /\ "length_error" \notin ToSet(user_types)
  <2>1. \A i \in 1 .. 10 : user_types[i] # "nullptr" /\ user_types[i] # "length_error"
    BY DEF user_types
  <2>2. DOMAIN user_types = 1 .. 10
    BY DEF user_types
  <2> QED  BY <2>1, <2>2 DEF ToSet
<1> QED  BY <1>1, <1>2, <1>3, <1>4, <1>5 DEF Titles

LEMMA PoolNames ==
    /\ DOMAIN generated_pool = 1 .. 30
    /\ \A k \in DOMAIN generated_pool :
        generated_pool[k] # "nullptr" /\ generated_pool[k] # "length_error"
    /\ generated_pool[16] = "avpacket"
<1>1. DOMAIN generated_pool = 1 .. 30
  BY PoolIsListed, LenProperties
<1>2. \A k \in DOMAIN generated_pool : generated_pool[k] \in Titles
  BY <1>1, PoolIsListed, ElementOfSeq
<1> QED  BY <1>1, <1>2, PoolIsListed, MarksAreNoTitles

-----------------------------------------------------------------------------
(* Frames                                                                    *)

\* What a stream is made of, around the fields of bodies.
Around(S) == S \union {Length(n) : n \in Int} \union {Name(k) : k \in DOMAIN generated_pool}

\* The tokens of a frame.
Written(f) == <<Length(f.length), Length(f.name_len), Name(f.name)>> \o f.body

LEMMA WrittenTokens ==
    ASSUME NEW S, NEW f, f.length \in Int, f.name_len \in Int,
           f.name \in DOMAIN generated_pool, f.body \in Seq(S)
    PROVE  /\ Written(f) \in Seq(Around(S))
           /\ Len(Written(f)) = 3 + Len(f.body)
           /\ Written(f)[1] = Length(f.length)
           /\ Written(f)[2] = Length(f.name_len)
           /\ Written(f)[3] = Name(f.name)
           /\ \A j \in 1 .. Len(f.body) : Written(f)[3 + j] = f.body[j]
<1> DEFINE front == <<Length(f.length), Length(f.name_len), Name(f.name)>>
<1>1. front \in Seq(Around(S))
  <2>1. Length(f.length) \in Around(S) /\ Length(f.name_len) \in Around(S)
        /\ Name(f.name) \in Around(S)
    BY DEF Around
  <2> QED  BY <2>1
<1>2. Len(front) = 3 /\ front[1] = Length(f.length) /\ front[2] = Length(f.name_len)
      /\ front[3] = Name(f.name)
  OBVIOUS
<1>3. f.body \in Seq(Around(S))
  BY SeqMonotonic DEF Around
<1> HIDE DEF front
<1>4. Len(f.body) \in Nat
  BY LenProperties
<1>5. /\ front \o f.body \in Seq(Around(S)) /\ Len(front \o f.body) = 3 + Len(f.body)
      /\ \A i \in 1 .. 3 + Len(f.body) :
            (front \o f.body)[i] = IF i <= 3 THEN front[i] ELSE f.body[i - 3]
  <2>1. front \o f.body \in Seq(Around(S))
    BY <1>1, <1>3, ConcatProperties
  <2>2. Len(front \o f.body) = Len(front) + Len(f.body)
    BY <1>1, <1>3, ConcatProperties
  <2>3. \A i \in 1 .. Len(front) + Len(f.body) :
            (front \o f.body)[i] = IF i <= Len(front) THEN front[i] ELSE f.body[i - Len(front)]
    BY <1>1, <1>3, ConcatProperties
  <2> QED  BY <1>2, <2>1, <2>2, <2>3
<1>6. \A j \in 1 .. Len(f.body) : (front \o f.body)[3 + j] = f.body[j]
  <2> TAKE j \in 1 .. Len(f.body)
  <2>1. 3 + j \in 1 .. 3 + Len(f.body) /\ ~(3 + j <= 3) /\ (3 + j) - 3 = j
    BY <1>4
  <2> QED  BY <1>5, <2>1
<1>7. Written(f) = front \o f.body
  BY DEF Written, front
<1>8. 1 \in 1 .. 3 + Len(f.body) /\ 2 \in 1 .. 3 + Len(f.body) /\ 3 \in 1 .. 3 + Len(f.body)
  BY <1>4
<1> QED  BY <1>2, <1>5, <1>6, <1>7, <1>8

\* What decode() takes out of a frame: as many tokens of name as it says, and
\* the body behind a name of one.
LEMMA WrittenParts ==
    ASSUME NEW S, NEW f, f.length \in Int, f.name_len \in Int,
           f.name \in DOMAIN generated_pool, f.body \in Seq(S)
    PROVE  /\ \A n \in 0 .. Len(f.body) : Len(SubSeq(Written(f), 3, 2 + n)) = n
           /\ SubSeq(Written(f), 3, 3)[1] = Name(f.name)
           /\ SubSeq(Written(f), 4, Len(Written(f))) = f.body
<1> DEFINE w == Written(f)
<1>1. /\ w \in Seq(Around(S)) /\ Len(w) = 3 + Len(f.body) /\ w[3] = Name(f.name)
      /\ \A j \in 1 .. Len(f.body) : w[3 + j] = f.body[j]
  BY WrittenTokens
<1>2. Len(f.body) \in Nat
  BY LenProperties
<1> HIDE DEF w
<1>3. \A i \in 1 .. 3 + Len(f.body) : w[i] \in Around(S)
  BY <1>1, ElementOfSeq
<1>4. \A n \in 0 .. Len(f.body) : Len(SubSeq(w, 3, 2 + n)) = n
  <2> TAKE n \in 0 .. Len(f.body)
  <2>1. \A i \in 3 .. 2 + n : w[i] \in Around(S)
    BY <1>2, <1>3
  <2>2. Len(SubSeq(w, 3, 2 + n)) = IF 3 <= 2 + n THEN (2 + n) - 3 + 1 ELSE 0
    BY <2>1, <1>2, SubSeqProperties
  <2> QED  BY <2>2, <1>2
<1>5. SubSeq(w, 3, 3)[1] = Name(f.name)
  <2>1. \A i \in 3 .. 3 : w[i] \in Around(S)
    BY <1>2, <1>3
  <2>2. \A i \in 1 .. 3 - 3 + 1 : SubSeq(w, 3, 3)[i] = w[3 + i - 1]
    BY <2>1, SubSeqProperties
  <2> QED  BY <2>2, <1>1
<1>6. SubSeq(w, 4, 3 + Len(f.body)) = f.body
  <2> DEFINE b == SubSeq(w, 4, 3 + Len(f.body))
  <2>1. \A i \in 4 .. 3 + Len(f.body) : w[i] \in Around(S)
    BY <1>2, <1>3
  <2>2. b \in Seq(Around(S))
    BY <2>1, <1>2, SubSeqProperties
  <2>3. Len(b) = IF 4 <= 3 + Len(f.body) THEN 3 + Len(f.body) - 4 + 1 ELSE 0
    BY <2>1, <1>2, SubSeqProperties
  <2>4. \A i \in 1 .. 3 + Len(f.body) - 4 + 1 : b[i] = w[4 + i - 1]
    BY <2>1, <1>2, SubSeqProperties
  <2>5. f.body \in Seq(Around(S))
    BY SeqMonotonic DEF Around
  <2> HIDE DEF b
  <2>6. Len(b) = Len(f.body)
    BY <2>3, <1>2
  <2>7. \A i \in 1 .. Len(b) : b[i] = f.body[i]
    <3> TAKE i \in 1 .. Len(b)
    <3>1. i \in 1 .. 3 + Len(f.body) - 4 + 1 /\ 4 + i - 1 = 3 + i /\ i \in 1 .. Len(f.body)
      BY <2>6, <1>2
    <3> QED  BY <3>1, <2>4, <1>1
  <2> QED  BY <2>2, <2>5, <2>6, <2>7, SeqEqual DEF b
<1> QED  BY <1>1, <1>4, <1>5, <1>6 DEF w

\* decode() gives the message of a frame that says the truth about its length
\* and holds one, and none of any other.
LEMMA DecodeWritten ==
    ASSUME NEW S, NEW f, f.length \in Int, f.name_len \in Int,
           f.name \in DOMAIN generated_pool, f.body \in Seq(S),
           f.length = Len(f.body) + 2
    PROVE  decode(Written(f)) = IF Holds(f) THEN Meant(f)
                                ELSE IF f.name_len < 0 THEN Throws ELSE Null
<1> DEFINE w == Written(f)
<1>1. Len(f.body) \in Nat
  BY LenProperties
<1>2. f.body = <<>> <=> Len(f.body) = 0
  BY EmptySeq
<1>3. Len(w) = 3 + Len(f.body) /\ w[1].num = Len(f.body) + 2 /\ w[2].num = f.name_len
  <2>1. Len(w) = 3 + Len(f.body) /\ w[1] = Length(f.length) /\ w[2] = Length(f.name_len)
    BY WrittenTokens
  <2>2. Length(f.length).num = f.length /\ Length(f.name_len).num = f.name_len
    BY DEF Length, Field
  <2> QED  BY <2>1, <2>2
<1>4. /\ \A n \in 0 .. Len(f.body) : Len(SubSeq(w, 3, 2 + n)) = n
      /\ SubSeq(w, 3, 3)[1] = Name(f.name)
      /\ SubSeq(w, 4, 3 + Len(f.body)) = f.body
  BY <1>3, WrittenParts
<1> HIDE DEF w
<1> DEFINE name_len == IF Len(w) > 1 THEN w[2].num ELSE 0
           name == SubSeq(w, 3, 2 + name_len)
           fields == SubSeq(w, 3 + name_len, Len(w))
           T == generated_pool[name[1].num]
<1>5. decode(w) =
        IF Len(w) # w[1].num + 1 \/ name_len >= Len(w) - 2 THEN Null
        ELSE IF name_len < 0 THEN Throws
        ELSE IF ~Named(name) THEN Null
        ELSE IF ParseFromArray(T, fields) THEN [type |-> T, msg |-> MessageIn(T, fields)]
        ELSE Null
  BY DEF decode
<1>6. name_len = f.name_len /\ Len(w) = w[1].num + 1
  BY <1>1, <1>3
<1> HIDE DEF name_len, name, fields, T
<1>7. CASE f.name_len >= Len(f.body) + 1
  <2>1. ~Holds(f) /\ ~(f.name_len < 0)
    BY <1>1, <1>2, <1>7 DEF Holds
  <2> QED  BY <1>1, <1>3, <1>5, <1>6, <1>7, <2>1 DEF w
<1>8. CASE f.name_len < 0
  <2>1. ~Holds(f)
    BY <1>8 DEF Holds
  <2> QED  BY <1>1, <1>3, <1>5, <1>6, <1>8, <2>1 DEF w
<1>9. CASE f.name_len \in 0 .. Len(f.body)
  <2>1. Len(name) = f.name_len
    BY <1>4, <1>6, <1>9 DEF name
  <2>2. /\ ~(Len(w) # w[1].num + 1 \/ name_len >= Len(w) - 2)
        /\ ~(name_len < 0) /\ ~(f.name_len < 0)
    BY <1>1, <1>3, <1>6, <1>9
  <2>3. CASE f.name_len # 1
    <3>1. ~Named(name) /\ ~Holds(f)
      BY <2>1, <2>3 DEF Named, Holds
    <3> QED  BY <1>5, <2>2, <3>1 DEF w
  <2>4. CASE f.name_len = 1
    <3>1. name[1] = Name(f.name) /\ fields = f.body
      BY <1>3, <1>4, <1>6, <2>4 DEF name, fields
    <3>2. Named(name) /\ T = generated_pool[f.name]
      BY <2>1, <2>4, <3>1 DEF Named, T, Name, Field
    <3>3. f.body # <<>>
      BY <1>1, <1>2, <1>9, <2>4
    <3> QED  BY <1>5, <2>2, <2>4, <3>1, <3>2, <3>3 DEF w, Holds, Meant
  <2> QED  BY <2>3, <2>4
<1> QED  BY <1>1, <1>7, <1>8, <1>9

-----------------------------------------------------------------------------
(* The invariant                                                             *)

Tokens == Around(Fields)
Frame == [at : Nat, length : Int, name_len : Int, name : DOMAIN generated_pool,
          body : Seq(Fields)]

\* A frame's tokens.
Width(f) == 3 + Len(f.body)

\* The messages decode() can give.
Handable ==
    LET Texts == {x \in (DOMAIN generated_pool) \X Seq(Tokens) :
                    ParseFromArray(generated_pool[x[1]], x[2])}
    IN  {[type |-> generated_pool[x[1]], msg |-> MessageIn(generated_pool[x[1]], x[2])] :
            x \in Texts}

Typed ==
    /\ draft = NoDraft \/ draft \in [type : Types, body : Seq(Fields)]
    /\ frames \in Seq(Frame)
    /\ stream \in Seq(Tokens)
    /\ place \in 0 .. Len(stream)
    /\ rd \in {"header", "body", "closed", "crashed"}
    /\ rd = "body" => place > 0 /\ response = <<stream[place]>>
    /\ handed \in Seq(Handable)

\* Where frame k begins, or the next one will.
Start(k) == IF k > Len(frames) THEN Len(stream) ELSE frames[k].at

\* The stream is the frames' tokens, one frame after the other.
Laid ==
    /\ Start(1) = 0
    /\ \A i \in 1 .. Len(frames) :
        /\ Start(i + 1) = frames[i].at + Width(frames[i])
        /\ Start(i + 1) <= Len(stream)
        /\ \A j \in 1 .. Width(frames[i]) :
            stream[frames[i].at + j] = Written(frames[i])[j]

\* Only a length can be negative.
SentNegative == \E k \in 1 .. Len(frames) : frames[k].length < 0 \/ frames[k].name_len < 0
Signed == \A i \in 1 .. Len(stream) : stream[i].num \in Int /\ (stream[i].num < 0 => SentNegative)

\* As long as the lengths are true the reader is at the beginning of the frame
\* whose message is handed over next, or behind its header.
AllHonest == \A i \in 1 .. Len(frames) : Honest(frames[i])
InPlace ==
    /\ Len(handed) <= Len(frames)
    /\ \A i \in 1 .. Len(handed) : Holds(frames[i]) /\ handed[i] = Meant(frames[i])
    /\ rd = "header" => place = Start(Len(handed) + 1)
    /\ rd = "body" => Len(handed) < Len(frames) /\ place = Start(Len(handed) + 1) + 1
    /\ rd = "closed" => Len(handed) = Len(frames) \/ ~Holds(frames[Len(handed) + 1])
Kept == AllHonest => InPlace

CrashedOnce == rd = "crashed" => SentNegative

FInv == Typed /\ Laid /\ Signed /\ Kept /\ CrashedOnce

-----------------------------------------------------------------------------
(* The client's steps                                                        *)

LEMMA PositionOf ==
    ASSUME NEW T \in ToSet(generated_pool)
    PROVE  Position(T) \in DOMAIN generated_pool /\ generated_pool[Position(T)] = T
BY DEF Position, ToSet

\* A field left out.
LEMMA RemovedFields ==
    ASSUME NEW S, NEW s \in Seq(S), NEW i \in DOMAIN s
    PROVE  RemoveAt(s, i) \in Seq(S)
<1>1. DOMAIN s = 1 .. Len(s) /\ Len(s) \in Nat
  BY LenProperties
<1>2. \A k \in 1 .. Len(s) : s[k] \in S
  BY ElementOfSeq
<1>3. SubSeq(s, 1, i - 1) \in Seq(S)
  <2>1. \A k \in 1 .. i - 1 : s[k] \in S
    BY <1>1, <1>2
  <2> QED  BY <1>1, <2>1, SubSeqProperties
<1>4. SubSeq(s, i + 1, Len(s)) \in Seq(S)
  <2>1. \A k \in i + 1 .. Len(s) : s[k] \in S
    BY <1>1, <1>2
  <2> QED  BY <1>1, <2>1, SubSeqProperties
<1> QED  BY <1>3, <1>4, ConcatProperties DEF RemoveAt

LEMMA BegunDraft ==
    ASSUME NEW T \in Types, Begin(T)
    PROVE  draft' \in [type : Types, body : Seq(Fields)]
<1>1. Needed(T) \in Seq(Fields)
  BY FramingAssumption
<1>2. CASE draft' = [type |-> T, body |-> Needed(T)]
  BY <1>1, <1>2
<1>3. ASSUME NEW i \in DOMAIN Needed(T),
             draft' = [type |-> T, body |-> RemoveAt(Needed(T), i)]
      PROVE  draft' \in [type : Types, body : Seq(Fields)]
  <2>1. RemoveAt(Needed(T), i) \in Seq(Fields)
    BY <1>1, RemovedFields
  <2> QED  BY <1>3, <2>1
<1> QED  BY <1>2, <1>3 DEF Begin

LEMMA AddedField ==
    ASSUME Typed, AddField
    PROVE  draft' \in [type : Types, body : Seq(Fields)]
<1>1. draft \in [type : Types, body : Seq(Fields)]
  BY DEF Typed, AddField
<1>2. PICK wf \in Liberties(draft.type) : draft' = [draft EXCEPT !.body = Append(@, wf)]
  BY DEF AddField
<1>3. wf \in Fields
  BY <1>1, <1>2 DEF Fields
<1>4. Append(draft.body, wf) \in Seq(Fields)
  BY <1>1, <1>3, AppendProperties
<1> QED  BY <1>1, <1>2, <1>4

\* Frames begin within the stream.
LEMMA StartInStream ==
    ASSUME FInv
    PROVE  \A k \in 1 .. Len(frames) + 1 : Start(k) \in Nat /\ Start(k) <= Len(stream)
<1>1. Len(frames) \in Nat /\ Len(stream) \in Nat
  BY LenProperties DEF FInv, Typed
<1>2. \A i \in 1 .. Len(frames) : frames[i] \in Frame
  BY ElementOfSeq DEF FInv, Typed
<1> TAKE k \in 1 .. Len(frames) + 1
<1>3. Start(k) \in Nat
  <2>1. CASE k \in 1 .. Len(frames)
    <3>1. frames[k].at \in Nat
      BY <1>2, <2>1 DEF Frame
    <3> QED  BY <1>1, <2>1, <3>1 DEF Start
  <2>2. CASE k = Len(frames) + 1
    BY <1>1, <2>2 DEF Start
  <2> QED  BY <1>1, <2>1, <2>2
<1>4. CASE k = 1
  BY <1>1, <1>3, <1>4 DEF FInv, Laid
<1>5. CASE k # 1
  <2>1. k - 1 \in 1 .. Len(frames) /\ (k - 1) + 1 = k
    BY <1>1, <1>5
  <2> QED  BY <1>3, <2>1 DEF FInv, Laid
<1> QED  BY <1>4, <1>5

\* A frame goes to the end of the stream.
LEMMA SentFrame ==
    ASSUME Typed, draft # NoDraft, NEW length \in Int, NEW name_len \in Int,
           Send(length, name_len, Position(draft.type))
    PROVE  \E f \in Frame : /\ f.at = Len(stream)
                            /\ frames' = Append(frames, f)
                            /\ stream' = stream \o Written(f)
<1> DEFINE f == [at |-> Len(stream), length |-> length, name_len |-> name_len,
                 name |-> Position(draft.type), body |-> draft.body]
           front == <<Length(f.length), Length(f.name_len), Name(f.name)>>
<1>1. draft \in [type : Types, body : Seq(Fields)] /\ Types \subseteq ToSet(generated_pool)
  BY FramingAssumption DEF Typed
<1>2. Position(draft.type) \in DOMAIN generated_pool
  BY <1>1, PositionOf
<1>3. stream \in Seq(Tokens) /\ Len(stream) \in Nat
  BY LenProperties DEF Typed
<1>4. f \in Frame
  BY <1>1, <1>2, <1>3 DEF Frame
<1>5. f.body \in Seq(Tokens)
  BY <1>1, SeqMonotonic DEF Tokens, Around
<1>6. front \in Seq(Tokens)
  <2>1. Length(f.length) \in Tokens /\ Length(f.name_len) \in Tokens /\ Name(f.name) \in Tokens
    BY <1>4 DEF Tokens, Around, Frame
  <2> QED  BY <2>1
<1>7. stream' = (stream \o front) \o f.body
  BY DEF Send
<1>9. front \o f.body = Written(f)
  BY DEF Written
<1>10. frames' = Append(frames, f) /\ f.at = Len(stream)
  BY DEF Send
<1> HIDE DEF f, front
<1>8. (stream \o front) \o f.body = stream \o (front \o f.body)
  <2>1. \A s, t, u \in Seq(Tokens) : (s \o t) \o u = s \o (t \o u)
    BY ConcatAssociative
  <2> QED  BY <1>3, <1>5, <1>6, <2>1, Zenon
<1> QED  BY <1>4, <1>7, <1>8, <1>9, <1>10

LEMMA SendKeeps ==
    ASSUME FInv, NEW f \in Frame, f.at = Len(stream),
           frames' = Append(frames, f), stream' = stream \o Written(f),
           draft' = NoDraft, rd \in {"header", "body"},
           UNCHANGED <<place, rd, response, handed, relayed>>
    PROVE  FInv'
<1>a. frames \in Seq(Frame) /\ stream \in Seq(Tokens) /\ Len(frames) \in Nat /\ Len(stream) \in Nat
  BY LenProperties DEF FInv, Typed
<1>0. PICK n, m : n = Len(frames) /\ m = Len(stream) /\ n \in Nat /\ m \in Nat
  BY <1>a
<1> n \in Nat /\ m \in Nat
  BY <1>0
<1>1. /\ frames \in Seq(Frame) /\ Len(frames) = n /\ n \in Nat
      /\ \A i \in 1 .. n : frames[i] \in Frame
  BY <1>a, <1>0, ElementOfSeq
<1>2. stream \in Seq(Tokens) /\ Len(stream) = m /\ m \in Nat /\ place \in 0 .. m
  BY <1>a, <1>0 DEF FInv, Typed
<1>3. /\ f.length \in Int /\ f.name_len \in Int /\ f.name \in DOMAIN generated_pool
      /\ f.body \in Seq(Fields) /\ Len(f.body) \in Nat /\ Width(f) \in Nat
  <2>1. f.body \in Seq(Fields) /\ Len(f.body) \in Nat
    BY LenProperties DEF Frame
  <2> QED  BY <2>1 DEF Frame, Width
<1>4. /\ Written(f) \in Seq(Tokens) /\ Len(Written(f)) = Width(f)
      /\ Written(f)[1] = Length(f.length) /\ Written(f)[2] = Length(f.name_len)
      /\ Written(f)[3] = Name(f.name)
      /\ \A j \in 1 .. Len(f.body) : Written(f)[3 + j] = f.body[j]
  BY <1>3, WrittenTokens DEF Tokens, Width
<1>5. /\ frames' \in Seq(Frame) /\ Len(frames') = n + 1
      /\ \A i \in 1 .. n : frames'[i] = frames[i]
      /\ frames'[n + 1] = f
  <2>1. frames' \in Seq(Frame) /\ Len(frames') = n + 1
    BY <1>1, AppendProperties
  <2>2. \A i \in 1 .. n : frames'[i] = frames[i]
    BY <1>1, AppendProperties
  <2>3. frames'[n + 1] = f
    BY <1>1, AppendProperties
  <2> QED  BY <2>1, <2>2, <2>3
<1>6. /\ stream' \in Seq(Tokens) /\ Len(stream') = m + Width(f)
      /\ \A i \in 1 .. m : stream'[i] = stream[i]
      /\ \A j \in 1 .. Width(f) : stream'[m + j] = Written(f)[j]
  <2>1. stream' \in Seq(Tokens)
    BY <1>2, <1>4, ConcatProperties
  <2>2. Len(stream') = m + Len(Written(f))
    BY <1>2, <1>4, ConcatProperties
  <2>3. \A i \in 1 .. m + Len(Written(f)) :
          stream'[i] = IF i <= m THEN stream[i] ELSE Written(f)[i - m]
    <3>1. \A i \in 1 .. Len(stream) + Len(Written(f)) :
            (stream \o Written(f))[i] =
                IF i <= Len(stream) THEN stream[i] ELSE Written(f)[i - Len(stream)]
      <4>1. stream \in Seq(Tokens) /\ Written(f) \in Seq(Tokens)
        BY <1>2, <1>4
      <4> QED  BY <4>1, ConcatProperties
    <3> QED  BY <1>2, <3>1
  <2>4. \A i \in 1 .. m : stream'[i] = stream[i]
    BY <1>2, <1>3, <1>4, <2>3
  <2>5. \A j \in 1 .. Width(f) : stream'[m + j] = Written(f)[j]
    <3> TAKE j \in 1 .. Width(f)
    <3>1. m + j \in 1 .. m + Len(Written(f)) /\ ~(m + j <= m) /\ (m + j) - m = j
      BY <1>2, <1>3, <1>4
    <3> QED  BY <2>3, <3>1
  <2>6. Len(stream') = m + Width(f)
    BY <1>4, <2>2
  <2> QED  BY <2>1, <2>4, <2>5, <2>6
<1>7. \A k \in 1 .. n + 1 : Start(k)' = Start(k)
  <2> TAKE k \in 1 .. n + 1
  <2>1. CASE k \in 1 .. n
    <3>1. ~(k > Len(frames)) /\ ~(k > Len(frames'))
      BY <1>1, <1>5, <2>1
    <3> QED  BY <1>5, <2>1, <3>1 DEF Start
  <2>2. CASE k = n + 1
    <3>1. k > Len(frames) /\ ~(k > Len(frames'))
      BY <1>1, <1>5, <2>2
    <3> QED  BY <1>5, <2>2, <3>1 DEF Start
  <2> QED  BY <1>1, <2>1, <2>2
<1>8. Start(n + 2)' = m + Width(f) /\ Start(n + 1) = m
  <2>1. n + 2 > Len(frames') /\ n + 1 > Len(frames)
    BY <1>1, <1>5
  <2> QED  BY <1>2, <1>6, <2>1 DEF Start
<1>9. Typed'
  <2>1. place \in 0 .. Len(stream')
    BY <1>2, <1>3, <1>6
  <2>2. rd = "body" => stream'[place] = stream[place]
    BY <1>2, <1>6 DEF FInv, Typed
  <2> QED  BY <1>5, <1>6, <2>1, <2>2 DEF FInv, Typed
<1>14. \A i \in 1 .. n : Start(i + 1)' = Start(i + 1)
  BY <1>7
<1>10. Laid'
  <2>1. Start(1)' = 0
    BY <1>7 DEF FInv, Laid
  <2>2. ASSUME NEW i \in 1 .. n
        PROVE  /\ Start(i + 1)' = frames'[i].at + Width(frames'[i])
               /\ Start(i + 1)' <= Len(stream')
               /\ \A j \in 1 .. Width(frames'[i]) :
                    stream'[frames'[i].at + j] = Written(frames'[i])[j]
    <3>1. /\ Start(i + 1) = frames[i].at + Width(frames[i])
          /\ \A j \in 1 .. Width(frames[i]) :
                stream[frames[i].at + j] = Written(frames[i])[j]
      BY <1>1, <2>2 DEF FInv, Laid
    <3>2. frames[i].at \in Nat /\ Width(frames[i]) \in Nat
      <4>1. frames[i].at \in Nat /\ Len(frames[i].body) \in Nat
        BY <1>1, <2>2, LenProperties DEF Frame
      <4> QED  BY <4>1 DEF Width
    <3>3. Start(i + 1) <= m
      BY StartInStream, <1>1, <1>2, <2>2
    <3>4. \A j \in 1 .. Width(frames[i]) :
            stream'[frames[i].at + j] = stream[frames[i].at + j]
      <4> TAKE j \in 1 .. Width(frames[i])
      <4>1. frames[i].at + j \in 1 .. m
        BY <3>1, <3>2, <3>3
      <4> QED  BY <1>6, <4>1
    <3>5. Start(i + 1)' <= Len(stream')
      BY <1>3, <1>6, <1>14, <2>2, <3>1, <3>2, <3>3
    <3> QED  BY <1>5, <1>14, <2>2, <3>1, <3>4, <3>5
  <2>3. /\ Start(n + 2)' = f.at + Width(f)
        /\ Start(n + 2)' <= Len(stream')
        /\ \A j \in 1 .. Width(f) : stream'[f.at + j] = Written(f)[j]
    <3>1. f.at = m
      BY <1>2
    <3>2. Start(n + 2)' = f.at + Width(f) /\ Start(n + 2)' <= Len(stream')
      BY <1>3, <1>6, <1>8, <3>1
    <3>3. \A j \in 1 .. Width(f) : stream'[f.at + j] = Written(f)[j]
      BY <1>6, <3>1
    <3> QED  BY <3>2, <3>3
  <2>4. \A i \in 1 .. n + 1 : i \in 1 .. n \/ (i = n + 1 /\ i + 1 = n + 2)
    OBVIOUS
  <2>5. \A i \in 1 .. n + 1 :
           /\ Start(i + 1)' = frames'[i].at + Width(frames'[i])
           /\ Start(i + 1)' <= Len(stream')
           /\ \A j \in 1 .. Width(frames'[i]) :
                stream'[frames'[i].at + j] = Written(frames'[i])[j]
    <3> TAKE i \in 1 .. n + 1
    <3>1. CASE i \in 1 .. n
      BY <2>2, <3>1
    <3>2. CASE i = n + 1
      <4>1. frames'[i] = f /\ Start(i + 1)' = Start(n + 2)'
        BY <1>5, <2>4, <3>2
      <4> QED  BY <2>3, <4>1
    <3> QED  BY <2>4, <3>1, <3>2
  <2> QED  BY <1>5, <2>1, <2>5 DEF Laid
<1>11. Signed'
  <2>1. SentNegative => SentNegative'
    BY <1>1, <1>5 DEF SentNegative
  <2>2. f.length < 0 \/ f.name_len < 0 => SentNegative'
    <3>1. n + 1 \in 1 .. Len(frames')
      BY <1>5
    <3> QED  BY <1>5, <3>1 DEF SentNegative
  <2>3. ASSUME NEW i \in 1 .. m
        PROVE  stream'[i].num \in Int /\ (stream'[i].num < 0 => SentNegative')
    BY <1>2, <1>6, <2>1, <2>3 DEF FInv, Signed
  <2>4. ASSUME NEW j \in 1 .. Width(f)
        PROVE  stream'[m + j].num \in Int /\ (stream'[m + j].num < 0 => SentNegative')
    <3>1. stream'[m + j] = Written(f)[j]
      BY <1>6, <2>4
    <3>2. CASE j = 1
      BY <1>3, <1>4, <2>2, <3>1, <3>2 DEF Length, Field
    <3>3. CASE j = 2
      BY <1>3, <1>4, <2>2, <3>1, <3>3 DEF Length, Field
    <3>4. CASE j = 3
      <4>1. PICK k \in 1 .. 30 : f.name = k
        BY <1>3, PoolNames
      <4>2. stream'[m + j].num = f.name
        BY <1>4, <3>1, <3>4 DEF Name, Field
      <4>3. f.name \in Int /\ ~(f.name < 0)
        <5>1. k \in Int /\ ~(k < 0)
          OBVIOUS
        <5> QED  BY <4>1, <5>1, Zenon
      <4> QED  BY <4>2, <4>3
    <3>5. CASE j > 3
      <4>1. j - 3 \in 1 .. Len(f.body) /\ 3 + (j - 3) = j
        BY <1>3, <2>4, <3>5 DEF Width
      <4>2. Written(f)[j] = f.body[j - 3] /\ f.body[j - 3] \in Fields
        BY <1>3, <1>4, <4>1, ElementOfSeq
      <4>3. f.body[j - 3].num \in Nat
        BY <4>2, FramingAssumption
      <4> QED  BY <3>1, <4>2, <4>3
    <3>6. j \in Nat /\ j >= 1
      BY <1>3, <2>4
    <3>7. j = 1 \/ j = 2 \/ j = 3 \/ j > 3
      BY <3>6
    <3> QED  BY <3>2, <3>3, <3>4, <3>5, <3>7
  <2>5. ASSUME NEW i \in 1 .. Len(stream')
        PROVE  stream'[i].num \in Int /\ (stream'[i].num < 0 => SentNegative')
    <3>1. CASE i \in 1 .. m
      BY <2>3, <3>1
    <3>2. CASE i \notin 1 .. m
      <4>1. i - m \in 1 .. Width(f) /\ m + (i - m) = i
        BY <1>3, <1>6, <2>5, <3>2
      <4> QED  BY <2>4, <4>1
    <3> QED  BY <3>1, <3>2
  <2> QED  BY <2>5 DEF Signed
<1>12. Kept'
  <2> SUFFICES ASSUME AllHonest'
               PROVE  InPlace'
    BY DEF Kept
  <2>1. AllHonest
    BY <1>1, <1>5 DEF AllHonest
  <2>2. /\ Len(handed) <= n
        /\ \A i \in 1 .. Len(handed) : Holds(frames[i]) /\ handed[i] = Meant(frames[i])
        /\ rd = "header" => place = Start(Len(handed) + 1)
        /\ rd = "body" => Len(handed) < n /\ place = Start(Len(handed) + 1) + 1
    BY <1>1, <2>1 DEF FInv, Kept, InPlace
  <2>3. Len(handed) \in Nat
    BY LenProperties DEF FInv, Typed
  <2>4. Start(Len(handed) + 1)' = Start(Len(handed) + 1)
    <3>1. Len(handed) + 1 \in 1 .. n + 1
      BY <2>2, <2>3
    <3>2. PICK k \in 1 .. n + 1 : k = Len(handed) + 1
      BY <3>1
    <3>3. Start(k)' = Start(k)
      BY <1>7
    <3> QED  BY <3>2, <3>3
  <2>5. \A i \in 1 .. Len(handed) : frames'[i] = frames[i]
    BY <1>5, <2>2, <2>3
  <2> QED  BY <1>5, <2>2, <2>3, <2>4, <2>5 DEF InPlace
<1>13. CrashedOnce'
  BY DEF CrashedOnce
<1> QED  BY <1>9, <1>10, <1>11, <1>12, <1>13 DEF FInv

-----------------------------------------------------------------------------
(* What decode() gives                                                       *)

\* A message of the pool that the parser found in the bytes, or none; the
\* length_error only for a negative length of a name.
LEMMA DecodeGives ==
    ASSUME NEW buf \in Seq(Tokens), buf # <<>>,
           \A i \in 1 .. Len(buf) : buf[i].num \in Int
    PROVE  /\ decode(buf) \in {Null, Throws} \union Handable
           /\ decode(buf) = Throws => \E i \in 1 .. Len(buf) : buf[i].num < 0
<1>1. Len(buf) \in Nat /\ Len(buf) > 0
  BY EmptySeq, LenProperties
<1> DEFINE name_len == IF Len(buf) > 1 THEN buf[2].num ELSE 0
           name == SubSeq(buf, 3, 2 + name_len)
           fields == SubSeq(buf, 3 + name_len, Len(buf))
           T == generated_pool[name[1].num]
<1>2. decode(buf) =
        IF Len(buf) # buf[1].num + 1 \/ name_len >= Len(buf) - 2 THEN Null
        ELSE IF name_len < 0 THEN Throws
        ELSE IF ~Named(name) THEN Null
        ELSE IF ParseFromArray(T, fields) THEN [type |-> T, msg |-> MessageIn(T, fields)]
        ELSE Null
  BY DEF decode
<1>3. name_len \in Int
  BY <1>1
<1>4. name_len < 0 => 2 \in 1 .. Len(buf) /\ buf[2].num < 0
  BY <1>1
<1>5. ASSUME ~(name_len < 0), ~(name_len >= Len(buf) - 2), Named(name), ParseFromArray(T, fields)
      PROVE  [type |-> T, msg |-> MessageIn(T, fields)] \in Handable
  <2>1. fields \in Seq(Tokens)
    <3>1. \A i \in 3 + name_len .. Len(buf) : buf[i] \in Tokens
      <4> TAKE i \in 3 + name_len .. Len(buf)
      <4>1. i \in 1 .. Len(buf)
        BY <1>1, <1>3, <1>5
      <4> QED  BY <4>1, ElementOfSeq
    <3>2. 3 + name_len \in Int /\ Len(buf) \in Int
      BY <1>1, <1>3
    <3> QED  BY <3>1, <3>2, SubSeqProperties
  <2>2. name[1].num \in DOMAIN generated_pool
    BY <1>5 DEF Named
  <2> HIDE DEF name, fields
  <2>3. <<name[1].num, fields>> \in {x \in (DOMAIN generated_pool) \X Seq(Tokens) :
                                     ParseFromArray(generated_pool[x[1]], x[2])}
    BY <1>5, <2>1, <2>2
  <2> QED  BY <2>3 DEF Handable
<1> HIDE DEF name_len, name, fields
<1>6. decode(buf) = Throws => name_len < 0
  <2>1. Null # Throws
    BY DEF Null, Throws
  <2>2. Named(name) => T # "length_error"
    BY PoolNames DEF Named
  <2>3. Named(name) => [type |-> T, msg |-> MessageIn(T, fields)] # Throws
    BY <2>2 DEF Throws
  <2> QED  BY <1>2, <2>1, <2>3
<1>7. decode(buf) \in {Null, Throws} \union Handable
  BY <1>2, <1>5
<1> QED  BY <1>4, <1>6, <1>7

LEMMA HandableIsNoMark ==
    /\ Null \notin Handable /\ Throws \notin Handable /\ Null # Throws
    /\ \A f : f.name \in DOMAIN generated_pool => Meant(f) \notin {Null, Throws}
<1>1. Null # Throws
  BY DEF Null, Throws
<1>2. \A r \in Handable : r # Null /\ r # Throws
  <2> TAKE r \in Handable
  <2>1. PICK x \in (DOMAIN generated_pool) \X Seq(Tokens) :
              r = [type |-> generated_pool[x[1]], msg |-> MessageIn(generated_pool[x[1]], x[2])]
    BY DEF Handable
  <2>2. r.type # "nullptr" /\ r.type # "length_error"
    BY <2>1, PoolNames
  <2> QED  BY <2>2 DEF Null, Throws
<1>3. ASSUME NEW f, f.name \in DOMAIN generated_pool
      PROVE  Meant(f) # Null /\ Meant(f) # Throws
  <2>1. Meant(f).type # "nullptr" /\ Meant(f).type # "length_error"
    BY <1>3, PoolNames DEF Meant
  <2> QED  BY <2>1 DEF Null, Throws
<1> QED  BY <1>1, <1>2, <1>3

-----------------------------------------------------------------------------
(* The reader's steps                                                        *)

\* Where a frame lies in the stream.
LEMMA FrameLies ==
    ASSUME FInv, NEW k \in 1 .. Len(frames)
    PROVE  /\ frames[k] \in Frame
           /\ frames[k].at \in Nat /\ Width(frames[k]) \in Nat /\ Width(frames[k]) >= 3
           /\ frames[k].length \in Int
           /\ Start(k) = frames[k].at
           /\ Start(k + 1) = frames[k].at + Width(frames[k])
           /\ frames[k].at + Width(frames[k]) <= Len(stream)
           /\ \A j \in 1 .. Width(frames[k]) : stream[frames[k].at + j] = Written(frames[k])[j]
           /\ stream[frames[k].at + 1] = Length(frames[k].length)
           /\ Honest(frames[k]) => Width(frames[k]) = frames[k].length + 1
                                  /\ frames[k].length <= Limit
<1> DEFINE f == frames[k]
<1>1. f \in Frame
  BY ElementOfSeq DEF FInv, Typed
<1>2. f.at \in Nat /\ f.length \in Int /\ f.body \in Seq(Fields) /\ Len(f.body) \in Nat
  BY <1>1, LenProperties DEF Frame
<1>3. Width(f) \in Nat /\ Width(f) >= 3
  BY <1>2 DEF Width
<1>4. /\ Start(k + 1) = f.at + Width(f) /\ Start(k + 1) <= Len(stream)
      /\ \A j \in 1 .. Width(f) : stream[f.at + j] = Written(f)[j]
  BY DEF FInv, Laid
<1>5. Len(frames) \in Nat
  BY LenProperties DEF FInv, Typed
<1>6. Start(k) = f.at
  <2>1. ~(k > Len(frames))
    BY <1>5
  <2> QED  BY <2>1 DEF Start
<1>7. Written(f)[1] = Length(f.length)
  BY <1>1, WrittenTokens DEF Frame
<1>8. 1 \in 1 .. Width(f)
  BY <1>3
<1>9. Honest(f) => Width(f) = f.length + 1 /\ f.length <= Limit
  BY <1>2 DEF Honest, Width
<1> QED  BY <1>1, <1>2, <1>3, <1>4, <1>6, <1>7, <1>8, <1>9

\* The places the reader has been given, where nothing else changes.
LEMMA PlacesStay ==
    ASSUME UNCHANGED <<frames, stream>>
    PROVE  /\ \A k : Start(k)' = Start(k)
           /\ AllHonest' = AllHonest /\ SentNegative' = SentNegative
           /\ Laid' = Laid /\ Signed' = Signed
BY DEF Start, AllHonest, SentNegative, Laid, Signed

LEMMA HeaderKeeps ==
    ASSUME FInv, HandleReadHeader
    PROVE  FInv'
<1>1. /\ rd = "header" /\ place < Len(stream) /\ place' = place + 1
      /\ response' = <<stream[place + 1]>>
      /\ rd' = IF PacketLength(stream[place + 1]) > Limit THEN "closed" ELSE "body"
      /\ UNCHANGED <<draft, odd, frames, stream, handed, relayed>>
  BY DEF HandleReadHeader
<1>2. place \in 0 .. Len(stream) /\ Len(stream) \in Nat /\ Len(handed) \in Nat /\ Len(frames) \in Nat
  BY LenProperties DEF FInv, Typed
<1>3. /\ \A k : Start(k)' = Start(k)
      /\ AllHonest' = AllHonest /\ SentNegative' = SentNegative
      /\ Laid' = Laid /\ Signed' = Signed
  BY <1>1, PlacesStay
<1>4. Typed'
  <2>1. place' \in 0 .. Len(stream) /\ place' > 0
    BY <1>1, <1>2
  <2>2. rd' \in {"closed", "body"}
    BY <1>1
  <2> QED  BY <1>1, <2>1, <2>2 DEF FInv, Typed
<1>5. Kept'
  <2> SUFFICES ASSUME AllHonest'
               PROVE  InPlace'
    BY DEF Kept
  <2>1. AllHonest /\ InPlace
    BY <1>3 DEF FInv, Kept
  <2>2. place = Start(Len(handed) + 1) /\ Len(handed) <= Len(frames)
    BY <1>1, <2>1 DEF InPlace
  <2>3. Len(handed) < Len(frames)
    <3>1. CASE Len(handed) = Len(frames)
      <4>1. Len(handed) + 1 > Len(frames)
        BY <1>2, <3>1
      <4>2. place = Len(stream)
        BY <2>2, <4>1 DEF Start
      <4> QED  BY <1>1, <1>2, <4>2
    <3> QED  BY <1>2, <2>2, <3>1
  <2>4. PICK k \in 1 .. Len(frames) : k = Len(handed) + 1
    BY <1>2, <2>3
  <2>5. stream[place + 1] = Length(frames[k].length) /\ frames[k].length <= Limit
        /\ frames[k].length \in Int
    BY <2>1, <2>2, <2>4, FrameLies DEF AllHonest
  <2>6. ~(PacketLength(stream[place + 1]) > Limit)
    <3>1. PacketLength(stream[place + 1]) = frames[k].length
      BY <2>5 DEF PacketLength, Length, Field
    <3> QED  BY <2>5, <3>1, FramingAssumption
  <2>7. rd' = "body"
    BY <1>1, <2>6
  <2>8. place' = Start(Len(handed) + 1)' + 1
    BY <1>1, <1>3, <2>2, <2>4
  <2> QED  BY <1>1, <2>1, <2>3, <2>7, <2>8 DEF InPlace
<1>6. CrashedOnce'
  BY <1>1 DEF CrashedOnce
<1> QED  BY <1>3, <1>4, <1>5, <1>6 DEF FInv

LEMMA PeerClosesKeeps ==
    ASSUME FInv, PeerCloses
    PROVE  FInv'
<1>1. /\ \/ rd = "header" /\ place = Len(stream)
         \/ rd = "body" /\ PacketLength(response[1]) \notin 0 .. Len(stream) - place
      /\ rd' = "closed"
      /\ UNCHANGED <<draft, odd, frames, stream, place, handed, relayed>>
  BY DEF PeerCloses
<1>2. place \in 0 .. Len(stream) /\ Len(stream) \in Nat /\ Len(handed) \in Nat /\ Len(frames) \in Nat
  BY LenProperties DEF FInv, Typed
<1>3. /\ \A k : Start(k)' = Start(k)
      /\ AllHonest' = AllHonest /\ SentNegative' = SentNegative
      /\ Laid' = Laid /\ Signed' = Signed
  BY <1>1, PlacesStay
<1>4. Typed'
  BY <1>1 DEF FInv, Typed
<1>5. Kept'
  <2> SUFFICES ASSUME AllHonest'
               PROVE  InPlace'
    BY DEF Kept
  <2>1. AllHonest /\ InPlace /\ Len(handed) <= Len(frames)
    BY <1>3 DEF FInv, Kept, InPlace
  <2>2. ASSUME Len(handed) # Len(frames)
        PROVE  FALSE
    <3>1. PICK k \in 1 .. Len(frames) : k = Len(handed) + 1
      BY <1>2, <2>1, <2>2
    <3>2. /\ frames[k].at \in Nat /\ Width(frames[k]) \in Nat /\ Width(frames[k]) >= 3
          /\ Start(k) = frames[k].at /\ frames[k].at + Width(frames[k]) <= Len(stream)
          /\ stream[frames[k].at + 1] = Length(frames[k].length) /\ frames[k].length \in Int
          /\ Width(frames[k]) = frames[k].length + 1
      BY <2>1, FrameLies DEF AllHonest
    <3>3. CASE rd = "header" /\ place = Len(stream)
      <4>1. frames[k].at = Len(stream)
        BY <2>1, <3>1, <3>2, <3>3 DEF InPlace
      <4> QED  BY <1>2, <3>2, <4>1
    <3>4. CASE rd = "body" /\ PacketLength(response[1]) \notin 0 .. Len(stream) - place
      <4>1. place = frames[k].at + 1
        BY <2>1, <3>1, <3>2, <3>4 DEF InPlace
      <4>2. response[1] = Length(frames[k].length)
        BY <3>2, <3>4, <4>1 DEF FInv, Typed
      <4>3. PacketLength(response[1]) = frames[k].length
        BY <4>2 DEF PacketLength, Length, Field
      <4>4. frames[k].length \in 0 .. Len(stream) - place
        BY <1>2, <3>2, <4>1
      <4> QED  BY <3>4, <4>3, <4>4
    <3> QED  BY <1>1, <3>3, <3>4
  <2> QED  BY <1>1, <2>1, <2>2 DEF InPlace
<1>6. CrashedOnce'
  BY <1>1 DEF CrashedOnce
<1> QED  BY <1>3, <1>4, <1>5, <1>6 DEF FInv

\* The bytes handle_read_body decodes: the header and what was read behind it,
\* one piece of the stream.
LEMMA BodyRead ==
    ASSUME FInv, rd = "body", NEW len \in Nat, place + len <= Len(stream)
    PROVE  LET buf == response \o SubSeq(stream, place + 1, place + len)
           IN  /\ buf \in Seq(Tokens) /\ Len(buf) = len + 1 /\ buf # <<>>
               /\ \A i \in 1 .. len + 1 : buf[i] = stream[place - 1 + i]
<1> DEFINE body == SubSeq(stream, place + 1, place + len)
           buf == response \o body
<1>1. /\ place \in Nat /\ place > 0 /\ place <= Len(stream) /\ Len(stream) \in Nat
      /\ response = <<stream[place]>>
  BY LenProperties DEF FInv, Typed
<1>2. \A i \in 1 .. Len(stream) : stream[i] \in Tokens
  BY ElementOfSeq DEF FInv, Typed
<1>3. response \in Seq(Tokens) /\ Len(response) = 1 /\ response[1] = stream[place]
  <2>1. stream[place] \in Tokens
    BY <1>1, <1>2
  <2> QED  BY <1>1, <2>1
<1>4. \A i \in place + 1 .. place + len : stream[i] \in Tokens
  BY <1>1, <1>2
<1>5. body \in Seq(Tokens)
  BY <1>1, <1>4, SubSeqProperties
<1>6. Len(body) = len
  <2>1. Len(body) = IF place + 1 <= place + len THEN place + len - (place + 1) + 1 ELSE 0
    BY <1>1, <1>4, SubSeqProperties
  <2> QED  BY <1>1, <2>1
<1>7. \A i \in 1 .. len : body[i] = stream[place + i]
  <2>1. \A i \in 1 .. place + len - (place + 1) + 1 : body[i] = stream[place + 1 + i - 1]
    BY <1>1, <1>4, SubSeqProperties
  <2> TAKE i \in 1 .. len
  <2>2. i \in 1 .. place + len - (place + 1) + 1 /\ place + 1 + i - 1 = place + i
    BY <1>1
  <2> QED  BY <2>1, <2>2
<1> HIDE DEF body
<1>8. buf \in Seq(Tokens)
  BY <1>3, <1>5, ConcatProperties
<1>9. Len(buf) = len + 1
  <2>1. Len(buf) = Len(response) + Len(body)
    BY <1>3, <1>5, ConcatProperties
  <2> QED  BY <1>3, <1>6, <2>1
<1>10. \A i \in 1 .. len + 1 : buf[i] = stream[place - 1 + i]
  <2>1. \A i \in 1 .. Len(response) + Len(body) :
          buf[i] = IF i <= Len(response) THEN response[i] ELSE body[i - Len(response)]
    BY <1>3, <1>5, ConcatProperties
  <2> TAKE i \in 1 .. len + 1
  <2>2. i \in 1 .. Len(response) + Len(body)
    BY <1>3, <1>6
  <2>3. CASE i = 1
    <3>1. i <= Len(response) /\ place - 1 + i = place
      BY <1>1, <1>3, <2>3
    <3> QED  BY <1>3, <2>1, <2>2, <2>3, <3>1
  <2>4. CASE i # 1
    <3>1. ~(i <= Len(response)) /\ i - Len(response) = i - 1
      BY <1>3, <2>4
    <3>2. i - 1 \in 1 .. len /\ place + (i - 1) = place - 1 + i
      BY <1>1, <2>4
    <3> QED  BY <1>7, <2>1, <2>2, <3>1, <3>2
  <2> QED  BY <2>3, <2>4
<1> HIDE DEF buf
<1>11. buf # <<>>
  <2>1. Len(buf) # 0
    BY <1>9
  <2> QED  BY <1>8, <2>1, EmptySeq
<1> QED  BY <1>8, <1>9, <1>10, <1>11 DEF buf, body

\* A reader in its place reads the frame.
LEMMA FrameRead ==
    ASSUME FInv, AllHonest, rd = "body"
    PROVE  \E k \in 1 .. Len(frames) :
              /\ k = Len(handed) + 1
              /\ PacketLength(response[1]) = frames[k].length
              /\ place + frames[k].length = Start(k + 1)
              /\ response \o SubSeq(stream, place + 1, place + frames[k].length) = Written(frames[k])
<1>1. InPlace /\ Len(handed) \in Nat /\ Len(frames) \in Nat /\ place > 0
      /\ place \in Nat /\ response[1] = stream[place]
  BY LenProperties DEF FInv, Kept, Typed
<1>2. Len(handed) < Len(frames) /\ place = Start(Len(handed) + 1) + 1
  BY <1>1 DEF InPlace
<1>3. PICK k \in 1 .. Len(frames) : k = Len(handed) + 1
  BY <1>1, <1>2
<1> DEFINE f == frames[k]
           len == f.length
           buf == response \o SubSeq(stream, place + 1, place + len)
<1>4. /\ f \in Frame /\ f.at \in Nat /\ len \in Nat /\ Width(f) = len + 1
      /\ Start(k) = f.at /\ Start(k + 1) = f.at + Width(f) /\ f.at + Width(f) <= Len(stream)
      /\ \A j \in 1 .. Width(f) : stream[f.at + j] = Written(f)[j]
      /\ stream[f.at + 1] = Length(f.length)
  <2>1. f.length \in Int /\ Width(f) \in Nat /\ Width(f) >= 3 /\ Width(f) = f.length + 1
    BY FrameLies DEF AllHonest
  <2>2. f.length \in Nat
    BY <2>1
  <2> QED  BY <2>1, <2>2, FrameLies
<1>5. place = f.at + 1
  BY <1>2, <1>3, <1>4
<1>6. PacketLength(response[1]) = f.length
  BY <1>1, <1>4, <1>5 DEF PacketLength, Length, Field
<1> HIDE DEF len, f
<1>7. place + len = Start(k + 1) /\ place + len <= Len(stream)
  <2>1. place + len = f.at + (len + 1)
    <3>1. \A a, b \in Nat : (a + 1) + b = a + (b + 1)
      OBVIOUS
    <3>2. f.at \in Nat /\ len \in Nat
      BY <1>4
    <3> QED  BY <1>5, <3>1, <3>2, Zenon
  <2>2. place + len = f.at + Width(f)
    BY <1>4, <2>1
  <2> QED  BY <1>4, <2>2
<1>8. /\ buf \in Seq(Tokens) /\ Len(buf) = len + 1
      /\ \A i \in 1 .. len + 1 : buf[i] = stream[place - 1 + i]
  BY <1>4, <1>7, BodyRead
<1> HIDE DEF buf
<1>9. Written(f) \in Seq(Tokens) /\ Len(Written(f)) = Width(f)
  BY <1>4, WrittenTokens DEF Frame, Tokens, Width
<1>10. \A i \in 1 .. Len(buf) : buf[i] = Written(f)[i]
  <2> TAKE i \in 1 .. Len(buf)
  <2>1. i \in 1 .. len + 1 /\ i \in 1 .. Width(f) /\ place - 1 + i = f.at + i
    BY <1>4, <1>5, <1>8
  <2> QED  BY <1>4, <1>8, <2>1
<1>11. buf = Written(f)
  BY <1>4, <1>8, <1>9, <1>10, SeqEqual
<1> QED  BY <1>3, <1>6, <1>7, <1>11 DEF f, len, buf

LEMMA BodyKeeps ==
    ASSUME FInv, HandleReadBody
    PROVE  FInv'
<1> DEFINE len == PacketLength(response[1])
           buf == response \o SubSeq(stream, place + 1, place + len)
           result == decode(buf)
<1>1. /\ rd = "body" /\ len >= 0 /\ place + len <= Len(stream) /\ place' = place + len
      /\ UNCHANGED <<draft, odd, frames, stream>>
      /\ \/ result = Null /\ rd' = "closed" /\ UNCHANGED <<handed, relayed>>
         \/ result = Throws /\ rd' = "crashed" /\ UNCHANGED <<handed, relayed>>
         \/ /\ result \notin {Null, Throws} /\ rd' = "header" /\ handed' = Append(handed, result)
  BY DEF HandleReadBody
<1>2. /\ place \in 0 .. Len(stream) /\ Len(stream) \in Nat /\ Len(handed) \in Nat
      /\ Len(frames) \in Nat /\ place > 0 /\ response = <<stream[place]>>
      /\ handed \in Seq(Handable)
  BY <1>1, LenProperties DEF FInv, Typed
<1>3. /\ \A k : Start(k)' = Start(k)
      /\ AllHonest' = AllHonest /\ SentNegative' = SentNegative
      /\ Laid' = Laid /\ Signed' = Signed
  BY <1>1, PlacesStay
<1>4. len \in Nat
  <2>1. place \in 1 .. Len(stream) /\ response[1] = stream[place]
    BY <1>2
  <2>2. stream[place].num \in Int
    BY <2>1 DEF FInv, Signed
  <2>3. len \in Int
    BY <2>1, <2>2 DEF PacketLength
  <2> QED  BY <1>1, <2>3
<1> HIDE DEF len
<1>5. /\ buf \in Seq(Tokens) /\ Len(buf) = len + 1 /\ buf # <<>>
      /\ \A i \in 1 .. len + 1 : buf[i] = stream[place - 1 + i]
  BY <1>1, <1>4, BodyRead
<1> HIDE DEF buf
<1>6. /\ result \in {Null, Throws} \union Handable
      /\ result = Throws => SentNegative
  <2>1. \A i \in 1 .. Len(buf) : place - 1 + i \in 1 .. Len(stream)
    BY <1>1, <1>2, <1>4, <1>5
  <2>2. \A i \in 1 .. Len(buf) : buf[i].num \in Int /\ (buf[i].num < 0 => SentNegative)
    BY <1>5, <2>1 DEF FInv, Signed
  <2> QED  BY <1>5, <2>2, DecodeGives
<1> HIDE DEF result
<1>7. Typed'
  <2>1. place' \in 0 .. Len(stream)
    BY <1>1, <1>2, <1>4
  <2>2. handed' \in Seq(Handable)
    <3>1. CASE result \in {Null, Throws}
      BY <1>1, <1>2, <3>1
    <3>2. CASE result \notin {Null, Throws}
      <4>1. handed' = Append(handed, result) /\ result \in Handable
        BY <1>1, <1>6, <3>2
      <4> QED  BY <1>2, <4>1, AppendProperties
    <3> QED  BY <3>1, <3>2
  <2>3. rd' \in {"closed", "crashed", "header"}
    BY <1>1
  <2> QED  BY <1>1, <2>1, <2>2, <2>3 DEF FInv, Typed
<1>8. Kept'
  <2> SUFFICES ASSUME AllHonest'
               PROVE  InPlace'
    BY DEF Kept
  <2>1. AllHonest /\ InPlace
    BY <1>3 DEF FInv, Kept
  <2>2. PICK k \in 1 .. Len(frames) :
              /\ k = Len(handed) + 1 /\ len = frames[k].length
              /\ place + len = Start(k + 1) /\ buf = Written(frames[k])
    BY <1>1, <2>1, FrameRead DEF len, buf
  <2>3. frames[k] \in Frame /\ Honest(frames[k])
    BY <2>1, FrameLies DEF AllHonest
  <2>4. result = IF Holds(frames[k]) THEN Meant(frames[k])
                 ELSE IF frames[k].name_len < 0 THEN Throws ELSE Null
    BY <2>2, <2>3, DecodeWritten DEF Frame, Honest, result
  <2>5. CASE Holds(frames[k])
    <3>1. result = Meant(frames[k]) /\ result \notin {Null, Throws}
      BY <2>3, <2>4, <2>5, HandableIsNoMark DEF Frame
    <3>2. rd' = "header" /\ handed' = Append(handed, Meant(frames[k]))
      BY <1>1, <3>1
    <3>3. Meant(frames[k]) \in Handable
      BY <1>6, <3>1
    <3>4. Len(handed') = k
      BY <1>2, <2>2, <3>2, <3>3, AppendProperties
    <3>5. \A i \in 1 .. Len(handed) : handed'[i] = handed[i]
      BY <1>2, <3>2, <3>3, AppendProperties
    <3>6. handed'[k] = Meant(frames[k])
      BY <1>2, <2>2, <3>2, <3>3, AppendProperties
    <3>7. \A i \in 1 .. k : Holds(frames[i]) /\ handed'[i] = Meant(frames[i])
      <4> TAKE i \in 1 .. k
      <4>1. CASE i = k
        BY <2>5, <3>6, <4>1
      <4>2. CASE i # k
        <5>1. i \in 1 .. Len(handed)
          BY <1>2, <2>2, <4>2
        <5> QED  BY <2>1, <3>5, <5>1 DEF InPlace
      <4> QED  BY <4>1, <4>2
    <3>8. place' = Start(Len(handed') + 1)
      BY <1>1, <2>2, <3>4
    <3>9. place' = Start(Len(handed) + 1)'
      <4>1. place' = Start(k + 1)'
        BY <1>1, <1>3, <2>2
      <4> QED  BY <3>4, <4>1 DEF Start
    <3> QED  BY <1>1, <1>2, <2>2, <3>2, <3>4, <3>7, <3>9 DEF InPlace
  <2>6. CASE ~Holds(frames[k])
    <3>1. result \in {Null, Throws}
      BY <2>4, <2>6
    <3>2. handed' = handed /\ rd' \in {"closed", "crashed"}
      BY <1>1, <3>1
    <3> QED  BY <1>1, <2>1, <2>2, <2>6, <3>2 DEF InPlace
  <2> QED  BY <2>5, <2>6
<1>9. CrashedOnce'
  BY <1>1, <1>3, <1>6, HandableIsNoMark DEF CrashedOnce
<1> QED  BY <1>3, <1>7, <1>8, <1>9 DEF FInv

-----------------------------------------------------------------------------
(* The reader keeps its place                                                *)

LEMMA FramingInit == ASSUME Init PROVE FInv
<1>1. Len(frames) = 0 /\ Len(stream) = 0 /\ Len(handed) = 0
  BY DEF Init
<1>2. Start(1) = 0
  BY <1>1 DEF Start
<1>3. Typed
  <2>1. frames \in Seq(Frame) /\ stream \in Seq(Tokens) /\ handed \in Seq(Handable)
    BY EmptySeq DEF Init
  <2> QED  BY <1>1, <2>1 DEF Init, Typed
<1>4. Laid
  BY <1>1, <1>2 DEF Laid
<1>5. Signed
  BY <1>1 DEF Signed
<1>6. Kept
  BY <1>1, <1>2 DEF Init, Kept, InPlace
<1>7. CrashedOnce
  BY DEF Init, CrashedOnce
<1> QED  BY <1>3, <1>4, <1>5, <1>6, <1>7 DEF FInv

\* Composing changes nothing that was sent.
LEMMA DraftKeeps ==
    ASSUME FInv, UNCHANGED <<frames, stream, place, rd, response, handed>>,
           draft' = NoDraft \/ draft' \in [type : Types, body : Seq(Fields)]
    PROVE  FInv'
<1>1. Typed'
  BY DEF FInv, Typed
<1>2. /\ \A k : Start(k)' = Start(k)
      /\ AllHonest' = AllHonest /\ SentNegative' = SentNegative
      /\ Laid' = Laid /\ Signed' = Signed
  BY PlacesStay
<1>3. Kept' /\ CrashedOnce'
  BY DEF FInv, Kept, AllHonest, InPlace, Start, CrashedOnce, SentNegative
<1> QED  BY <1>1, <1>2, <1>3 DEF FInv

LEMMA FramingStep == ASSUME FInv, [Next]_vars PROVE FInv'
<1>1. CASE rd \in {"header", "body"} /\ \E T \in Types : Begin(T)
  <2>1. draft' \in [type : Types, body : Seq(Fields)]
    BY <1>1, BegunDraft
  <2> QED  BY <1>1, <2>1, DraftKeeps DEF Begin, server
<1>2. CASE rd \in {"header", "body"} /\ AddField
  <2>1. draft' \in [type : Types, body : Seq(Fields)]
    BY <1>2, AddedField DEF FInv
  <2> QED  BY <1>2, <2>1, DraftKeeps DEF AddField, server
<1>3. CASE rd \in {"header", "body"} /\ SendFrame
  <2>1. draft # NoDraft /\ Len(draft.body) + 2 \in Int
    <3>1. draft # NoDraft
      BY <1>3 DEF SendFrame
    <3>2. Len(draft.body) \in Nat
      BY <3>1, LenProperties DEF FInv, Typed
    <3> QED  BY <3>1, <3>2
  <2>2. \E length \in Int, name_len \in Int : Send(length, name_len, Position(draft.type))
    <3> DEFINE n == Len(draft.body) + 2
    <3>1. \/ Send(n, 1, Position(draft.type))
          \/ \E l \in {-1, 0, n - 1, n + 1, Limit + 1} : Send(l, 1, Position(draft.type))
          \/ \E l \in {-1, 0, 2} : Send(n, l, Position(draft.type))
      BY <1>3 DEF SendFrame
    <3>2. n \in Int /\ Limit \in Int
      BY <2>1, FramingAssumption
    <3> HIDE DEF n
    <3>3. {-1, 0, n - 1, n + 1, Limit + 1} \subseteq Int /\ {-1, 0, 2} \subseteq Int /\ 1 \in Int
      BY <3>2
    <3> QED  BY <3>1, <3>2, <3>3
  <2>3. PICK length \in Int, name_len \in Int : Send(length, name_len, Position(draft.type))
    BY <2>2
  <2>4. PICK f \in Frame : /\ f.at = Len(stream) /\ frames' = Append(frames, f)
                          /\ stream' = stream \o Written(f)
    BY <2>1, <2>3, SentFrame DEF FInv
  <2>5. draft' = NoDraft /\ UNCHANGED <<place, rd, response, handed, relayed>>
    BY <2>3 DEF Send
  <2> QED  BY <1>3, <2>4, <2>5, SendKeeps
<1>4. CASE HandleReadHeader
  BY <1>4, HeaderKeeps
<1>5. CASE HandleReadBody
  BY <1>5, BodyKeeps
<1>6. CASE PeerCloses
  BY <1>6, PeerClosesKeeps
<1>7. CASE UNCHANGED vars
  <2>1. draft' = NoDraft \/ draft' \in [type : Types, body : Seq(Fields)]
    BY <1>7 DEF FInv, Typed, vars
  <2> QED  BY <1>7, <2>1, DraftKeeps DEF vars
<1> QED  BY <1>1, <1>2, <1>3, <1>4, <1>5, <1>6, <1>7 DEF Next, Over

LEMMA FramingHolds == ASSUME FInv PROVE HandedIsSent
<1>1. DOMAIN handed = 1 .. Len(handed) /\ DOMAIN frames = 1 .. Len(frames)
  BY LenProperties DEF FInv, Typed
<1>6. Len(handed) \in Nat /\ Len(frames) \in Nat /\ Len(stream) \in Nat
  BY LenProperties DEF FInv, Typed
<1>2. ASSUME \A i \in DOMAIN frames : Honest(frames[i])
      PROVE  /\ \A i \in DOMAIN handed :
                  i \in DOMAIN frames /\ Holds(frames[i]) /\ handed[i] = Meant(frames[i])
             /\ rd = "closed" \/ (rd = "header" /\ place = Len(stream)) =>
                  \/ Len(handed) = Len(frames)
                  \/ ~Holds(frames[Len(handed) + 1])
  <2>1. AllHonest
    BY <1>1, <1>2 DEF AllHonest
  <2>2. InPlace /\ Len(handed) <= Len(frames)
    BY <2>1 DEF FInv, Kept, InPlace
  <2>3. \A i \in DOMAIN handed :
          i \in DOMAIN frames /\ Holds(frames[i]) /\ handed[i] = Meant(frames[i])
    <3> SUFFICES ASSUME NEW i \in 1 .. Len(handed)
                 PROVE  /\ i \in 1 .. Len(frames)
                        /\ Holds(frames[i]) /\ handed[i] = Meant(frames[i])
      BY <1>1
    <3>1. i \in 1 .. Len(frames)
      BY <1>6, <2>2
    <3> QED  BY <2>2, <3>1 DEF InPlace
  <2>4. ASSUME rd = "header", place = Len(stream), Len(handed) # Len(frames)
        PROVE  FALSE
    <3>1. PICK k \in 1 .. Len(frames) : k = Len(handed) + 1
      BY <1>6, <2>2, <2>4
    <3>2. /\ Start(k) \in Nat /\ Width(frames[k]) \in Nat /\ Width(frames[k]) >= 3
          /\ Start(k) + Width(frames[k]) <= Len(stream)
      BY FrameLies
    <3>3. Start(k) = Len(stream)
      BY <2>2, <2>4, <3>1 DEF InPlace
    <3> QED  BY <1>6, <3>2, <3>3
  <2> QED  BY <2>2, <2>3, <2>4 DEF InPlace
<1>3. rd = "crashed" => SentNegative
  BY DEF FInv, CrashedOnce
<1>4. ASSUME rd = "body", PacketLength(response[1]) < 0
      PROVE  SentNegative
  <2>1. place \in 1 .. Len(stream) /\ response[1] = stream[place]
    BY <1>4, <1>6 DEF FInv, Typed
  <2> QED  BY <1>4, <2>1 DEF FInv, Signed, PacketLength
<1>5. SentNegative => \E i \in DOMAIN frames : frames[i].length < 0 \/ frames[i].name_len < 0
  BY <1>1 DEF SentNegative
<1> QED  BY <1>2, <1>3, <1>4, <1>5 DEF HandedIsSent

\* For every parser, any number of frames and any lengths in them: as long as
\* the lengths are true, connection hands over exactly the messages sent, up to
\* the first frame without one, and only a negative length can hang or end it.
THEOREM ReaderKeepsItsPlace == Spec => []HandedIsSent
<1>1. Init => FInv
  BY FramingInit
<1>2. FInv /\ [Next]_vars => FInv'
  BY FramingStep
<1>3. FInv => HandedIsSent
  BY FramingHolds
<1> QED  BY <1>1, <1>2, <1>3, PTL DEF Spec

-----------------------------------------------------------------------------
(* A packet goes out as it came in                                           *)

\* What is asked of the parser and the serializer: a packet that was read can
\* be written, with one hop less to live, and read again. The generated ones do
\* by RoundTrip of ClientMessages, which says so of every message.
Rereads ==
    \A bytes \in Seq(Tokens) :
        LET pkt == MessageIn("avpacket", bytes)
            out == SerializeToArray("avpacket", Hop(pkt))
        IN  ParseFromArray("avpacket", bytes) /\ pkt.set["time_to_live"] > 1
            => /\ out \in Seq(ToSet(out)) /\ out # <<>>
               /\ ParseFromArray("avpacket", out)
               /\ MessageIn("avpacket", out) = Hop(pkt)

\* Three single tokens one after another.
LEMMA Triple ==
    ASSUME NEW a, NEW b, NEW c
    PROVE  <<a>> \o <<b, c>> = <<a, b, c>>
<1> DEFINE all == {a, b, c}
           x == <<a>>
           y == <<b, c>>
           z == <<a, b, c>>
<1>1. x \in Seq(all) /\ Len(x) = 1 /\ x[1] = a
  OBVIOUS
<1>2. y \in Seq(all) /\ Len(y) = 2 /\ y[1] = b /\ y[2] = c
  OBVIOUS
<1>3. z \in Seq(all) /\ Len(z) = 3 /\ z[1] = a /\ z[2] = b /\ z[3] = c
  OBVIOUS
<1> HIDE DEF all, x, y, z
<1>4. x \o y \in Seq(all)
  BY <1>1, <1>2, ConcatProperties
<1>5. Len(x \o y) = 3
  <2>1. Len(x \o y) = Len(x) + Len(y)
    BY <1>1, <1>2, ConcatProperties
  <2> QED  BY <1>1, <1>2, <2>1
<1>6. \A i \in 1..(Len(x) + Len(y)) :
          (x \o y)[i] = IF i <= Len(x) THEN x[i] ELSE y[i - Len(x)]
  BY <1>1, <1>2, ConcatProperties
<1>7. \A i \in 1..3 : (x \o y)[i] = IF i <= 1 THEN x[i] ELSE y[i - 1]
  <2>1. Len(x) + Len(y) = 3
    BY <1>1, <1>2
  <2> QED  BY <1>1, <1>6, <2>1
<1>8. \A i \in 1..3 : (x \o y)[i] = z[i]
  <2>1. (x \o y)[1] = x[1]
    <3>1. 1 <= 1 /\ 1 \in 1..3
      OBVIOUS
    <3> QED  BY <1>7, <3>1, Zenon
  <2>2. (x \o y)[2] = y[1]
    <3>1. 2 - 1 = 1 /\ ~(2 <= 1) /\ 2 \in 1..3
      OBVIOUS
    <3> QED  BY <1>7, <3>1
  <2>3. (x \o y)[3] = y[2]
    <3>1. 3 - 1 = 2 /\ ~(3 <= 1) /\ 3 \in 1..3
      OBVIOUS
    <3> QED  BY <1>7, <3>1
  <2>4. 1..3 = {1, 2, 3}
    OBVIOUS
  <2> QED  BY <1>1, <1>2, <1>3, <2>1, <2>2, <2>3, <2>4
<1> HIDE DEF x, y
<1>9. x \o y = z
  BY <1>3, <1>4, <1>5, <1>8, SeqEqual
<1> QED  BY <1>9 DEF x, y, z

\* The tokens encode() writes for a message with these fields.
LEMMA EncodeWrites ==
    ASSUME NEW T, NEW m, NEW S, SerializeToArray(T, m) \in Seq(S),
           T \in ToSet(generated_pool)
    PROVE  encode(T, m) = Written([length |-> Len(SerializeToArray(T, m)) + 2, name_len |-> 1,
                                   name |-> Position(T), body |-> SerializeToArray(T, m)])
<1> DEFINE body == SerializeToArray(T, m)
           pair == <<Length(1), Name(Position(T))>>
           tokens == Around(S)
<1>1. Len(body) \in Nat
  BY LenProperties
<1>2. body \in Seq(tokens)
  BY SeqMonotonic DEF Around
<1>3. Position(T) \in DOMAIN generated_pool
  BY PositionOf
<1>4. Length(1) \in tokens /\ Name(Position(T)) \in tokens /\ Length(Len(body) + 2) \in tokens
  BY <1>1, <1>3 DEF Around
<1>5. encode(T, m) = <<Length(Len(pair \o body))>> \o (pair \o body)
  BY DEF encode
<1> HIDE DEF body, tokens
<1>6. pair \in Seq(tokens) /\ Len(pair) = 2 /\ <<Length(Len(body) + 2)>> \in Seq(tokens)
  BY <1>4
<1>7. <<Length(Len(body) + 2)>> \o pair
        = <<Length(Len(body) + 2), Length(1), Name(Position(T))>>
  BY Triple
<1> HIDE DEF pair
<1>8. Len(pair \o body) = Len(body) + 2
  <2>1. Len(pair \o body) = Len(pair) + Len(body)
    BY <1>2, <1>6, ConcatProperties
  <2> QED  BY <1>1, <1>6, <2>1
<1>9. <<Length(Len(body) + 2)>> \o (pair \o body) = (<<Length(Len(body) + 2)>> \o pair) \o body
  <2>1. \A s, t, u \in Seq(tokens) : (s \o t) \o u = s \o (t \o u)
    BY ConcatAssociative
  <2> QED  BY <1>2, <1>6, <2>1, Zenon
<1> QED  BY <1>5, <1>7, <1>8, <1>9 DEF Written, body

LEMMA HopIsReread ==
    ASSUME Rereads, NEW r \in Handable, r.type = "avpacket", r.msg.set["time_to_live"] > 1
    PROVE  decode(encode("avpacket", Hop(r.msg))) = [r EXCEPT !.msg = Hop(@)]
<1>1. PICK x \in (DOMAIN generated_pool) \X Seq(Tokens) :
            /\ ParseFromArray(generated_pool[x[1]], x[2])
            /\ r = [type |-> generated_pool[x[1]], msg |-> MessageIn(generated_pool[x[1]], x[2])]
  BY DEF Handable
<1>2. generated_pool[x[1]] = "avpacket" /\ x[2] \in Seq(Tokens)
  BY <1>1
<1> DEFINE pkt == MessageIn("avpacket", x[2])
           out == SerializeToArray("avpacket", Hop(pkt))
           f == [length |-> Len(out) + 2, name_len |-> 1, name |-> Position("avpacket"),
                 body |-> out]
<1>3. r = [type |-> "avpacket", msg |-> pkt]
  BY <1>1, <1>2
<1>4. pkt.set["time_to_live"] > 1
  BY <1>3
<1>5. /\ out \in Seq(ToSet(out)) /\ out # <<>>
      /\ ParseFromArray("avpacket", out) /\ MessageIn("avpacket", out) = Hop(pkt)
  BY <1>1, <1>2, <1>4 DEF Rereads
<1>6. "avpacket" \in ToSet(generated_pool)
  BY PoolNames DEF ToSet
<1>7. Position("avpacket") \in DOMAIN generated_pool
      /\ generated_pool[Position("avpacket")] = "avpacket"
  BY <1>6, PositionOf
<1>8. Len(out) \in Nat
  BY <1>5, LenProperties
<1>9. encode("avpacket", Hop(pkt)) = Written(f)
  BY <1>5, <1>6, EncodeWrites
<1> HIDE DEF out
<1>10. Holds(f) /\ Meant(f) = [type |-> "avpacket", msg |-> Hop(pkt)]
  BY <1>5, <1>7 DEF Holds, Meant
<1>11. decode(Written(f)) = Meant(f)
  <2>1. f.length \in Int /\ f.name_len \in Int /\ f.name \in DOMAIN generated_pool
        /\ f.length = Len(f.body) + 2 /\ f.body \in Seq(ToSet(out))
    BY <1>5, <1>7, <1>8
  <2> HIDE DEF f
  <2> QED  BY <1>10, <2>1, DecodeWritten
<1>12. [r EXCEPT !.msg = Hop(@)] = [type |-> "avpacket", msg |-> Hop(pkt)]
  BY <1>3
<1> QED  BY <1>3, <1>9, <1>10, <1>11, <1>12

\* What was written for a message.
Sent(r) == IF r.type = "avpacket" THEN Relay(r.msg) ELSE <<>>
Relays ==
    /\ relayed \in Seq({Sent(r) : r \in Handable})
    /\ Len(relayed) = Len(handed)
    /\ \A i \in 1 .. Len(handed) : relayed[i] = Sent(handed[i])

LEMMA RelayStep == ASSUME FInv, Relays, [Next]_vars PROVE Relays'
<1>1. CASE UNCHANGED <<handed, relayed>>
  BY <1>1 DEF Relays
<1>2. CASE HandleReadBody
  <2>1. PICK result \in {Null, Throws} \union Handable :
           \/ UNCHANGED <<handed, relayed>>
           \/ /\ result \notin {Null, Throws}
              /\ handed' = Append(handed, result) /\ relayed' = Append(relayed, Sent(result))
    <3> DEFINE len == PacketLength(response[1])
               buf == response \o SubSeq(stream, place + 1, place + len)
    <3>1. rd = "body" /\ len >= 0 /\ place + len <= Len(stream)
      BY <1>2 DEF HandleReadBody
    <3>2. place \in 1 .. Len(stream) /\ response[1] = stream[place] /\ Len(stream) \in Nat
      BY <3>1, LenProperties DEF FInv, Typed
    <3>3. stream[place].num \in Int
      BY <3>2 DEF FInv, Signed
    <3>4. len \in Nat
      BY <3>1, <3>2, <3>3 DEF PacketLength
    <3>5. /\ buf \in Seq(Tokens) /\ Len(buf) = len + 1 /\ buf # <<>>
          /\ \A i \in 1 .. len + 1 : buf[i] = stream[place - 1 + i]
      <4> HIDE DEF len
      <4> QED  BY <3>1, <3>4, BodyRead
    <3>6. \A i \in 1 .. Len(buf) : buf[i].num \in Int
      <4> HIDE DEF len, buf
      <4>1. \A i \in 1 .. Len(buf) : place - 1 + i \in 1 .. Len(stream)
        BY <3>1, <3>2, <3>4, <3>5
      <4> QED  BY <3>5, <4>1 DEF FInv, Signed
    <3>7. decode(buf) \in {Null, Throws} \union Handable
      BY <3>5, <3>6, DecodeGives
    <3> QED  BY <1>2, <3>7 DEF HandleReadBody, Sent
  <2>2. CASE UNCHANGED <<handed, relayed>>
    BY <2>2 DEF Relays
  <2>3. CASE /\ result \notin {Null, Throws}
             /\ handed' = Append(handed, result) /\ relayed' = Append(relayed, Sent(result))
    <3>1. result \in Handable /\ Sent(result) \in {Sent(r) : r \in Handable}
      BY <2>3
    <3>2. handed \in Seq(Handable) /\ relayed \in Seq({Sent(r) : r \in Handable})
          /\ Len(relayed) = Len(handed)
      BY DEF FInv, Typed, Relays
    <3>3. /\ Len(handed') = Len(handed) + 1
          /\ \A i \in 1 .. Len(handed) : handed'[i] = handed[i]
          /\ handed'[Len(handed) + 1] = result
      BY <2>3, <3>1, <3>2, AppendProperties
    <3>4. /\ relayed' \in Seq({Sent(r) : r \in Handable})
          /\ Len(relayed') = Len(relayed) + 1
          /\ \A i \in 1 .. Len(relayed) : relayed'[i] = relayed[i]
          /\ relayed'[Len(relayed) + 1] = Sent(result)
      BY <2>3, <3>1, <3>2, AppendProperties
    <3>5. Len(handed) \in Nat
      BY <3>2, LenProperties
    <3>6. \A i \in 1 .. Len(handed) + 1 : relayed'[i] = Sent(handed'[i])
      <4> TAKE i \in 1 .. Len(handed) + 1
      <4>1. CASE i \in 1 .. Len(handed)
        BY <3>2, <3>3, <3>4, <4>1 DEF Relays
      <4>2. CASE i = Len(handed) + 1
        BY <3>2, <3>3, <3>4, <4>2
      <4> QED  BY <3>5, <4>1, <4>2
    <3> QED  BY <3>2, <3>3, <3>4, <3>6 DEF Relays
  <2> QED  BY <2>1, <2>2, <2>3
<1>3. ASSUME Next, ~HandleReadBody
      PROVE  UNCHANGED <<handed, relayed>>
  BY <1>3 DEF Next, Begin, AddField, SendFrame, Send, server, HandleReadHeader, PeerCloses,
              Over, vars
<1> QED  BY <1>1, <1>2, <1>3 DEF vars

\* If packets can be written and read again, what process_packet sends is for
\* any packet on any stream the packet received, one hop nearer its end.
THEOREM RelayedPacketIsThePacket ==
    ASSUME Rereads
    PROVE  Spec => []RelayedAsSent
<1>1. Init => FInv /\ Relays
  <2>1. Init => Relays
    BY EmptySeq DEF Init, Relays
  <2> QED  BY <2>1, FramingInit
<1>2. FInv /\ Relays /\ [Next]_vars => (FInv /\ Relays)'
  BY FramingStep, RelayStep
<1>3. FInv /\ Relays => RelayedAsSent
  <2> SUFFICES ASSUME FInv, Relays
               PROVE  RelayedAsSent
    OBVIOUS
  <2>1. handed \in Seq(Handable) /\ DOMAIN handed = 1 .. Len(handed)
    BY LenProperties DEF FInv, Typed
  <2>2. ASSUME NEW i \in 1 .. Len(handed)
        PROVE  IF handed[i].type = "avpacket" /\ handed[i].msg.set["time_to_live"] > 1
               THEN decode(relayed[i]) = [handed[i] EXCEPT !.msg = Hop(@)]
               ELSE relayed[i] = <<>>
    <3>1. handed[i] \in Handable
      BY <2>1, ElementOfSeq
    <3>2. relayed[i] = Sent(handed[i])
      BY DEF Relays
    <3> QED  BY <3>1, <3>2, HopIsReread DEF Sent, Relay
  <2> QED  BY <2>1, <2>2 DEF RelayedAsSent, Relays
<1> QED  BY <1>1, <1>2, <1>3, PTL DEF Spec

-----------------------------------------------------------------------------
(* What clients put into their messages, read and written                    *)

\* What a client composes are bytes of a class.
LEMMA DraftsAreBytes ==
    ASSUME FInv, Fields \subseteq WireFields, draft # NoDraft
    PROVE  draft.type \in DOMAIN Messages /\ draft.body \in Seq(WireFields)
  <1>1. draft \in [type : Types, body : Seq(Fields)]
    BY DEF FInv, Typed
  <1>2. Types \subseteq DOMAIN Messages
    BY FramingAssumption, NamesAssumption
  <1>3. draft.type \in Types /\ draft.body \in Seq(Fields)
    BY <1>1
  <1> QED
    BY <1>2, <1>3, SeqOfMore

\* If the functions of the messages inside are those of their classes, then for
\* every class and all bytes, nested to any depth: the parser takes the bytes
\* that make a message and no others, what it reads the serializer writes so
\* that it is read again, with the unknown fields, and ByteSize announces what
\* is written.
THEOREM WhatIsWrittenIsWhatWasRead ==
    ASSUME Tied, Fields \subseteq WireFields
    PROVE  Spec => []RoundTrip
  <1>1. Knot(WireFields)
    BY TiedIsKnot
  <1>2. ASSUME NEW T \in DOMAIN Messages, NEW a \in Seq(WireFields)
        PROVE  LET st == MergePartialFromCodedStream(T, Empty, a)
                   bytes == Serialize(T, st.msg)
               IN  /\ Parses(T, a) <=> Makes(T, ToSet(a))
                   /\ st.how = "reading" =>
                        /\ MergePartialFromCodedStream(T, Empty, bytes) = st
                        /\ ByteSize(T, st.msg) = BytesOf(bytes)
    <2> DEFINE st == MergePartialFromCodedStream(T, Empty, a)
               bytes == Serialize(T, st.msg)
    <2>1. Parses(T, a) <=> Makes(T, ToSet(a))
      BY <1>1, AllRecognized DEF Recognized
    <2>2. ASSUME st.how = "reading"
          PROVE  MergePartialFromCodedStream(T, Empty, bytes) = st /\ ByteSize(T, st.msg) = BytesOf(bytes)
      <3>1. st.msg \in Readables(WireFields, T) /\ st = State("reading", st.msg)
        BY <2>2, ReadableIs, ReadIsState DEF IsState
      <3>2. T \in Writes(WireFields)
        BY <1>1, AllWrite
      <3> QED
        BY <3>1, <3>2 DEF Writes
    <2> QED
      BY <2>1, <2>2
  <1>3. FInv => RoundTrip
    BY <1>2, DraftsAreBytes DEF RoundTrip
  <1>4. Init => FInv
    BY FramingInit
  <1>5. FInv /\ [Next]_vars => FInv'
    BY FramingStep
  <1> QED
    BY <1>3, <1>4, <1>5, PTL DEF Spec

\* A piece of a sequence.
LEMMA PieceOf ==
    ASSUME NEW S, NEW s \in Seq(S), NEW k \in 1 .. Len(s)
    PROVE  /\ SubSeq(s, 1, k) \in Seq(S) /\ SubSeq(s, k + 1, Len(s)) \in Seq(S)
           /\ s = SubSeq(s, 1, k) \o SubSeq(s, k + 1, Len(s))
  <1> DEFINE N == Len(s)
             a == SubSeq(s, 1, k)
             b == SubSeq(s, k + 1, N)
             c == a \o b
  <1>1. N \in Nat /\ k \in Nat /\ k <= N /\ \A i \in 1 .. N : s[i] \in S
    BY LenProperties, ElementOfSeq
  <1>2. /\ a \in Seq(S) /\ Len(a) = k
        /\ \A i \in 1 .. k : a[i] = s[i]
    <2>1. \A i \in 1 .. k : s[i] \in S
      BY <1>1
    <2>2. a \in Seq(S) /\ Len(a) = (IF 1 <= k THEN k - 1 + 1 ELSE 0)
          /\ \A i \in 1 .. k - 1 + 1 : a[i] = s[1 + i - 1]
      BY <1>1, <2>1, SubSeqProperties
    <2> QED
      BY <1>1, <2>2
  <1>3. /\ b \in Seq(S) /\ Len(b) = N - k
        /\ \A i \in 1 .. N - k : b[i] = s[k + i]
    <2>1. \A i \in k + 1 .. N : s[i] \in S
      BY <1>1
    <2>2. b \in Seq(S) /\ Len(b) = (IF k + 1 <= N THEN N - (k + 1) + 1 ELSE 0)
          /\ \A i \in 1 .. N - (k + 1) + 1 : b[i] = s[(k + 1) + i - 1]
      BY <1>1, <2>1, SubSeqProperties
    <2> HIDE DEF b, N
    <2> QED
      BY <1>1, <2>2
  <1> HIDE DEF a, b, N
  <1>4. /\ c \in Seq(S) /\ Len(c) = N
        /\ \A i \in 1 .. N : c[i] = IF i <= k THEN a[i] ELSE b[i - k]
    <2>1. c \in Seq(S) /\ Len(c) = Len(a) + Len(b)
          /\ \A i \in 1 .. Len(a) + Len(b) : c[i] = IF i <= Len(a) THEN a[i] ELSE b[i - Len(a)]
      BY <1>2, <1>3, ConcatProperties
    <2>2. Len(a) + Len(b) = N
      BY <1>1, <1>2, <1>3
    <2> QED
      BY <1>2, <2>1, <2>2
  <1>5. \A i \in 1 .. N : c[i] = s[i]
    <2> TAKE i \in 1 .. N
    <2>1. CASE i <= k
      BY <1>1, <1>2, <1>4, <2>1
    <2>2. CASE ~(i <= k)
      <3>1. i - k \in 1 .. N - k /\ k + (i - k) = i
        BY <1>1, <2>2
      <3> QED
        BY <1>3, <1>4, <2>2, <3>1
    <2> QED
      BY <2>1, <2>2
  <1> HIDE DEF c
  <1>6. c = s
    BY <1>4, <1>5, SeqEqual DEF N
  <1> QED
    BY <1>2, <1>3, <1>6 DEF a, b, c, N

\* Under the same condition MergeFrom merges, for every class and all bytes, as
\* the parser does that reads one piece after the other.
THEOREM MergedIsReadTogether ==
    ASSUME Tied, Fields \subseteq WireFields
    PROVE  Spec => []MergeIsConcatenation
  <1>1. Knot(WireFields)
    BY TiedIsKnot
  <1>2. ASSUME FInv, draft # NoDraft, NEW k \in DOMAIN draft.body
        PROVE  LET T == draft.type
                   front == MergePartialFromCodedStream(T, Empty, SubSeq(draft.body, 1, k))
                   back == MergePartialFromCodedStream(T, Empty, SubSeq(draft.body, k + 1, Len(draft.body)))
               IN  front.how = "reading" /\ back.how = "reading"
                   => MergePartialFromCodedStream(T, Empty, draft.body)
                        = State("reading", MergeFrom(T, front.msg, back.msg))
    <2> DEFINE T == draft.type
               s == draft.body
               a == SubSeq(s, 1, k)
               b == SubSeq(s, k + 1, Len(s))
    <2>1. T \in DOMAIN Messages /\ s \in Seq(WireFields)
      BY <1>2, DraftsAreBytes
    <2>2. k \in 1 .. Len(s)
      BY <1>2, <2>1, LenProperties
    <2> HIDE DEF T, s
    <2>3. a \in Seq(WireFields) /\ b \in Seq(WireFields) /\ s = a \o b
      BY <2>1, <2>2, PieceOf
    <2> HIDE DEF a, b
    <2>4. LET front == MergePartialFromCodedStream(T, Empty, a)
              back == MergePartialFromCodedStream(T, Empty, b)
          IN  front.how = "reading" /\ back.how = "reading"
              => MergePartialFromCodedStream(T, Empty, a \o b)
                   = State("reading", MergeFrom(T, front.msg, back.msg))
      BY <1>1, <2>1, <2>3, ReadApart
    <2> QED
      BY <2>3, <2>4 DEF T, s, a, b
  <1>3. FInv => MergeIsConcatenation
    BY <1>2 DEF MergeIsConcatenation
  <1>4. Init => FInv
    BY FramingInit
  <1>5. FInv /\ [Next]_vars => FInv'
    BY FramingStep
  <1> QED
    BY <1>3, <1>4, <1>5, PTL DEF Spec

\* The stream's parser and serializer are the generated ones.
Generated ==
    \A T \in DOMAIN Messages :
        /\ \A d : ParseFromArray(T, d) <=> Parses(T, d)
        /\ \A d : MessageIn(T, d) = Parsed(T, d)
        /\ \A m : SerializeToArray(T, m) = Serialize(T, m)

\* What is read has no lengths and no names in it.
LEMMA ReadTags ==
    ASSUME NEW T \in DOMAIN Messages, NEW S, \A x \in S : x.tag \in Int, NEW a \in Seq(S)
    PROVE  MergePartialFromCodedStream(T, Empty, a).how = "reading"
             => \A i \in 1 .. Len(a) : a[i].tag >= 0
  <1> DEFINE Read(s) == MergePartialFromCodedStream(T, Empty, s).how = "reading"
             A == {s \in Seq(S) : Read(s) => \A i \in 1 .. Len(s) : s[i].tag >= 0}
  <1>1. <<>> \in A
    BY EmptySeq
  <1>2. ASSUME NEW s \in Seq(S), NEW x \in S, s \in A PROVE Append(s, x) \in A
    <2> DEFINE d == Append(s, x)
               st == MergePartialFromCodedStream(T, Empty, s)
    <2>1. d \in Seq(S) /\ Len(d) = Len(s) + 1 /\ Len(s) \in Nat
          /\ d[Len(s) + 1] = x /\ \A i \in 1 .. Len(s) : d[i] = s[i]
      BY AppendProperties, LenProperties
    <2> SUFFICES ASSUME Read(d) PROVE \A i \in 1 .. Len(d) : d[i].tag >= 0
      BY <2>1
    <2> HIDE DEF d
    <2>2. ReadNext(T, st, x).how = "reading"
      BY ReadOneMore DEF d
    <2>3. st.how = "reading"
      BY <2>2 DEF ReadNext
    <2>4. \A i \in 1 .. Len(s) : s[i].tag >= 0
      BY <1>2, <2>3
    <2>5. x.tag >= 0
      <3>1. CASE Known(T, x.tag)
        <4>1. Reader(T, x.tag) \in Messages[T].reads /\ Reader(T, x.tag)[1] = x.tag
          BY <3>1, Readers
        <4>2. x.tag \in Nat
          BY <4>1, Readers
        <4> QED
          BY <4>2
      <3>2. CASE ~Known(T, x.tag)
        <4>1. HandleUnusual(st.msg, x).how = "reading"
          BY <2>2, <2>3, <3>2 DEF ReadNext
        <4>2. ~(x.tag < 0)
          BY <4>1, StateIs DEF HandleUnusual, Failed
        <4> QED
          BY <4>2
      <3> QED
        BY <3>1, <3>2
    <2> QED
      BY <2>1, <2>4, <2>5
  <1> HIDE DEF A
  <1>3. \A s \in Seq(S) : s \in A
    BY <1>1, <1>2, SeqInduction
  <1> QED
    BY <1>3 DEF A

\* So what is read are the bytes of messages.
LEMMA ReadTokens ==
    ASSUME Fields \subseteq WireFields, NEW T \in DOMAIN Messages, NEW a \in Seq(Tokens),
           MergePartialFromCodedStream(T, Empty, a).how = "reading"
    PROVE  a \in Seq(WireFields)
  <1>1. \A x \in Tokens : x.tag \in Int /\ (x.tag >= 0 => x \in WireFields)
    <2>1. \A x \in WireFields : x.tag \in Int
      BY WireFieldsHoldThemselves
    <2>2. \A n : Length(n).tag = -2 /\ Name(n).tag = -3
      BY DEF Length, Name, Field
    <2> QED
      BY <2>1, <2>2 DEF Tokens, Around
  <1>2. \A i \in 1 .. Len(a) : a[i].tag >= 0 /\ a[i] \in Tokens
    BY <1>1, ReadTags, ElementOfSeq
  <1>3. Len(a) \in Nat /\ a = [i \in 1 .. Len(a) |-> a[i]]
    BY LenProperties
  <1> QED
    BY <1>1, <1>2, <1>3, IsASeq

\* A packet has a time to live, a number that is no message.
LEMMA TimeToLive ==
    LET T == "avpacket"
        f == "time_to_live"
    IN  /\ T \in DOMAIN Messages /\ f \in Names(T) /\ Kind(T, f) = "uint32"
        /\ f \in Messages[T].keeps.required /\ f \notin Messages[T].keeps.checked
        /\ ~IsRepeated(T, f)
        /\ \A W : Values(W, Kind(T, f)) = 0 .. Word - 1
  <1> DEFINE T == "avpacket"
             f == "time_to_live"
             r == <<32, "uint32", "time_to_live">>
  <1>1. T \in DOMAIN Messages
    BY NamesAssumption, PoolNames DEF ToSet
  <1>2. r \in Messages[T].reads /\ r[2] = "uint32" /\ r[3] = f /\ f \in Messages[T].keeps.required
    BY PacketAssumption
  <1> HIDE DEF r
  <1>3. f \in Names(T) /\ Kind(T, f) = "uint32"
    BY <1>1, <1>2, Readers
  <1>4. "uint32" \notin DOMAIN Messages /\ "uint32" \notin DOMAIN IsValid
    BY Kinds DEF Basic
  <1>5. /\ Messages[T].keeps.required \intersect Messages[T].keeps.repeated = {}
        /\ Messages[T].keeps.checked = {q[3] : q \in {p \in Messages[T].reads : p[2] \in DOMAIN Messages}}
        /\ \A p, q \in Messages[T].reads : p[3] = q[3] => p = q
    BY <1>1, TablesAssumption DEF Agrees
  <1>6. f \notin Messages[T].keeps.checked
    BY <1>2, <1>4, <1>5
  <1>7. ~IsRepeated(T, f)
    BY <1>2, <1>5 DEF IsRepeated
  <1>8. \A W : Values(W, "uint32") = 0 .. Word - 1
    BY <1>4 DEF Values, Numbers
  <1> QED
    BY <1>1, <1>2, <1>3, <1>6, <1>7, <1>8

\* One hop less to live is still a packet.
LEMMA HopIsShaped ==
    ASSUME NEW W, NEW m, Shaped(W, "avpacket", m), IsInitialized("avpacket", m),
           m.set["time_to_live"] > 1
    PROVE  /\ Shaped(W, "avpacket", Hop(m)) /\ IsInitialized("avpacket", Hop(m))
           /\ "time_to_live" \in DOMAIN Hop(m).set
  <1> DEFINE T == "avpacket"
             f == "time_to_live"
             v == m.set[f]
             n == PutIn(T, m, f, v - 1)
             keeps == Messages[T].keeps
             In(p, g) == IF IsRepeated(T, g)
                         THEN \A i \in DOMAIN p.set[g] : EmbeddedIsInitialized(Kind(T, g), p.set[g][i])
                         ELSE EmbeddedIsInitialized(Kind(T, g), p.set[g])
  <1>1. \A p : IsInitialized(T, p) <=>
            keeps.required \subseteq DOMAIN p.set
            /\ \A g \in keeps.checked \intersect DOMAIN p.set : In(p, g)
    BY DEF IsInitialized
  <1>2. IsRecord(m) /\ IsInitialized(T, m) /\ Shaped(W, T, m) /\ v > 1
    BY DEF Shaped
  <1>3. f \in keeps.required /\ f \notin keeps.checked /\ ~IsRepeated(T, f)
    BY TimeToLive
  <1>4. f \in DOMAIN m.set
    BY <1>1, <1>2, <1>3
  <1>5. v \in 0 .. Word - 1
    BY <1>2, <1>3, <1>4, TimeToLive DEF Shaped
  <1>6. v - 1 \in 0 .. Word - 1
    BY <1>2, <1>5, WordAssumption
  <1>7. n = Hop(m)
    BY <1>3 DEF PutIn, Hop
  <1>8. Shaped(W, T, n)
    <2> HIDE DEF T, f, v
    <2>1. f \in Names(T) /\ v - 1 \in Values(W, Kind(T, f))
      BY <1>6, TimeToLive DEF T, f
    <2> QED
      BY <1>2, <2>1, ShapedPut
  <1>9. /\ DOMAIN n.set = DOMAIN m.set \union {f}
        /\ \A g \in DOMAIN m.set \ {f} : n.set[g] = m.set[g]
    <2> HIDE DEF T, f, v
    <2>1. IsSet(m, f, NewValue(T, m, f, v - 1), n)
      BY <1>2, PutIs
    <2> HIDE DEF n
    <2> QED
      BY <2>1 DEF IsSet
  <1> HIDE DEF n
  <1>10. IsInitialized(T, n)
    <2>1. \A g \in keeps.checked \intersect DOMAIN n.set : g \in DOMAIN m.set /\ n.set[g] = m.set[g]
      BY <1>3, <1>9
    <2>2. \A g \in keeps.checked \intersect DOMAIN n.set : In(n, g)
      BY <1>1, <1>2, <2>1
    <2> QED
      BY <1>1, <1>2, <1>9, <2>2
  <1> QED
    BY <1>4, <1>7, <1>8, <1>9, <1>10

\* A packet that was read, counted down and written is read as that packet.
LEMMA GeneratedRereads ==
    ASSUME Tied, Generated, Fields \subseteq WireFields
    PROVE  Rereads
  <1> SUFFICES ASSUME NEW bytes \in Seq(Tokens), ParseFromArray("avpacket", bytes),
                      MessageIn("avpacket", bytes).set["time_to_live"] > 1
               PROVE  LET pkt == MessageIn("avpacket", bytes)
                          out == SerializeToArray("avpacket", Hop(pkt))
                      IN  /\ out \in Seq(ToSet(out)) /\ out # <<>>
                          /\ ParseFromArray("avpacket", out)
                          /\ MessageIn("avpacket", out) = Hop(pkt)
    BY DEF Rereads
  <1> DEFINE T == "avpacket"
             st == MergePartialFromCodedStream(T, Empty, bytes)
             pkt == st.msg
             hop == Hop(pkt)
             out == Serialize(T, hop)
  <1>1. T \in DOMAIN Messages
    BY TimeToLive
  <1>2. st.how = "reading" /\ IsInitialized(T, pkt) /\ MessageIn(T, bytes) = pkt
        /\ pkt.set["time_to_live"] > 1
    BY <1>1 DEF Generated, Parses, Parsed
  <1>3. bytes \in Seq(WireFields) /\ Knot(WireFields)
    BY <1>1, <1>2, ReadTokens, TiedIsKnot
  <1>4. Shaped(WireFields, T, pkt)
    <2>1. pkt \in Readables(WireFields, T)
      BY <1>2, <1>3, ReadableIs
    <2> HIDE DEF pkt, T
    <2> QED
      BY <1>1, <1>3, <2>1, ReadableIsShaped
  <1>5. Shaped(WireFields, T, hop) /\ IsInitialized(T, hop) /\ "time_to_live" \in DOMAIN hop.set
    <2> HIDE DEF pkt
    <2> QED
      BY <1>2, <1>4, HopIsShaped
  <1>6. out \in Seq(WireFields) /\ MergePartialFromCodedStream(T, Empty, out) = State("reading", hop)
    <2>1. Embeds(T) \subseteq Writes(WireFields)
      BY <1>3, AllWrite DEF Embeds
    <2> HIDE DEF hop, T
    <2> QED
      BY <1>1, <1>3, <1>5, <2>1, ShapedWritten
  <1> HIDE DEF out, hop
  <1>7. Parses(T, out) /\ Parsed(T, out) = hop
    BY <1>5, <1>6, StateIs DEF Parses, Parsed
  <1>8. out # <<>>
    <2> SUFFICES ASSUME out = <<>> PROVE FALSE
      OBVIOUS
    <2>1. State("reading", hop) = State("reading", Empty)
      BY <1>6, ReadNothing
    <2>2. hop = Empty
      BY <2>1, StateIs
    <2>3. DOMAIN Empty.set = {}
      BY DEF Empty
    <2> QED
      BY <1>5, <2>2, <2>3
  <1>9. out \in Seq(ToSet(out))
    <2>1. Len(out) \in Nat /\ DOMAIN out = 1 .. Len(out) /\ out = [i \in 1 .. Len(out) |-> out[i]]
      BY <1>6, LenProperties
    <2>2. \A i \in 1 .. Len(out) : out[i] \in ToSet(out)
      BY <2>1 DEF ToSet
    <2> QED
      BY <2>1, <2>2, IsASeq
  <1>10. SerializeToArray(T, Hop(MessageIn(T, bytes))) = out
    BY <1>1, <1>2 DEF Generated, out, hop
  <1>11. ParseFromArray(T, out) /\ MessageIn(T, out) = hop
    BY <1>1, <1>7 DEF Generated
  <1> QED
    BY <1>2, <1>8, <1>9, <1>10, <1>11 DEF hop

\* With the generated parser and serializer nothing is left to be asked: on any
\* stream of clients' bytes, what goes out is the packet that came in, with the
\* fields this router does not know, one hop nearer its end.
THEOREM GeneratedRelay ==
    ASSUME Tied, Generated, Fields \subseteq WireFields
    PROVE  Spec => []RelayedAsSent
  BY GeneratedRereads, RelayedPacketIsThePacket

=============================================================================

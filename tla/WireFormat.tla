----------------------------- MODULE WireFormat -----------------------------
(***************************************************************************)
(* What the generated message classes do, for any of the tables of         *)
(* Messages: the functions of avpacket, which has a field of every shape   *)
(* but the repeated ones, stand for those of all classes.                  *)
(***************************************************************************)
EXTENDS Messages, Integers, SequencesExt, Functions

CONSTANTS
    Word,     \* values of a uint32, in place of 2^32
    \* What a class calls for a message inside its messages: the functions below
    \* (EmbeddedRead is MergePartialFromCodedStream, and so on) of the class of
    \* that message.
    EmbeddedRead(_, _, _), EmbeddedIsInitialized(_, _), EmbeddedSerialize(_, _),
    EmbeddedByteSize(_, _), EmbeddedMergeFrom(_, _, _),
    EmbeddedBytes(_)      \* BytesOf, of what a length-delimited field holds

ASSUME WordAssumption == Word \in Nat /\ Word > 6

WireType(tag) == tag % 8
VARINT == 0
LENGTH_DELIMITED == 2
END_GROUP == 4
FIXED32 == 5

\* The wire type a writer puts in the tag, by kind of field.
TypeWritten(kind) ==
    CASE kind \in {"string", "bytes", "message"} -> LENGTH_DELIMITED
      [] kind = "float" -> FIXED32
      [] kind \in {"uint32", "uint64", "bool", "enum"} -> VARINT

-----------------------------------------------------------------------------
(* The enumerations' IsValid functions                                       *)

EncryptionType_IsValid == 0 .. 5
login_result_code_IsValid == 0 .. 3
username_availability_result_code_IsValid == 0 .. 2
user_register_result_code_IsValid == 0 .. 6

IsValid ==
    [EncryptionType |-> EncryptionType_IsValid,
     login_result_code |-> login_result_code_IsValid,
     username_availability_result_code |-> username_availability_result_code_IsValid,
     user_register_result_code |-> user_register_result_code_IsValid]

-----------------------------------------------------------------------------
(* Reading                                                                   *)

\* add_x
Add(m, f, v) ==
    Set(m, f, IF f \in DOMAIN m.set THEN Append(m.set[f], v) ELSE <<v>>)

KeepUnknown(m, wf) == [m EXCEPT !.unknown = Append(@, wf)]

\* How MergePartialFromCodedStream goes on: "reading"; "stopped", it returned
\* true before the input's end; "failed".
State(how, m) == [how |-> how, msg |-> m]
Failed == State("failed", Empty)

\* handle_unusual: SkipField copies the field to the unknown ones. What has a
\* negative tag is no field: Cut, and Framing's lengths and names.
HandleUnusual(m, wf) ==
    IF wf.tag = 0 \/ WireType(wf.tag) = END_GROUP THEN State("stopped", m)
    ELSE IF wf.tag < 0 \/ WireType(wf.tag) \in {6, 7} THEN Failed
    ELSE State("reading", KeepUnknown(m, wf))

\* The kind of a field: of value, or the class of the embedded message.
Kind(T, f) == LET r == CHOOSE r \in Messages[T].reads : r[3] = f IN r[2]

Known(T, tag) == \E r \in Messages[T].reads : r[1] = tag
Reader(T, tag) == CHOOSE r \in Messages[T].reads : r[1] = tag
IsRepeated(T, f) == f \in Messages[T].keeps.repeated

\* ReadPrimitive: a uint32 and an enum keep the low word, a bool whether it is
\* zero.
Primitive(kind, num) ==
    CASE kind = "uint32" -> num % Word
      [] kind = "bool" -> IF num = 0 THEN 0 ELSE 1
      [] kind \in {"uint64", "float"} -> num

\* One case of the switch. An embedded message is read on top of the one
\* there, and has to end where its bytes end.
ReadField(T, m, wf) ==
    LET kind == Reader(T, wf.tag)[2]
        f == Reader(T, wf.tag)[3]
        there == IF f \in DOMAIN m.set /\ ~IsRepeated(T, f) THEN m.set[f] ELSE Empty
        sub == EmbeddedRead(kind, there, wf.data)
        Put(v) == State("reading", IF IsRepeated(T, f) THEN Add(m, f, v) ELSE Set(m, f, v))
    IN  CASE kind \in DOMAIN Messages -> IF sub.how = "reading" THEN Put(sub.msg) ELSE Failed
          [] kind \in {"string", "bytes"} -> Put(wf.data)
          [] kind \in DOMAIN IsValid ->
               IF wf.num % Word \in IsValid[kind]
               THEN Put(wf.num % Word)
               ELSE State("reading", KeepUnknown(m, [wf EXCEPT !.num = @ % Word]))
          [] OTHER -> Put(Primitive(kind, wf.num))

\* One turn of the loop.
ReadNext(T, st, wf) ==
    IF st.how # "reading" THEN st
    ELSE IF Known(T, wf.tag) THEN ReadField(T, st.msg, wf)
    ELSE HandleUnusual(st.msg, wf)

MergePartialFromCodedStream(T, m, input) ==
    LET after[i \in 0 .. Len(input)] ==
            IF i = 0 THEN State("reading", m) ELSE ReadNext(T, after[i - 1], input[i])
    IN  after[Len(input)]

\* Every required field is there, in the embedded messages too.
IsInitialized(T, m) ==
    LET keeps == Messages[T].keeps
    IN  /\ keeps.required \subseteq DOMAIN m.set
        /\ \A f \in keeps.checked \intersect DOMAIN m.set :
             IF IsRepeated(T, f)
             THEN \A i \in DOMAIN m.set[f] : EmbeddedIsInitialized(Kind(T, f), m.set[f][i])
             ELSE EmbeddedIsInitialized(Kind(T, f), m.set[f])

\* ParseFromArray: all of the input, and an initialised message.
Parses(T, input) ==
    LET st == MergePartialFromCodedStream(T, Empty, input)
    IN  st.how = "reading" /\ IsInitialized(T, st.msg)
Parsed(T, input) == MergePartialFromCodedStream(T, Empty, input).msg

-----------------------------------------------------------------------------
(* Writing                                                                   *)

TagOf(w) == w[1] * 8 + TypeWritten(w[2])

WriteValue(T, w, v) ==
    CASE w[2] = "message" -> Field(TagOf(w), 0, EmbeddedSerialize(Kind(T, w[3]), v))
      [] w[2] \in {"string", "bytes"} -> Field(TagOf(w), 0, v)
      [] OTHER -> Field(TagOf(w), v, <<>>)

WriteField(T, m, w) ==
    CASE w[3] \notin DOMAIN m.set -> <<>>
      [] w[3] \in DOMAIN m.set /\ IsRepeated(T, w[3]) ->
           [i \in DOMAIN m.set[w[3]] |-> WriteValue(T, w, m.set[w[3]][i])]
      [] OTHER -> <<WriteValue(T, w, m.set[w[3]])>>

WriteFields(T, m) ==
    LET fields == Messages[T].writes
    IN  FlattenSeq([i \in DOMAIN fields |-> WriteField(T, m, fields[i])])

\* SerializeWithCachedSizesToArray: the fields that are set, in the class's
\* order, then the unknown ones.
Serialize(T, m) == WriteFields(T, m) \o m.unknown

TagBytes(tag) == IF tag < 128 THEN 1 ELSE 2

\* Bytes of an input; every length and every varint is taken as one byte.
FieldBytes(wf) ==
    TagBytes(wf.tag) + 1
    + (IF WireType(wf.tag) = LENGTH_DELIMITED THEN EmbeddedBytes(wf.data) ELSE 0)
BytesOf(input) == SumFunction([i \in DOMAIN input |-> FieldBytes(input[i])])

\* ByteSize, which says how long SerializeToArray's array will be.
ValueSize(T, f, v) ==
    (IF f \in Messages[T].keeps.short THEN 1 ELSE 2) + 1
    + CASE Kind(T, f) \in DOMAIN Messages -> EmbeddedByteSize(Kind(T, f), v)
        [] Kind(T, f) \in {"string", "bytes"} -> EmbeddedBytes(v)
        [] OTHER -> 0

FieldSize(T, m, f) ==
    IF IsRepeated(T, f)
    THEN SumFunction([i \in DOMAIN m.set[f] |-> ValueSize(T, f, m.set[f][i])])
    ELSE ValueSize(T, f, m.set[f])

ByteSize(T, m) ==
    LET keeps == Messages[T].keeps
        counted == DOMAIN m.set \intersect (keeps.short \union keeps.long)
    IN  SumFunction([f \in counted |-> FieldSize(T, m, f)]) + BytesOf(m.unknown)

-----------------------------------------------------------------------------
(* Merging                                                                   *)

\* Mutant: what is there is overwritten, also where it should be added to.
MergeOver(T, m, from) ==
    [set |-> from.set @@ m.set, unknown |-> m.unknown \o from.unknown]

\* MergeFrom: repeated fields are appended, embedded messages merged, the
\* others overwritten.
MergeValue(T, f, old, new) ==
    CASE IsRepeated(T, f) -> old \o new
      [] Kind(T, f) \in DOMAIN Messages /\ ~IsRepeated(T, f) ->
           EmbeddedMergeFrom(Kind(T, f), old, new)
      [] OTHER -> new

MergeFrom(T, m, from) ==
    LET keeps == Messages[T].keeps
        merged == DOMAIN from.set \intersect (keeps.short \union keeps.long)
        Value(f) ==
            IF f \notin merged THEN m.set[f]
            ELSE IF f \notin DOMAIN m.set THEN from.set[f]
            ELSE MergeValue(T, f, m.set[f], from.set[f])
    IN  [set |-> [f \in DOMAIN m.set \union merged |-> Value(f)],
         unknown |-> m.unknown \o from.unknown]

-----------------------------------------------------------------------------
(* What the functions of one class have to agree on                          *)

Basic == {"string", "bytes", "uint32", "uint64", "bool", "float"}

\* The writer for a field of that kind.
WrittenAs(kind) ==
    IF kind \in DOMAIN Messages THEN "message"
    ELSE IF kind \in DOMAIN IsValid THEN "enum"
    ELSE kind

\* The classes of a T's embedded messages.
Embeds(T) == {r[2] : r \in Messages[T].reads} \intersect DOMAIN Messages

\* A class's tables: every field has one tag, one reader and one writer, and
\* they are the same field's; every field is counted, with the length its tag
\* has, and merged; and of every embedded message the IsInitialized is asked.
Agrees(T) ==
    LET reads == Messages[T].reads
        writes == Messages[T].writes
        keeps == Messages[T].keeps
    IN  /\ writes \in Seq((Nat \ {0}) \X (Basic \union {"message", "enum"}) \X STRING)
        /\ reads \subseteq Nat \X (Basic \union DOMAIN IsValid \union DOMAIN Messages) \X STRING
        /\ \A r, q \in reads : r[1] = q[1] \/ r[3] = q[3] => r = q
        /\ \A i, j \in DOMAIN writes : writes[i][3] = writes[j][3] => i = j
        /\ {<<TagOf(w), w[2], w[3]>> : w \in ToSet(writes)}
             = {<<r[1], WrittenAs(r[2]), r[3]>> : r \in reads}
        /\ keeps.short = {r[3] : r \in {q \in reads : q[1] < 128}}
        /\ keeps.long = {r[3] : r \in {q \in reads : q[1] >= 128}}
        /\ keeps.required \union keeps.repeated \subseteq keeps.short \union keeps.long
        /\ keeps.required \intersect keeps.repeated = {}
        /\ keeps.checked = {r[3] : r \in {q \in reads : q[2] \in DOMAIN Messages}}

\* The classes that embed none but those of S.
Built(S) == {T \in DOMAIN Messages : Embeds(T) \subseteq S}

ASSUME TablesAssumption ==
    /\ \A T \in DOMAIN Messages : Agrees(T)
    /\ DOMAIN Messages \intersect (Basic \union DOMAIN IsValid) = {}
    /\ Built(Built(Built({}))) = DOMAIN Messages
=============================================================================

--------------------------- MODULE ClientMessages ---------------------------
(***************************************************************************)
(* What clients put into the messages they send, and what is to hold of    *)
(* the generated functions for all of it.                                  *)
(***************************************************************************)
EXTENDS WireFormat, Framing

CONSTANTS
    Nums,       \* the numbers clients put in varints and fixed-width fields
    EmbeddedMakes(_, _)     \* Makes, of the class of an embedded message

ASSUME NamesAssumption == ToSet(generated_pool) \subseteq DOMAIN Messages

\* What Hop counts down is a number every packet has.
ASSUME PacketAssumption ==
    /\ <<32, "uint32", "time_to_live">> \in Messages["avpacket"].reads
    /\ "time_to_live" \in Messages["avpacket"].keeps.required

\* A wire field for the field w of T, with a first choice of value.
Plainly(T, w) ==
    CASE w[2] = "message" -> Field(TagOf(w), 0, Needed(Kind(T, w[3])))
      [] w[2] \in {"string", "bytes"} -> Field(TagOf(w), 0, <<>>)
      [] OTHER -> Field(TagOf(w), 1, <<>>)

\* The fields a T must have: Needed, and for the embedded messages Needed again.
Minimal(T) ==
    LET ws == SelectSeq(Messages[T].writes, LAMBDA w : w[3] \in Messages[T].keeps.required)
    IN  [i \in DOMAIN ws |-> Plainly(T, ws[i])]

\* The fields a client adds: every field of the class with several values, a
\* number nobody knows, a number everybody knows with another wire type, and
\* what no serializer writes.
Unusual ==
    {Field(800, 1, <<>>), Field(13, 2, <<>>), Field(0, 0, <<>>), Field(12, 0, <<>>),
     Field(14, 0, <<>>), Field(11, 0, <<>>), Cut}
Ways(T, w) ==
    LET less(s) == {SubSeq(s, 1, Len(s) - 1), s}
    IN  CASE w[2] = "message" ->
               {Field(TagOf(w), 0, d) : d \in less(Needed(Kind(T, w[3]))) \union {<<Cut>>}}
          [] w[2] \in {"string", "bytes"} ->
               {Field(TagOf(w), 0, d) : d \in {<<>>, <<Field(8, 1, <<>>)>>}}
          [] OTHER -> {Field(TagOf(w), n, <<>>) : n \in Nums}
Addable(T) == Unusual \union UNION {Ways(T, Messages[T].writes[i]) : i \in DOMAIN Messages[T].writes}

-----------------------------------------------------------------------------
\* What makes bytes a T, by its serializer's fields and whatever their order:
\* only whole fields, every required one there with a value it can have, and
\* the pieces of an embedded message together again bytes that make one.
Whole(wf) == wf.tag > 0 /\ WireType(wf.tag) \notin {END_GROUP, 6, 7}

Makes(T, fields) ==
    LET Of(w) == {wf \in fields : wf.tag = TagOf(w)}
        Valid(w, wf) == w[2] = "enum" => wf.num % Word \in IsValid[Kind(T, w[3])]
        Pieces(w) == {ToSet(wf.data) : wf \in Of(w)}
    IN  /\ \A wf \in fields : Whole(wf)
        /\ \A w \in ToSet(Messages[T].writes) :
            /\ w[3] \in Messages[T].keeps.required => \E wf \in Of(w) : Valid(w, wf)
            /\ w[2] = "message" /\ Of(w) # {} =>
                \A d \in IF IsRepeated(T, w[3]) THEN Pieces(w) ELSE {UNION Pieces(w)} :
                    EmbeddedMakes(Kind(T, w[3]), d)

\* A class's parser takes the bytes that make one of it and no others, and
\* what is read of any bytes is what is written of it: the parser takes the
\* tags its class's serializer writes, the unknown fields survive, and ByteSize
\* announces exactly the bytes written (the library ends the program if not).
RoundTrip ==
    LET T == draft.type
        st == MergePartialFromCodedStream(T, Empty, draft.body)
        bytes == Serialize(T, st.msg)
    IN  draft # NoDraft =>
        /\ Parses(T, draft.body) <=> Makes(T, ToSet(draft.body))
        /\ st.how = "reading" =>
            /\ MergePartialFromCodedStream(T, Empty, bytes) = st
            /\ ByteSize(T, st.msg) = BytesOf(bytes)

\* To read two pieces one after the other is to read them apart and merge the
\* messages: MergeFrom knows the same fields as the parser, replaces, appends
\* and merges the same ones, down into the embedded messages.
MergeIsConcatenation ==
    draft # NoDraft =>
        \A k \in DOMAIN draft.body :
            LET T == draft.type
                front == MergePartialFromCodedStream(T, Empty, SubSeq(draft.body, 1, k))
                back == MergePartialFromCodedStream(T, Empty, SubSeq(draft.body, k + 1, Len(draft.body)))
            IN  front.how = "reading" /\ back.how = "reading"
                => MergePartialFromCodedStream(T, Empty, draft.body)
                    = State("reading", MergeFrom(T, front.msg, back.msg))
=============================================================================

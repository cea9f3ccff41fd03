------------------------------ MODULE Framing ------------------------------
(***************************************************************************)
(* A client's bytes on their way through the router: the length header and *)
(* the body as connection reads them, decode() of serialization.hpp, and a *)
(* packet's way out again through process_packet and encode().  Connection *)
(* and Router model the same reader with its data left out; here the data  *)
(* is there, and one connection is enough.                                 *)
(*                                                                         *)
(* The stream is a sequence of tokens: a token is a wire field of a        *)
(* message, a message's name, or four bytes that hold a length.  Lengths   *)
(* count tokens, so header_len is 1, and the length fields of one to three *)
(* bytes' body are not told apart from those of none.                      *)
(*                                                                         *)
(* The generated parsers and serializers, and what clients put into their  *)
(* messages, are parameters: ClientMessages has the values.                *)
(***************************************************************************)
EXTENDS Messages, Integers, SequencesExt

CONSTANTS
    ParseFromArray(_, _),   \* whether these bytes are a message of that class
    MessageIn(_, _),        \* and the message they are
    SerializeToArray(_, _), \* the bytes of a message of that class
    Types,      \* the messages clients compose
    Needed(_),  \* the fields a client has to put into a message
    Liberties(_),   \* the fields it may add
    Chained,    \* the messages that may follow, and be followed by, another one
    MaxFrames,  \* bound: frames a client sends
    MaxOdd,     \* bound: liberties it takes with them, see odd
    Limit       \* tokens, in place of 64 * 1024 bytes

VARIABLES
    draft,      \* the frame the client is composing: [type, body], or NoDraft
    odd,        \* fields added or left out and lengths falsified so far
    frames,     \* history: the frames sent
    stream,     \* the tokens sent
    place,      \* how many of them were read
    rd,         \* "header", "body", "closed", or "crashed": an exception left run()
    response,   \* m_response: the header, while the body is read
    handed,     \* the messages given to do_message
    relayed     \* history: what process_packet wrote for each of them

vars == <<draft, odd, frames, stream, place, rd, response, handed, relayed>>

-----------------------------------------------------------------------------
(* serialization.hpp                                                         *)

Length(n) == Field(-2, n, <<>>)
Name(k) == Field(-3, k, <<>>)

\* The messages linked into the program, by name; a name is a position here.
generated_pool == address_types \o ca_types \o im_types \o message_types \o user_types

Position(T) == CHOOSE k \in DOMAIN generated_pool : generated_pool[k] = T

\* create_message: the message of that name, if there is one.
Named(name) == Len(name) = 1 /\ name[1].tag = -3 /\ name[1].num \in DOMAIN generated_pool

\* The length of the name, the name, the fields; the length of it all in front.
encode(T, m) ==
    LET packet == <<Length(1), Name(Position(T))>> \o SerializeToArray(T, m)
    IN  <<Length(Len(packet))>> \o packet

Null == [type |-> "nullptr", msg |-> Empty]
Throws == [type |-> "length_error", msg |-> Empty]

\* Behind a header alone there is no name's length to read; what is read there
\* begins with the string's terminator, so it is not negative, and too big.
\* std::string's constructor throws when the name ends before it begins.
decode(buf) ==
    LET len == Len(buf)
        name_len == IF len > 1 THEN buf[2].num ELSE 0
        name == SubSeq(buf, 3, 2 + name_len)
        fields == SubSeq(buf, 3 + name_len, len)
    IN  IF len # buf[1].num + 1 \/ name_len >= len - 2 THEN Null
        ELSE IF name_len < 0 THEN Throws
        ELSE IF ~Named(name) THEN Null
        ELSE LET T == generated_pool[name[1].num]
             IN  IF ParseFromArray(T, fields)
                 THEN [type |-> T, msg |-> MessageIn(T, fields)]
                 ELSE Null

-----------------------------------------------------------------------------
(* The client                                                                *)

\* The wire fields there are in the bodies clients send.
Fields == UNION {Liberties(T) \union ToSet(Needed(T)) : T \in Types}

ASSUME FramingAssumption ==
    /\ Limit \in Nat
    /\ Types \subseteq ToSet(generated_pool)
    /\ \A T \in Types : Needed(T) \in Seq(Fields)
    /\ \A wf \in Fields : wf.num \in Nat

NoDraft == [type |-> "none", body |-> <<>>]

Init ==
    /\ draft = NoDraft /\ odd = 0 /\ frames = <<>>
    /\ stream = <<>> /\ place = 0 /\ rd = "header" /\ response = <<>>
    /\ handed = <<>> /\ relayed = <<>>

server == <<stream, place, rd, response, handed, relayed>>

\* A message with all its required fields, or all but one.
Begin(T) ==
    /\ draft = NoDraft /\ Len(frames) < MaxFrames
    /\ frames # <<>> => T \in Chained /\ generated_pool[frames[1].name] \in Chained
    /\ \/ draft' = [type |-> T, body |-> Needed(T)] /\ UNCHANGED odd
       \/ /\ odd < MaxOdd /\ odd' = odd + 1
          /\ \E i \in DOMAIN Needed(T) :
               draft' = [type |-> T, body |-> RemoveAt(Needed(T), i)]
    /\ UNCHANGED <<frames, server>>

AddField ==
    /\ draft # NoDraft /\ odd < MaxOdd
    /\ draft.body # <<>> => Last(draft.body) # Cut
    /\ \E wf \in Liberties(draft.type) : draft' = [draft EXCEPT !.body = Append(@, wf)]
    /\ odd' = odd + 1
    /\ UNCHANGED <<frames, server>>

\* A frame in the history says where in the stream it begins.
Send(length, name_len, name) ==
    /\ frames' = Append(frames, [at |-> Len(stream), length |-> length, name_len |-> name_len,
                                 name |-> name, body |-> draft.body])
    /\ stream' = stream \o <<Length(length), Length(name_len), Name(name)>> \o draft.body
    /\ draft' = NoDraft
    /\ UNCHANGED <<place, rd, response, handed, relayed>>

SendFrame ==
    LET length == Len(draft.body) + 2
        name == Position(draft.type)
    IN  /\ draft # NoDraft
        /\ \/ Send(length, 1, name) /\ UNCHANGED odd
           \/ /\ odd < MaxOdd /\ odd' = odd + 1
              /\ \/ \E n \in {-1, 0, length - 1, length + 1, Limit + 1} : Send(n, 1, name)
                 \/ \E n \in {-1, 0, 2} : Send(length, n, name)

-----------------------------------------------------------------------------
(* The connection                                                            *)

\* Mutant: the length is taken to count its own header.
LengthWithHeader(header) == header.num - 1

\* packet_length, of the header in m_response.
PacketLength(header) == header.num

\* handle_read_header: a packet that is too long ends the connection. The
\* length is signed: a negative one passes.
HandleReadHeader ==
    LET header == stream[place + 1]
    IN  /\ rd = "header" /\ place < Len(stream)
        /\ response' = <<header>>
        /\ place' = place + 1
        /\ rd' = IF PacketLength(header) > Limit THEN "closed" ELSE "body"
        /\ UNCHANGED <<draft, odd, frames, stream, handed, relayed>>

\* Mutant: the packet goes out with the time to live it came with.
RelaySame(pkt) ==
    IF pkt.set["time_to_live"] > 1 THEN encode("avpacket", pkt) ELSE <<>>

\* What process_packet writes, for a destination that has a route: the packet
\* with one hop less to live, or nothing.
Hop(pkt) == Set(pkt, "time_to_live", pkt.set["time_to_live"] - 1)
Relay(pkt) ==
    IF pkt.set["time_to_live"] > 1 THEN encode("avpacket", Hop(pkt)) ELSE <<>>

\* transfer_exactly(packet_length) has that many; a negative length, as a
\* size_t, is never reached. handle_read_body decodes, closes the connection
\* if there is no message, else hands it over and reads on.
HandleReadBody ==
    LET packet_length == PacketLength(response[1])
        result == decode(response \o SubSeq(stream, place + 1, place + packet_length))
    IN  /\ rd = "body" /\ packet_length >= 0 /\ place + packet_length <= Len(stream)
        /\ place' = place + packet_length
        /\ response' = <<>>
        /\ \/ result = Null /\ rd' = "closed" /\ UNCHANGED <<handed, relayed>>
           \/ result = Throws /\ rd' = "crashed" /\ UNCHANGED <<handed, relayed>>
           \/ /\ result \notin {Null, Throws} /\ rd' = "header"
              /\ handed' = Append(handed, result)
              /\ relayed' = Append(relayed, IF result.type = "avpacket"
                                           THEN Relay(result.msg)
                                           ELSE <<>>)
        /\ UNCHANGED <<draft, odd, frames, stream>>

\* The client leaves; a read in progress ends with an error, and close().
PeerCloses ==
    /\ draft = NoDraft /\ frames # <<>>
    /\ \/ rd = "header" /\ place = Len(stream)
       \/ rd = "body" /\ PacketLength(response[1]) \notin 0 .. Len(stream) - place
    /\ rd' = "closed" /\ response' = <<>>
    /\ UNCHANGED <<draft, odd, frames, stream, place, handed, relayed>>

Over == rd \in {"closed", "crashed"} /\ UNCHANGED vars

Next ==
    \/ rd \in {"header", "body"} /\ ((\E T \in Types : Begin(T)) \/ AddField \/ SendFrame)
    \/ HandleReadHeader \/ HandleReadBody \/ PeerCloses \/ Over

Spec == Init /\ [][Next]_vars

-----------------------------------------------------------------------------
\* A frame that says the truth about its length, and one that holds a message.
\* One without any bytes is refused although a csr_pendding never has any.
Honest(f) == f.length = Len(f.body) + 2 /\ f.length <= Limit
Holds(f) == f.name_len = 1 /\ f.body # <<>> /\ ParseFromArray(generated_pool[f.name], f.body)
Meant(f) == [type |-> generated_pool[f.name], msg |-> MessageIn(generated_pool[f.name], f.body)]

\* The server is handed the messages the client sent, each of them up to the
\* first bad frame and nothing after it: the reader (handle_read_header,
\* handle_read_body) never loses its place in the stream. Only a negative
\* length can hang it or end the program.
HandedIsSent ==
    /\ (\A i \in DOMAIN frames : Honest(frames[i])) =>
        /\ \A i \in DOMAIN handed :
            i \in DOMAIN frames /\ Holds(frames[i]) /\ handed[i] = Meant(frames[i])
        /\ rd = "closed" \/ (rd = "header" /\ place = Len(stream)) =>
            \/ Len(handed) = Len(frames)
            \/ ~Holds(frames[Len(handed) + 1])
    /\ rd = "crashed" \/ (rd = "body" /\ PacketLength(response[1]) < 0)
        => \E i \in DOMAIN frames : frames[i].length < 0 \/ frames[i].name_len < 0

\* The receiver of a packet reads the packet the sender's bytes meant, with
\* the fields this router does not know, and one hop less to live; nothing
\* else is written by process_packet.
RelayedAsSent ==
    LET Relayable(r) == r.type = "avpacket" /\ r.msg.set["time_to_live"] > 1
        Onward(r) == [r EXCEPT !.msg = Hop(@)]
    IN  /\ Len(relayed) = Len(handed)
        /\ \A i \in DOMAIN handed :
            IF Relayable(handed[i])
            THEN decode(relayed[i]) = Onward(handed[i])
            ELSE relayed[i] = <<>>
=============================================================================

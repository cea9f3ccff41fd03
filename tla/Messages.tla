------------------------------ MODULE Messages ------------------------------
(***************************************************************************)
(* The protocol messages, as the code protoc generated for them knows      *)
(* them (src/proto/*.pb.cc).  Every message class repeats its fields in    *)
(* three places written independently of each other, and a table stands    *)
(* for each:                                                               *)
(*   x_reads   MergePartialFromCodedStream: the tags its switch accepts,   *)
(*             with the reader called and the field set;                   *)
(*   x_writes  the two Serialize functions: field numbers and writers, in  *)
(*             the order written;                                          *)
(*   x_keeps   ByteSize, MergeFrom and IsInitialized: the fields counted   *)
(*             and merged, by the length of their tag, those merged by     *)
(*             appending, those required, and those whose own              *)
(*             IsInitialized is asked.                                     *)
(* WireFormat says what the functions do with them.                        *)
(*                                                                         *)
(* Bytes are a sequence of wire fields [tag, num, data]: num is the value  *)
(* of a varint or a fixed-width field, data the bytes of a                 *)
(* length-delimited one, again a sequence of wire fields.  Cut stands for  *)
(* input that ends inside a field.  A message is [set, unknown]: the       *)
(* values of the fields whose has-bit is set (of the repeated ones that    *)
(* are not empty), and the unknown fields in the order they came.          *)
(***************************************************************************)
EXTENDS TLC, Integers

Field(tag, num, data) == [tag |-> tag, num |-> num, data |-> data]
Cut == Field(-1, 0, <<>>)

Empty == [set |-> <<>>, unknown |-> <<>>]

\* set_x, mutable_x: the value and its has-bit.
Set(m, f, v) ==
    [m EXCEPT !.set = [g \in DOMAIN @ \union {f} |-> IF g = f THEN v ELSE @[g]]]

\* A message whose fields all have one-byte tags and hold one plain value.
Plain(fields, required) ==
    [short |-> fields, long |-> {}, repeated |-> {}, required |-> required, checked |-> {}]

-----------------------------------------------------------------------------
(* address.proto                                                        *)

\* The messages the file enters in the generated pool.
address_types == <<"av_address">>

av_address_reads == {<<10, "string", "username">>, <<18, "string", "domain">>,
    <<26, "string", "resource">>}
av_address_writes == <<<<1, "string", "username">>, <<2, "string", "domain">>,
    <<3, "string", "resource">>>>
av_address_keeps == Plain({"username", "domain", "resource"}, {"username", "domain"})

-----------------------------------------------------------------------------
(* ca.proto                                                             *)

\* The messages the file enters in the generated pool.
ca_types == <<"csr_push", "cert_push", "push_ok", "cert_pull", "csr_pull", "csr_pendding",
    "csr_pendding_list">>

csr_push_reads == {<<10, "bytes", "fingerprint">>, <<18, "bytes", "csr">>}
csr_push_writes == <<<<1, "bytes", "fingerprint">>, <<2, "bytes", "csr">>>>
csr_push_keeps == Plain({"fingerprint", "csr"}, {"fingerprint", "csr"})

cert_push_reads == {<<10, "bytes", "fingerprint">>, <<18, "bytes", "cert">>}
cert_push_writes == <<<<1, "bytes", "fingerprint">>, <<2, "bytes", "cert">>>>
cert_push_keeps == Plain({"fingerprint", "cert"}, {"fingerprint", "cert"})

push_ok_reads == {<<10, "bytes", "fingerprints">>}
push_ok_writes == <<<<1, "bytes", "fingerprints">>>>
push_ok_keeps == [short |-> {"fingerprints"}, long |-> {}, repeated |-> {"fingerprints"},
    required |-> {}, checked |-> {}]

cert_pull_reads == {<<10, "bytes", "fingerprint">>}
cert_pull_writes == <<<<1, "bytes", "fingerprint">>>>
cert_pull_keeps == Plain({"fingerprint"}, {"fingerprint"})

csr_pull_reads == {<<10, "bytes", "fingerprint">>}
csr_pull_writes == <<<<1, "bytes", "fingerprint">>>>
csr_pull_keeps == Plain({"fingerprint"}, {"fingerprint"})

csr_pendding_reads == {}
csr_pendding_writes == <<>>
csr_pendding_keeps == Plain({}, {})

csr_pendding_list_reads == {<<8, "uint32", "num">>, <<18, "bytes", "fingerprint">>}
csr_pendding_list_writes == <<<<1, "uint32", "num">>, <<2, "bytes", "fingerprint">>>>
csr_pendding_list_keeps == [short |-> {"num", "fingerprint"}, long |-> {},
    repeated |-> {"fingerprint"}, required |-> {"num"}, checked |-> {}]

-----------------------------------------------------------------------------
(* im.proto                                                             *)

\* The messages the file enters in the generated pool.
im_types == <<"text_message", "img_message", "emoji_message",
    "symmetry_encryption_key_distribution", "avim_message", "avim_message_packet">>

text_message_reads == {<<10, "string", "text">>, <<18, "string", "fontname">>,
    <<29, "float", "fontsie">>, <<34, "string", "hlink">>}
text_message_writes == <<<<1, "string", "text">>, <<2, "string", "fontname">>,
    <<3, "float", "fontsie">>, <<4, "string", "hlink">>>>
text_message_keeps == Plain({"text", "fontname", "fontsie", "hlink"}, {"text"})

img_message_reads == {<<10, "bytes", "image">>, <<18, "bytes", "image_digest">>,
    <<34, "string", "hlink">>}
img_message_writes == <<<<1, "bytes", "image">>, <<2, "bytes", "image_digest">>,
    <<4, "string", "hlink">>>>
img_message_keeps == Plain({"image", "image_digest", "hlink"}, {"image"})

emoji_message_reads == {<<10, "string", "emoji">>, <<18, "string", "theme">>,
    <<26, "bytes", "custom_image">>}
emoji_message_writes == <<<<1, "string", "emoji">>, <<2, "string", "theme">>,
    <<3, "bytes", "custom_image">>>>
emoji_message_keeps == Plain({"emoji", "theme", "custom_image"}, {"emoji"})

symmetry_encryption_key_distribution_reads == {<<8, "EncryptionType", "keytype">>,
    <<18, "bytes", "key">>}
symmetry_encryption_key_distribution_writes == <<<<1, "enum", "keytype">>,
    <<2, "bytes", "key">>>>
symmetry_encryption_key_distribution_keeps == Plain({"keytype", "key"}, {"keytype", "key"})

avim_message_reads == {<<10, "text_message", "item_text">>,
    <<18, "img_message", "item_image">>, <<26, "emoji_message", "item_emoji">>,
    <<162, "symmetry_encryption_key_distribution", "item_key">>}
avim_message_writes == <<<<1, "message", "item_text">>, <<2, "message", "item_image">>,
    <<3, "message", "item_emoji">>, <<20, "message", "item_key">>>>
avim_message_keeps == [short |-> {"item_text", "item_image", "item_emoji"},
    long |-> {"item_key"}, repeated |-> {}, required |-> {},
    checked |-> {"item_text", "item_image", "item_emoji", "item_key"}]

avim_message_packet_reads == {<<10, "avim_message", "avim">>, <<16, "uint64", "serial">>}
avim_message_packet_writes == <<<<1, "message", "avim">>, <<2, "uint64", "serial">>>>
avim_message_packet_keeps == [short |-> {"serial", "avim"}, long |-> {},
    repeated |-> {"avim"}, required |-> {}, checked |-> {"avim"}]

-----------------------------------------------------------------------------
(* message.proto                                                        *)

\* The messages the file enters in the generated pool.
message_types == <<"avpacket_ack_control", "avpacket", "aGMP_PKREPLY",
    "aGMP_NOROUTTOHOST", "aGMP_TTLOUT", "aGMP">>

avpacket_ack_control_reads == {<<8, "uint64", "ack_seq">>}
avpacket_ack_control_writes == <<<<1, "uint64", "ack_seq">>>>
avpacket_ack_control_keeps == Plain({"ack_seq"}, {"ack_seq"})

avpacket_reads == {<<10, "av_address", "src">>, <<18, "av_address", "dest">>,
    <<26, "bytes", "publickey">>, <<32, "uint32", "time_to_live">>,
    <<50, "string", "upperlayerpotocol">>, <<56, "uint32", "encrype_method">>,
    <<66, "bytes", "payload">>, <<72, "bool", "msg_dont_route">>,
    <<80, "uint64", "timestamp">>, <<90, "avpacket_ack_control", "need_seq">>}
avpacket_writes == <<<<1, "message", "src">>, <<2, "message", "dest">>,
    <<3, "bytes", "publickey">>, <<4, "uint32", "time_to_live">>,
    <<6, "string", "upperlayerpotocol">>, <<7, "uint32", "encrype_method">>,
    <<8, "bytes", "payload">>, <<9, "bool", "msg_dont_route">>,
    <<10, "uint64", "timestamp">>, <<11, "message", "need_seq">>>>
avpacket_keeps ==
    [short |-> {"src", "dest", "publickey", "time_to_live", "upperlayerpotocol", "encrype_method", "msg_dont_route", "timestamp", "need_seq", "payload"},
    long |-> {}, repeated |-> {},
    required |-> {"src", "dest", "time_to_live", "upperlayerpotocol"},
    checked |-> {"src", "dest", "need_seq"}]

aGMP_PKREPLY_reads == {<<10, "bytes", "x509_cert">>}
aGMP_PKREPLY_writes == <<<<1, "bytes", "x509_cert">>>>
aGMP_PKREPLY_keeps == Plain({"x509_cert"}, {"x509_cert"})

aGMP_NOROUTTOHOST_reads == {<<10, "av_address", "host">>}
aGMP_NOROUTTOHOST_writes == <<<<1, "message", "host">>>>
aGMP_NOROUTTOHOST_keeps == [short |-> {"host"}, long |-> {}, repeated |-> {},
    required |-> {"host"}, checked |-> {"host"}]

aGMP_TTLOUT_reads == {<<10, "av_address", "host">>}
aGMP_TTLOUT_writes == <<<<1, "message", "host">>>>
aGMP_TTLOUT_keeps == [short |-> {"host"}, long |-> {}, repeated |-> {},
    required |-> {"host"}, checked |-> {"host"}]

aGMP_reads == {<<10, "aGMP_PKREPLY", "pkreply">>,
    <<18, "aGMP_NOROUTTOHOST", "noroutetohost">>, <<26, "aGMP_TTLOUT", "ttlout">>}
aGMP_writes == <<<<1, "message", "pkreply">>, <<2, "message", "noroutetohost">>,
    <<3, "message", "ttlout">>>>
aGMP_keeps == [short |-> {"pkreply", "noroutetohost", "ttlout"}, long |-> {},
    repeated |-> {}, required |-> {}, checked |-> {"pkreply", "noroutetohost", "ttlout"}]

-----------------------------------------------------------------------------
(* user.proto                                                           *)

\* The messages the file enters in the generated pool.
user_types == <<"client_hello", "server_hello", "login", "login_result",
    "username_availability_check", "username_availability_result", "user_register",
    "user_register_result", "user_cert_lost_request", "user_cert_lost_verify">>

client_hello_reads == {<<10, "string", "client">>, <<16, "uint32", "version">>,
    <<26, "bytes", "random_g">>, <<34, "bytes", "random_p">>,
    <<42, "bytes", "random_pub_key">>}
client_hello_writes == <<<<1, "string", "client">>, <<2, "uint32", "version">>,
    <<3, "bytes", "random_g">>, <<4, "bytes", "random_p">>,
    <<5, "bytes", "random_pub_key">>>>
client_hello_keeps == Plain(
    {"client", "version", "random_g", "random_p", "random_pub_key"},
    {"client", "version", "random_g", "random_p", "random_pub_key"})

server_hello_reads == {<<10, "string", "servername">>, <<16, "uint32", "version">>,
    <<26, "bytes", "random_pub_key">>, <<34, "string", "server_av_address">>}
server_hello_writes == <<<<1, "string", "servername">>, <<2, "uint32", "version">>,
    <<3, "bytes", "random_pub_key">>, <<4, "string", "server_av_address">>>>
server_hello_keeps == Plain(
    {"servername", "version", "random_pub_key", "server_av_address"},
    {"servername", "version", "random_pub_key", "server_av_address"})

login_reads == {<<10, "bytes", "user_cert">>, <<18, "bytes", "encryped_radom_key">>,
    <<26, "string", "other_info">>}
login_writes == <<<<1, "bytes", "user_cert">>, <<2, "bytes", "encryped_radom_key">>,
    <<3, "string", "other_info">>>>
login_keeps == Plain({"user_cert", "encryped_radom_key", "other_info"},
    {"user_cert", "encryped_radom_key"})

login_result_reads == {<<8, "login_result_code", "result">>}
login_result_writes == <<<<1, "enum", "result">>>>
login_result_keeps == Plain({"result"}, {"result"})

username_availability_check_reads == {<<10, "string", "user_name">>}
username_availability_check_writes == <<<<1, "string", "user_name">>>>
username_availability_check_keeps == Plain({"user_name"}, {"user_name"})

username_availability_result_reads == {<<8, "username_availability_result_code", "result">>}
username_availability_result_writes == <<<<1, "enum", "result">>>>
username_availability_result_keeps == Plain({"result"}, {"result"})

user_register_reads == {<<10, "string", "user_name">>, <<18, "bytes", "rsa_pubkey">>,
    <<26, "bytes", "csr">>, <<34, "string", "mail_address">>,
    <<42, "string", "cell_phone">>}
user_register_writes == <<<<1, "string", "user_name">>, <<2, "bytes", "rsa_pubkey">>,
    <<3, "bytes", "csr">>, <<4, "string", "mail_address">>, <<5, "string", "cell_phone">>>>
user_register_keeps == Plain(
    {"user_name", "rsa_pubkey", "csr", "mail_address", "cell_phone"},
    {"user_name", "rsa_pubkey", "csr"})

user_register_result_reads == {<<8, "user_register_result_code", "result">>,
    <<18, "bytes", "cert">>}
user_register_result_writes == <<<<1, "enum", "result">>, <<2, "bytes", "cert">>>>
user_register_result_keeps == Plain({"result", "cert"}, {"result"})

user_cert_lost_request_reads == {<<10, "string", "user_name">>,
    <<26, "string", "mail_address">>, <<34, "string", "cell_phone">>}
user_cert_lost_request_writes == <<<<1, "string", "user_name">>,
    <<3, "string", "mail_address">>, <<4, "string", "cell_phone">>>>
user_cert_lost_request_keeps == Plain({"user_name", "mail_address", "cell_phone"},
    {"user_name"})

user_cert_lost_verify_reads == {<<10, "string", "secret_code">>}
user_cert_lost_verify_writes == <<<<1, "string", "secret_code">>>>
user_cert_lost_verify_keeps == Plain({"secret_code"}, {"secret_code"})

-----------------------------------------------------------------------------
Table(reads, writes, keeps) == [reads |-> reads, writes |-> writes, keeps |-> keeps]

Messages ==
       "av_address" :> Table(av_address_reads, av_address_writes, av_address_keeps)
    @@ "csr_push" :> Table(csr_push_reads, csr_push_writes, csr_push_keeps)
    @@ "cert_push" :> Table(cert_push_reads, cert_push_writes, cert_push_keeps)
    @@ "push_ok" :> Table(push_ok_reads, push_ok_writes, push_ok_keeps)
    @@ "cert_pull" :> Table(cert_pull_reads, cert_pull_writes, cert_pull_keeps)
    @@ "csr_pull" :> Table(csr_pull_reads, csr_pull_writes, csr_pull_keeps)
    @@ "csr_pendding" :> Table(csr_pendding_reads, csr_pendding_writes, csr_pendding_keeps)
    @@ "csr_pendding_list" :>
          Table(csr_pendding_list_reads, csr_pendding_list_writes, csr_pendding_list_keeps)
    @@ "text_message" :> Table(text_message_reads, text_message_writes, text_message_keeps)
    @@ "img_message" :> Table(img_message_reads, img_message_writes, img_message_keeps)
    @@ "emoji_message" :>
          Table(emoji_message_reads, emoji_message_writes, emoji_message_keeps)
    @@ "symmetry_encryption_key_distribution" :>
          Table(symmetry_encryption_key_distribution_reads,
                symmetry_encryption_key_distribution_writes,
                symmetry_encryption_key_distribution_keeps)
    @@ "avim_message" :> Table(avim_message_reads, avim_message_writes, avim_message_keeps)
    @@ "avim_message_packet" :>
          Table(avim_message_packet_reads,
                avim_message_packet_writes,
                avim_message_packet_keeps)
    @@ "avpacket_ack_control" :>
          Table(avpacket_ack_control_reads,
                avpacket_ack_control_writes,
                avpacket_ack_control_keeps)
    @@ "avpacket" :> Table(avpacket_reads, avpacket_writes, avpacket_keeps)
    @@ "aGMP_PKREPLY" :> Table(aGMP_PKREPLY_reads, aGMP_PKREPLY_writes, aGMP_PKREPLY_keeps)
    @@ "aGMP_NOROUTTOHOST" :>
          Table(aGMP_NOROUTTOHOST_reads, aGMP_NOROUTTOHOST_writes, aGMP_NOROUTTOHOST_keeps)
    @@ "aGMP_TTLOUT" :> Table(aGMP_TTLOUT_reads, aGMP_TTLOUT_writes, aGMP_TTLOUT_keeps)
    @@ "aGMP" :> Table(aGMP_reads, aGMP_writes, aGMP_keeps)
    @@ "client_hello" :> Table(client_hello_reads, client_hello_writes, client_hello_keeps)
    @@ "server_hello" :> Table(server_hello_reads, server_hello_writes, server_hello_keeps)
    @@ "login" :> Table(login_reads, login_writes, login_keeps)
    @@ "login_result" :> Table(login_result_reads, login_result_writes, login_result_keeps)
    @@ "username_availability_check" :>
          Table(username_availability_check_reads,
                username_availability_check_writes,
                username_availability_check_keeps)
    @@ "username_availability_result" :>
          Table(username_availability_result_reads,
                username_availability_result_writes,
                username_availability_result_keeps)
    @@ "user_register" :>
          Table(user_register_reads, user_register_writes, user_register_keeps)
    @@ "user_register_result" :>
          Table(user_register_result_reads,
                user_register_result_writes,
                user_register_result_keeps)
    @@ "user_cert_lost_request" :>
          Table(user_cert_lost_request_reads,
                user_cert_lost_request_writes,
                user_cert_lost_request_keeps)
    @@ "user_cert_lost_verify" :>
          Table(user_cert_lost_verify_reads,
                user_cert_lost_verify_writes,
                user_cert_lost_verify_keeps)
=============================================================================

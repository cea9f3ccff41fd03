------------------------------- MODULE MCWire -------------------------------
(* Framing with every message, two liberties, and packets that follow        *)
(* each other.                                                               *)
EXTENDS ClientMessages

MCTypes == DOMAIN Messages
MCChained == {"avpacket", "csr_pendding"}

(* What a class calls for an embedded message is the function it is itself.  *)
(* TLC's coverage looks into what stands for a constant, but not into a LET, *)
(* and these would send it in a circle.                                      *)
MCRead(T, m, input) ==
    LET embedded == MergePartialFromCodedStream(T, m, input) IN embedded
MCIsInitialized(T, m) == LET embedded == IsInitialized(T, m) IN embedded
MCSerialize(T, m) == LET embedded == Serialize(T, m) IN embedded
MCByteSize(T, m) == LET embedded == ByteSize(T, m) IN embedded
MCMergeFrom(T, m, from) == LET embedded == MergeFrom(T, m, from) IN embedded
MCBytes(input) == LET embedded == BytesOf(input) IN embedded
MCMakes(T, fields) == LET embedded == Makes(T, fields) IN embedded
=============================================================================

---------------------------- MODULE MCConnection ----------------------------
(* Two connections of one manager: up to two distinct messages on the first  *)
(* and one on the second.                                                    *)
EXTENDS Connection, TLC
CONSTANTS c1, c2
MCMaxMsgs == c1 :> 2 @@ c2 :> 1
=============================================================================

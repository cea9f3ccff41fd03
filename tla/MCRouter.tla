------------------------------ MODULE MCRouter ------------------------------
(* Two connections on the threads main() deals them out to in a pool of four: *)
(* the acceptor and the first connection on thread 0, the signal set on 2,    *)
(* the second connection on 3; and in a pool of one.                          *)
EXTENDS Router, TLC
CONSTANTS c1, c2, n1, n2
MCMaxMsgs == c1 :> 0 @@ c2 :> 0      \* WriteMsg is not an action of Router
MCThreadOf == c1 :> 0 @@ c2 :> 3
OneThread == c1 :> 0 @@ c2 :> 0
NameSymmetry == Permutations({n1, n2})
=============================================================================

------------------------------- MODULE MCLogin -------------------------------
(* Login with two threads, and an address for fewer connections than come.   *)
EXTENDS Login, TLC

CONSTANTS c1, c2, c3, t1, t2, k0
MCThreadOf == (c1 :> t1) @@ (c2 :> t2) @@ (c3 :> t1)
MCSymmetry == Permutations({c1, c3}) \union Permutations(Addrs) \union Permutations(Users)
              \union Permutations(Keys \ {EmptyKey})
=============================================================================

--------------------------- MODULE MCRegistration ---------------------------
(* Three requests: two for one name, and one without a name.                *)
EXTENDS Registration, TLC
CONSTANTS r1, r2, r3, u0, u1
MCUserOf == r1 :> u1 @@ r2 :> u1 @@ r3 :> u0
TwoForOne == r1 :> u1 @@ r2 :> u1
=============================================================================

---------------------------- MODULE NameRegistry ----------------------------
(***************************************************************************)
(* What user_register and database promise the clients together: a name is *)
(* held for at most one request, it is given back only before its client   *)
(* was told anything, who is told "registered" holds it then and for good, *)
(* and nobody hears both that he is registered and that he is not.         *)
(* Registration implements this module, through every crash.               *)
(***************************************************************************)
CONSTANTS Requests, Users, UserOf

VARIABLES
    holder,   \* user_id -> the request its row belongs to, as a set: {r} or {}
    told      \* request -> what its client was told, of "registered", "refused"

registry == <<holder, told>>

RegistryInit ==
    /\ holder = [u \in Users |-> {}]
    /\ told = [r \in Requests |-> {}]

Holds(r) == holder[UserOf[r]] = {r}

\* The INSERT.
Claim(r) ==
    /\ holder[UserOf[r]] = {} /\ told[r] = {}
    /\ holder' = [holder EXCEPT ![UserOf[r]] = {r}]
    /\ UNCHANGED told

\* The DELETE.
GiveBack(r) ==
    /\ Holds(r) /\ told[r] = {}
    /\ holder' = [holder EXCEPT ![UserOf[r]] = {}]
    /\ UNCHANGED told

\* The client is told once or, with the certificate and as pending, twice.
Promise(r) ==
    /\ Holds(r) /\ told[r] \in {{}, {"registered"}}
    /\ told' = [told EXCEPT ![r] = {"registered"}]
    /\ UNCHANGED holder

Refuse(r) ==
    /\ told[r] = {}
    /\ told' = [told EXCEPT ![r] = {"refused"}]
    /\ UNCHANGED holder

RegistryNext == \E r \in Requests : Claim(r) \/ GiveBack(r) \/ Promise(r) \/ Refuse(r)

RegistrySpec == RegistryInit /\ [][RegistryNext]_registry
=============================================================================

--------------------------- MODULE MessageStream ---------------------------
(***************************************************************************)
(* What connection::write_msg promises its callers, for each connection:   *)
(* the messages handed to it leave in the order they were handed over,     *)
(* each whole and at most once, and none leaves after the connection has   *)
(* broken.  Connection implements this module.                             *)
(***************************************************************************)
EXTENDS Sequences

CONSTANTS Conns, Msgs

VARIABLES
    pending,    \* conn -> messages accepted and not yet sent, oldest first
    delivered,  \* conn -> messages that left, oldest first
    broken      \* the connections that will send no more

svars == <<pending, delivered, broken>>

StreamInit ==
    /\ pending = [c \in Conns |-> <<>>]
    /\ delivered = [c \in Conns |-> <<>>]
    /\ broken = {}

\* A caller hands over m; a broken connection accepts it too and keeps it.
Accept(c, m) ==
    /\ pending' = [pending EXCEPT ![c] = Append(@, m)]
    /\ UNCHANGED <<delivered, broken>>

Deliver(c) ==
    /\ c \notin broken
    /\ pending[c] # <<>>
    /\ delivered' = [delivered EXCEPT ![c] = Append(@, Head(pending[c]))]
    /\ pending' = [pending EXCEPT ![c] = Tail(@)]
    /\ UNCHANGED broken

Break(c) ==
    /\ broken' = broken \union {c}
    /\ UNCHANGED <<pending, delivered>>

StreamNext ==
    \E c \in Conns :
        \/ \E m \in Msgs : Accept(c, m)
        \/ Deliver(c)
        \/ Break(c)

StreamSpec == StreamInit /\ [][StreamNext]_svars
=============================================================================

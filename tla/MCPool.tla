------------------------------- MODULE MCPool -------------------------------
(* The instance of IoServicePool: in a pool of three the two acceptors and   *)
(* the database have a thread each, and the signal set shares the router     *)
(* acceptor's.                                                               *)
EXTENDS IoServicePool
=============================================================================

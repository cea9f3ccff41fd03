------------------------------- MODULE MCHttp -------------------------------
(* Instances of HttpConnection.                                              *)
EXTENDS HttpConnection
CONSTANTS c1, c2
=============================================================================

---------------------------- MODULE MCSocketServer ----------------------------
(***************************************************************************)
(* SocketServer for TLC.  Connections are interchangeable, and so are      *)
(* endpoints, for the safety runs.                                         *)
(***************************************************************************)
EXTENDS SocketServer, TLC

Symmetry == Permutations(Conn) \cup Permutations(Endpoint)
=============================================================================

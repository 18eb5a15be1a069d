--------------------------- MODULE MCSocketPrograms ---------------------------
(* All arguments of createSocket, one or two addresses.  All UDP programs, *)
(* a buffer of two bytes, and datagrams of none to three.                  *)
EXTENDS SocketPrograms

=============================================================================

----------------------------- MODULE MCTCPProgram -----------------------------
(* Two clients.  Any clients: one that asks twice and one that only        *)
(* connects and breaks off: a second answer behind a first, and a second   *)
(* connection beside it.  main(): two rounds.                              *)
EXTENDS TCPProgram

CONSTANTS c1, c2

MCConn == {c1, c2}
MCOrder == <<c1, c2>>
MCMaxRequests == [c \in MCConn |-> IF c = c1 THEN 2 ELSE 0]

=============================================================================

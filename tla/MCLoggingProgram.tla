--------------------------- MODULE MCLoggingProgram ---------------------------
(* Three slots and seven pushes, as many over a round as the demo program; *)
(* a file of five cells, and messages of up to two bytes.                  *)
EXTENDS LoggingProgram

=============================================================================

--------------------------- MODULE MCQueueProgram ---------------------------
(* A ring of three slots, elements of two words, and a writer that gets as *)
(* far ahead as the ring allows; six elements take both indices round the  *)
(* ring twice.                                                             *)
EXTENDS QueueProgram

=============================================================================

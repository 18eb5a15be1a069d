---------------------------- MODULE LoggingProgram ----------------------------
(***************************************************************************)
(* binary-logger-ring-buffer/program.cpp: RingBuffer_Test and              *)
(* BinaryLogger_Test.  main() runs one of them.                            *)
(***************************************************************************)
EXTENDS RingBuffer, BinaryLogger

VARIABLE test

vars == <<ringVars, logVars, test>>

TypeOK ==
  /\ RingTypeOK
  /\ LogTypeOK
  /\ test \in {"RingBuffer_Test", "BinaryLogger_Test"}

Init ==
  /\ RingInit
  /\ LogInit
  /\ test \in {"RingBuffer_Test", "BinaryLogger_Test"}

RingBuffer_Test   == test = "RingBuffer_Test" /\ RingNext /\ UNCHANGED <<logVars, test>>
BinaryLogger_Test == test = "BinaryLogger_Test" /\ LogNext /\ UNCHANGED <<ringVars, test>>

Next == RingBuffer_Test \/ BinaryLogger_Test

Spec == Init /\ [][Next]_vars

=============================================================================

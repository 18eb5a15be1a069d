------------------------------ MODULE MCMemPool ------------------------------
(* Four blocks, and room for the scan to run three blocks over the end:    *)
(* long enough for the pool to be exhausted, run over and fault, with      *)
(* every content of the memory behind it and every order of frees.         *)
EXTENDS MemPool

=============================================================================

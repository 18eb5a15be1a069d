---------------------------- MODULE MCThreadStart ----------------------------
(* Three threads, the second and third pinned: a failure in the middle and *)
(* at the end, before and after threads that run on.                       *)
EXTENDS ThreadStart

=============================================================================

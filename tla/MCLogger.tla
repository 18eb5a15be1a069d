------------------------------ MODULE MCLogger ------------------------------
(* A ring of three slots and up to five elements: the main thread can stay *)
(* within the ring, or lap the logger thread at any point of its loop, by  *)
(* one element or by two, before or after it has begun to close.           *)
EXTENDS Logger

=============================================================================

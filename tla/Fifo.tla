-------------------------------- MODULE Fifo --------------------------------
(***************************************************************************)
(* What a single-producer single-consumer queue promises its two clients:  *)
(* whole elements come out in the order they went in, each once.  The      *)
(* reader stops for good when it finds the queue empty, which it may       *)
(* conclude while the last element is still being counted in.              *)
(***************************************************************************)
EXTENDS Sequences, Naturals

CONSTANT Value  (* the elements *)

VARIABLES
  q,          (* elements put and not yet got   *)
  delivered,  (* elements got, oldest first     *)
  open        (* the reader has not stopped yet *)

fifoVars == <<q, delivered, open>>

FifoInit ==
  /\ q = <<>>
  /\ delivered = <<>>
  /\ open = TRUE

Put(v) ==
  /\ open
  /\ q' = Append(q, v)
  /\ UNCHANGED <<delivered, open>>

Get ==
  /\ open
  /\ q # <<>>
  /\ delivered' = Append(delivered, Head(q))
  /\ q' = Tail(q)
  /\ UNCHANGED open

(* At most the element being counted in is left behind. *)
Leave ==
  /\ open
  /\ Len(q) <= 1
  /\ open' = FALSE
  /\ q' = <<>>
  /\ UNCHANGED delivered

FifoNext ==
  \/ \E v \in Value : Put(v)
  \/ Get
  \/ Leave

FifoSpec == FifoInit /\ [][FifoNext]_fifoVars

=============================================================================

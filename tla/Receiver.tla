------------------------------- MODULE Receiver -------------------------------
(***************************************************************************)
(* What a program that receives datagrams promises: of the datagrams that  *)
(* are in its socket's queue it takes each once, in order, and says what   *)
(* is in it, as far as its buffer reaches.  It promises nothing of those   *)
(* that do not arrive.                                                     *)
(***************************************************************************)
EXTENDS Naturals, Sequences

CONSTANTS
  Datagram,  (* what may arrive                                            *)
  Size,      (* of the buffer                                              *)
  Limit      (* of the queue                                               *)

VARIABLES
  queue,
  lines,     (* what it has said                                           *)
  spoilt,    (* the memory behind the buffer was written                   *)
  up

vars == <<queue, lines, spoilt, up>>

Init ==
  /\ queue = <<>> /\ lines = <<>>
  /\ spoilt = FALSE
  /\ up = TRUE

Cut(d) == IF Len(d) > Size THEN SubSeq(d, 1, Size) ELSE d

Arrive ==
  /\ up /\ Len(queue) < Limit
  /\ \E d \in Datagram : queue' = Append(queue, d)
  /\ UNCHANGED <<lines, spoilt, up>>

(* Only a datagram that fills the buffer may touch what is behind it. *)
Take ==
  /\ up /\ queue # <<>>
  /\ lines' = Append(lines, Cut(Head(queue)))
  /\ queue' = Tail(queue)
  /\ spoilt' \in {spoilt, spoilt \/ Len(Head(queue)) >= Size}
  /\ UNCHANGED up

(* The checksum of a datagram is looked at when it is to be received. *)
Discard ==
  /\ up /\ queue # <<>>
  /\ queue' = Tail(queue)
  /\ UNCHANGED <<lines, spoilt, up>>

Stop ==
  /\ up
  /\ up' = FALSE
  /\ UNCHANGED <<queue, lines, spoilt>>

Next == Arrive \/ Take \/ Discard \/ Stop

Spec == Init /\ [][Next]_vars

=============================================================================

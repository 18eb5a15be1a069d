----------------------------- MODULE RingBuffer -----------------------------
(***************************************************************************)
(* RingBuffer<int> (binary-logger-ring-buffer/ringBuffer.h), "SPSC Buffer  *)
(* - lossy queue", between one thread that writes 1, 2, 3, ... into it and *)
(* one that reads as long as size() is not zero.  Neither waits for room.  *)
(***************************************************************************)
EXTENDS Naturals, Sequences

CONSTANTS
  Slots,     (* buffer_.size()              *)
  SizeMod,   (* 2^64                        *)
  MaxPushes  (* bound on the elements       *)

ASSUME SlotsAssumption   == Slots \in Nat \ {0}
ASSUME SizeModAssumption == SizeMod \in Nat /\ MaxPushes \in Nat /\ MaxPushes < SizeMod

VARIABLES
  buffer_, size_, read_index_, write_index_,
  wpc, rpc,    (* where the writer and the reader are                 *)
  pushed,      (* elements stored                                     *)
  got,         (* what the reader has read                            *)
  lapped       (* history: an element was overwritten unread          *)

ringVars == <<buffer_, size_, read_index_, write_index_, wpc, rpc, pushed, got, lapped>>

Slot == 0 .. Slots - 1

RingTypeOK ==
  /\ buffer_ \in [Slot -> Nat]
  /\ size_ \in 0 .. SizeMod - 1
  /\ read_index_ \in Slot /\ write_index_ \in Slot
  /\ wpc \in {"push", "move", "count"}
  /\ rpc \in {"test", "read", "move", "count"}
  /\ pushed \in 0 .. MaxPushes
  /\ got \in Seq(Nat)
  /\ lapped \in BOOLEAN

RingInit ==
  /\ buffer_ = [i \in Slot |-> 0]
  /\ size_ = 0 /\ read_index_ = 0 /\ write_index_ = 0
  /\ wpc = "push" /\ rpc = "test"
  /\ pushed = 0
  /\ got = <<>>
  /\ lapped = FALSE

-----------------------------------------------------------------------------
(* Plausible bugs. *)

NextIndexUnwrapped(i) == i + 1
OneLessForgotten      == size_

-----------------------------------------------------------------------------
NextIndex(i) == (i + 1) % Slots

OneLess == (size_ + SizeMod - 1) % SizeMod

(* *push_into() = x: there is no test for a full ring. *)
PushInto ==
  /\ wpc = "push"
  /\ pushed < MaxPushes
  /\ buffer_' = [buffer_ EXCEPT ![write_index_] = pushed + 1]
  /\ pushed' = pushed + 1
  /\ lapped' = (lapped \/ pushed - Len(got) >= Slots)
  /\ wpc' = "move"
  /\ UNCHANGED <<size_, read_index_, write_index_, rpc, got>>

(* The two statements of move_write_index(). *)
MoveWriteIndex ==
  /\ wpc = "move"
  /\ write_index_' = NextIndex(write_index_)
  /\ wpc' = "count"
  /\ UNCHANGED <<buffer_, size_, read_index_, rpc, pushed, got, lapped>>

CountPush ==
  /\ wpc = "count"
  /\ size_' = (size_ + 1) % SizeMod
  /\ wpc' = "push"
  /\ UNCHANGED <<buffer_, read_index_, write_index_, rpc, pushed, got, lapped>>

TestSize ==
  /\ rpc = "test"
  /\ size_ # 0
  /\ rpc' = "read"
  /\ UNCHANGED <<buffer_, size_, read_index_, write_index_, wpc, pushed, got, lapped>>

(* *pop_next() *)
PopNext ==
  /\ rpc = "read"
  /\ got' = Append(got, buffer_[read_index_])
  /\ rpc' = "move"
  /\ UNCHANGED <<buffer_, size_, read_index_, write_index_, wpc, pushed, lapped>>

(* The two statements of move_read_index(). *)
MoveReadIndex ==
  /\ rpc = "move"
  /\ read_index_' = NextIndex(read_index_)
  /\ rpc' = "count"
  /\ UNCHANGED <<buffer_, size_, write_index_, wpc, pushed, got, lapped>>

CountPop ==
  /\ rpc = "count"
  /\ size_' = OneLess
  /\ rpc' = "test"
  /\ UNCHANGED <<buffer_, read_index_, write_index_, wpc, pushed, got, lapped>>

RingNext ==
  \/ PushInto \/ MoveWriteIndex \/ CountPush
  \/ TestSize \/ PopNext \/ MoveReadIndex \/ CountPop

-----------------------------------------------------------------------------
(* Properties. *)

(* The reader gets the elements in order as long as none was overwritten.  *)
(* Afterwards its k-th read gives the k-th element or one that many whole  *)
(* rounds later, so that old ones may follow new ones and one may come     *)
(* twice; it never gives an earlier one, or a slot that was never written. *)
LossyFifo ==
  \A k \in 1 .. Len(got) :
    /\ got[k] >= k /\ got[k] % Slots = k % Slots
    /\ lapped \/ got[k] = k

=============================================================================

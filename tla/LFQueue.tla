------------------------------- MODULE LFQueue -------------------------------
(***************************************************************************)
(* The bounded single-producer single-consumer queue of                    *)
(* lock-free-queue/lf_queue.h (copied unchanged into logger/ and sockets/).*)
(*                                                                         *)
(* The module holds the object's state and one action per shared memory    *)
(* access its methods make.  A client module decides which thread performs *)
(* which access and when, so that every interleaving of two threads at     *)
(* the granularity of a single atomic access is explored.  The three       *)
(* atomics are sequentially consistent in the code (default order), an     *)
(* index update loads and stores a variable only one thread writes, and    *)
(* is therefore one step.  An element is copied word by word: the store    *)
(* into the slot is a plain assignment of a multi-word struct.             *)
(***************************************************************************)
EXTENDS Integers

CONSTANTS
  Capacity,  (* store_.size()                                              *)
  SizeMod,   (* number of values of size_t: counters wrap at SizeMod       *)
  Word,      (* the machine words an element copy is made of               *)
  Blank      (* what a slot word holds before its first write: T()         *)

ASSUME CapacityAssumption == Capacity \in Nat \ {0}
ASSUME SizeModAssumption  == SizeMod \in Nat /\ Capacity < SizeMod
ASSUME BlankAssumption    == Blank \notin Nat

VARIABLES
  store,             (* the slots; an element is identified by its number  *)
  next_write_index,
  next_read_index,
  store_size

queueVars == <<store, next_write_index, next_read_index, store_size>>

Slot == 0 .. Capacity - 1

(* The null pointer getNextToRead() returns; no slot has this index. *)
NullPtr == -1

(* The element number n, all of its words in place. *)
Whole(n) == [w \in Word |-> n]

QueueTypeOK ==
  /\ store \in [Slot -> [Word -> Nat \cup {Blank}]]
  /\ next_write_index \in Slot
  /\ next_read_index \in Slot
  /\ store_size \in 0 .. SizeMod - 1

QueueInit ==
  /\ store = [s \in Slot |-> Whole(Blank)]
  /\ next_write_index = 0
  /\ next_read_index = 0
  /\ store_size = 0

(***************************************************************************)
(* Plausible bugs of the accesses below, substituted for them to show that *)
(* the properties of the clients depend on the code being as it is.        *)
(***************************************************************************)
(* Off by one: hands out the slot after the one to be published. *)
GetNextToWriteToAhead == (next_write_index + 1) % Capacity

(* The wrap-around is forgotten. *)
AdvanceWriteIndexNoWrap ==
  /\ next_write_index' = next_write_index + 1
  /\ UNCHANGED <<store, next_read_index, store_size>>

(* The consumer's counter update is forgotten. *)
DecrementSizeForgotten == UNCHANGED queueVars


(* Off by one: the newest slot is handed out instead of the oldest. *)
GetNextToReadNewest ==
  IF next_read_index = next_write_index
    THEN NullPtr
    ELSE (next_write_index + Capacity - 1) % Capacity

-----------------------------------------------------------------------------
(* The writer's accesses. *)

(* getNextToWriteTo: no test for a full queue. *)
GetNextToWriteTo == next_write_index

(* One word of the assignment through the pointer getNextToWriteTo gave. *)
StoreWord(slot, w, n) ==
  /\ store' = [store EXCEPT ![slot][w] = n]
  /\ UNCHANGED <<next_write_index, next_read_index, store_size>>

(* updateNextToWriteTo, first statement. *)
AdvanceWriteIndex ==
  /\ next_write_index' = (next_write_index + 1) % Capacity
  /\ UNCHANGED <<store, next_read_index, store_size>>

(* updateNextToWriteTo, second statement: store_size_++. *)
IncrementSize ==
  /\ store_size' = (store_size + 1) % SizeMod
  /\ UNCHANGED <<store, next_write_index, next_read_index>>

-----------------------------------------------------------------------------
(* The reader's accesses. *)

(* getNextToRead *)
GetNextToRead ==
  IF next_read_index = next_write_index THEN NullPtr ELSE next_read_index

(* updateReadIndex, first statement. *)
AdvanceReadIndex ==
  /\ next_read_index' = (next_read_index + 1) % Capacity
  /\ UNCHANGED <<store, next_write_index, store_size>>

(* updateReadIndex: the condition of its ASSERT. *)
SizeAssertHolds == store_size # 0

(* updateReadIndex, last statement: store_size_--. *)
DecrementSize ==
  /\ store_size' = (store_size + SizeMod - 1) % SizeMod
  /\ UNCHANGED <<store, next_write_index, next_read_index>>

(* size() *)
Size == store_size

=============================================================================

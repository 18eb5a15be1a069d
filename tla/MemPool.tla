------------------------------- MODULE MemPool -------------------------------
(***************************************************************************)
(* The object pool of memory-pool/mem_pool.h and a client of it.           *)
(*                                                                         *)
(* A pool is a vector of N blocks, each with an is_free_ flag, and a       *)
(* cursor next_free_index_ at the block the next allocate() hands out.     *)
(* allocate() takes that block and scans upwards for the next free one.    *)
(* At the end of the vector the code compares the cursor with 0 where its  *)
(* comment says it goes back: the scan runs on over whatever memory lies   *)
(* behind the vector.  Beyond bytes of flags are mapped there, with        *)
(* contents nobody chose; a read further up kills the process.             *)
(*                                                                         *)
(* The pool is not thread safe and one thread uses it.  The client frees   *)
(* any pointer it was ever given, twice or after the pool ran over         *)
(* included: telling these apart is what deallocate()'s ASSERTs are for.   *)
(***************************************************************************)
EXTENDS Integers

CONSTANTS
  N,      (* num_elems, the blocks of the pool       *)
  Beyond  (* flags readable behind the vector        *)

ASSUME NAssumption      == N \in Nat \ {0}
ASSUME BeyondAssumption == Beyond \in Nat

VARIABLES
  is_free,          (* the is_free_ flag of every block, behind the vector too *)
  next_free_index,
  init_index,       (* init_next_free_index_ of the scan under way *)
  pc,               (* what the pool is doing                      *)
  live,             (* client: blocks allocated and not yet freed  *)
  handed            (* client: blocks ever handed out              *)

vars == <<is_free, next_free_index, init_index, pc, live, handed>>

Slot  == 0 .. N - 1            (* indices of store_            *)
Block == 0 .. N + Beyond - 1   (* blocks that can be addressed *)

TypeOK ==
  /\ is_free \in [Block -> BOOLEAN]
  /\ next_free_index \in 0 .. N + Beyond
  /\ init_index \in Block
  /\ pc \in {"ready", "scan", "abort", "segv"}
  /\ live \subseteq Block
  /\ handed \subseteq Block

Init ==
  /\ is_free \in {f \in [Block -> BOOLEAN] : \A b \in Slot : f[b]}
  /\ next_free_index = 0
  /\ init_index = 0
  /\ pc = "ready"
  /\ live = {}
  /\ handed = {}

(* The block allocate() has taken and not yet returned. *)
Taken == live \cup (IF pc \in {"scan", "segv"} THEN {init_index} ELSE {})

-----------------------------------------------------------------------------
(* Plausible bugs. *)

AdvanceDown(c) == c - 1                         (* the wrong way              *)
AdvanceTwo(c)  == c + 2                         (* a block is skipped         *)
FlagOfTakenForgotten == TRUE                    (* the block stays marked free *)
BlockFoundOnce == next_free_index # init_index  (* if in place of while       *)

-----------------------------------------------------------------------------
FlagOfTaken == FALSE

(* allocate(): the ASSERT on the block at the cursor; the object is         *)
(* constructed in place and its block marked.                              *)
TakeBlock ==
  /\ pc = "ready"
  /\ IF is_free[next_free_index]
       THEN /\ is_free' = [is_free EXCEPT ![next_free_index] = FlagOfTaken]
            /\ init_index' = next_free_index
            /\ pc' = "scan"
       ELSE /\ pc' = "abort"
            /\ UNCHANGED <<is_free, init_index>>
  /\ UNCHANGED <<next_free_index, live, handed>>

(* ++next_free_index_ *)
Advance(c) == c + 1

(* if(next_free_index_ == store_.size()) next_free_index_ == 0; *)
EndOfVector(c) == c

BlockFound == is_free[next_free_index]

(* updateNextFreeIndex(): one turn of the while loop.  The out-of-space    *)
(* ASSERT fires when the scan is back where it began.                      *)
ScanOn ==
  /\ pc = "scan"
  /\ next_free_index \in Block
  /\ ~BlockFound
  /\ next_free_index' = EndOfVector(Advance(next_free_index))
  /\ pc' = IF next_free_index' = init_index THEN "abort" ELSE "scan"
  /\ UNCHANGED <<is_free, init_index, live, handed>>

(* updateNextFreeIndex(): a free block is found, allocate() returns.       *)
ScanFound ==
  /\ pc = "scan"
  /\ next_free_index \in Block
  /\ BlockFound
  /\ pc' = "ready"
  /\ live' = live \cup {init_index}
  /\ handed' = handed \cup {init_index}
  /\ UNCHANGED <<is_free, next_free_index, init_index>>

(* updateNextFreeIndex(): the flag read is in no mapped page. *)
ScanFaults ==
  /\ pc = "scan"
  /\ next_free_index \notin Block
  /\ pc' = "segv"
  /\ UNCHANGED <<is_free, next_free_index, init_index, live, handed>>

(* deallocate(): both ASSERTs, then the flag. The cursor stays. *)
Deallocate(b) ==
  /\ pc = "ready"
  /\ IF b \in Slot /\ ~is_free[b]
       THEN /\ is_free' = [is_free EXCEPT ![b] = TRUE]
            /\ live' = live \ {b}
            /\ UNCHANGED pc
       ELSE /\ pc' = "abort"
            /\ UNCHANGED <<is_free, live>>
  /\ UNCHANGED <<next_free_index, init_index, handed>>

Next ==
  \/ TakeBlock
  \/ ScanOn \/ ScanFound \/ ScanFaults
  \/ \E b \in handed : Deallocate(b)

Spec == Init /\ [][Next]_vars

-----------------------------------------------------------------------------
(* Properties. *)

(* The flags never drift from what the client holds: a pool block is       *)
(* marked free exactly when nobody holds it.  So a live object is never    *)
(* handed out or overwritten, and freeing a block twice is always caught.  *)
FlagsTrackBlocks == \A b \in Slot : is_free[b] <=> b \notin Taken

(* Between two calls the cursor is at a free block: allocate()'s ASSERT    *)
(* cannot fail, whatever was freed and whatever lies behind the vector.    *)
CursorFree == pc = "ready" => is_free[next_free_index]

(* The pool hands out memory that is not its own only after every block of *)
(* its own has been handed out.                                            *)
OutsideOnlyWhenExhausted == handed \subseteq Slot \/ Slot \subseteq handed

(* mem_pool.h:64-65: "We end up at the end of vector / back to beggining": *)
(* a scan never looks at a block behind the vector.                        *)
BackToBeginning == next_free_index \in Slot

=============================================================================

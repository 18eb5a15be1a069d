---------------------------- MODULE MemPool_proof ----------------------------
(***************************************************************************)
(* Proofs about MemPool, for every pool size and every content of the      *)
(* memory behind the vector.                                               *)
(***************************************************************************)
EXTENDS MemPool, TLAPS

USE NAssumption, BeyondAssumption

-----------------------------------------------------------------------------
Scanning == pc \in {"scan", "segv"}

(* The block up to which the pool has handed out everything. *)
Frontier == IF Scanning THEN init_index ELSE next_free_index

(* The blocks handed out are those below the frontier; behind the vector   *)
(* some may have been skipped.                                             *)
HandedBelow ==
  /\ \A b \in handed : b < Frontier
  /\ \A b \in Slot : b < Frontier => b \in handed
  /\ live \subseteq handed

(* Inside the vector the block above the one just taken is free, and the   *)
(* scan stops there.                                                       *)
ScanShort ==
  Scanning => /\ ~is_free[init_index]
              /\ init_index <= next_free_index
              /\ next_free_index <= init_index + 1 \/ N <= init_index + 1

PoolInv ==
  /\ TypeOK
  /\ FlagsTrackBlocks
  /\ CursorFree
  /\ HandedBelow
  /\ ScanShort
  /\ pc = "ready" => next_free_index \in Block

LEMMA PoolInit == Init => PoolInv
<1> SUFFICES ASSUME Init PROVE PoolInv
  OBVIOUS
<1> USE DEF Init, Slot, Block
<1>1. TypeOK
  BY DEF TypeOK
<1>2. FlagsTrackBlocks /\ CursorFree
  BY DEF FlagsTrackBlocks, CursorFree, Taken
<1>3. HandedBelow /\ ScanShort
  BY DEF HandedBelow, ScanShort, Scanning, Frontier
<1> QED
  BY <1>1, <1>2, <1>3 DEF PoolInv

LEMMA PoolTake == PoolInv /\ TakeBlock => PoolInv'
<1> SUFFICES ASSUME PoolInv, TakeBlock PROVE PoolInv'
  OBVIOUS
<1> USE DEF PoolInv, TakeBlock, FlagOfTaken, TypeOK, Slot, Block
<1>1. /\ pc = "ready" /\ pc' = "scan" /\ is_free[next_free_index]
      /\ init_index' = next_free_index /\ next_free_index \in Block
      /\ is_free' = [is_free EXCEPT ![next_free_index] = FALSE]
  BY DEF CursorFree
<1>2. Scanning' /\ ~Scanning /\ Frontier' = Frontier /\ Frontier = next_free_index
  BY <1>1 DEF Scanning, Frontier
<1>3. TypeOK'
  BY <1>1
<1>4. FlagsTrackBlocks'
  BY <1>1 DEF FlagsTrackBlocks, Taken
<1>5. HandedBelow'
  BY <1>2 DEF HandedBelow
<1>6. ScanShort' /\ CursorFree'
  BY <1>1 DEF ScanShort, CursorFree
<1> QED
  BY <1>3, <1>4, <1>5, <1>6

LEMMA PoolScanOn == PoolInv /\ ScanOn => PoolInv'
<1> SUFFICES ASSUME PoolInv, ScanOn PROVE PoolInv'
  OBVIOUS
<1> USE DEF PoolInv, ScanOn, BlockFound, TypeOK, Slot, Block, Advance, EndOfVector
<1>1. Scanning /\ init_index <= next_free_index
  BY DEF Scanning, ScanShort
<1>2. next_free_index' = next_free_index + 1 /\ pc' = "scan"
  BY <1>1
<1>3. Scanning' /\ Frontier' = Frontier /\ Taken' = Taken
  BY <1>1, <1>2 DEF Scanning, Frontier, Taken
<1>4. TypeOK' /\ CursorFree'
  BY <1>2 DEF CursorFree
<1>5. FlagsTrackBlocks' /\ HandedBelow'
  BY <1>3 DEF FlagsTrackBlocks, HandedBelow
<1>6. next_free_index = init_index \/ next_free_index \notin Slot
  <2> SUFFICES ASSUME next_free_index \in Slot, init_index < next_free_index
               PROVE  FALSE
    BY <1>1
  <2>1. next_free_index \in Taken
    BY DEF FlagsTrackBlocks
  <2>2. next_free_index \in handed
    BY <2>1, <1>1 DEF Taken, HandedBelow, Scanning
  <2> QED
    BY <2>2, <1>1 DEF HandedBelow, Frontier
<1>7. ScanShort'
  BY <1>1, <1>2, <1>3, <1>6 DEF ScanShort
<1> QED
  BY <1>4, <1>5, <1>7

LEMMA PoolScanFound == PoolInv /\ ScanFound => PoolInv'
<1> SUFFICES ASSUME PoolInv, ScanFound PROVE PoolInv'
  OBVIOUS
<1> USE DEF PoolInv, ScanFound, BlockFound, TypeOK, Slot, Block
<1>1. /\ Scanning /\ ~Scanning' /\ Frontier = init_index
      /\ Frontier' = next_free_index /\ Taken' = Taken
  BY DEF Scanning, Frontier, Taken
<1>2. init_index < next_free_index
  BY <1>1 DEF ScanShort
<1>3. TypeOK' /\ CursorFree'
  BY DEF CursorFree
<1>4. FlagsTrackBlocks'
  BY <1>1 DEF FlagsTrackBlocks
<1>5. HandedBelow'
  BY <1>1, <1>2 DEF HandedBelow, ScanShort
<1>6. ScanShort'
  BY <1>1 DEF ScanShort
<1> QED
  BY <1>3, <1>4, <1>5, <1>6

LEMMA PoolFaults == PoolInv /\ ScanFaults => PoolInv'
<1> SUFFICES ASSUME PoolInv, ScanFaults PROVE PoolInv'
  OBVIOUS
<1> USE DEF PoolInv, ScanFaults, TypeOK
<1>1. Scanning /\ Scanning' /\ Frontier' = Frontier /\ Taken' = Taken
  BY DEF Scanning, Frontier, Taken
<1>2. TypeOK' /\ CursorFree'
  BY DEF CursorFree
<1>3. FlagsTrackBlocks' /\ HandedBelow' /\ ScanShort'
  BY <1>1 DEF FlagsTrackBlocks, HandedBelow, ScanShort
<1> QED
  BY <1>2, <1>3

LEMMA PoolDeallocate ==
  ASSUME PoolInv, NEW b \in handed, Deallocate(b)
  PROVE  PoolInv'
<1> USE DEF PoolInv, Deallocate, TypeOK, Slot, Block
<1>1. ~Scanning /\ ~Scanning' /\ Frontier' = Frontier /\ Taken = live /\ Taken' = live'
  BY DEF Scanning, Frontier, Taken
<1>2. TypeOK' /\ CursorFree'
  BY DEF CursorFree
<1>3. FlagsTrackBlocks'
  BY <1>1 DEF FlagsTrackBlocks
<1>4. HandedBelow' /\ ScanShort'
  BY <1>1 DEF HandedBelow, ScanShort
<1> QED
  BY <1>2, <1>3, <1>4

LEMMA PoolStep == PoolInv /\ [Next]_vars => PoolInv'
<1> SUFFICES ASSUME PoolInv, [Next]_vars PROVE PoolInv'
  OBVIOUS
<1>1. CASE UNCHANGED vars
  BY <1>1 DEF vars, PoolInv, TypeOK, FlagsTrackBlocks, Taken, CursorFree,
              HandedBelow, Frontier, ScanShort, Scanning
<1> QED
  BY <1>1, PoolTake, PoolScanOn, PoolScanFound, PoolFaults, PoolDeallocate DEF Next

LEMMA PoolInvariance == Spec => []PoolInv
BY PoolInit, PoolStep, PTL DEF Spec

-----------------------------------------------------------------------------
(* Every variable of the pool keeps its type.                              *)
THEOREM PoolTypeCorrect == Spec => []TypeOK
<1>1. PoolInv => TypeOK
  BY DEF PoolInv
<1> QED
  BY <1>1, PoolInvariance, PTL

(* A pool block is marked free exactly when nobody holds it.               *)
THEOREM FlagsAreTrue == Spec => []FlagsTrackBlocks
<1>1. PoolInv => FlagsTrackBlocks
  BY DEF PoolInv
<1> QED
  BY <1>1, PoolInvariance, PTL

(* allocate()'s ASSERT never fails.                                        *)
THEOREM AllocateSucceeds == Spec => []CursorFree
<1>1. PoolInv => CursorFree
  BY DEF PoolInv
<1> QED
  BY <1>1, PoolInvariance, PTL

(* The pool runs over only after it has handed out all of its own blocks.  *)
THEOREM ExhaustedFirst == Spec => []OutsideOnlyWhenExhausted
<1>1. PoolInv => OutsideOnlyWhenExhausted
  <2> SUFFICES ASSUME PoolInv, NEW b \in handed, b \notin Slot, NEW s \in Slot
               PROVE  s \in handed
    BY DEF OutsideOnlyWhenExhausted
  <2>1. b \in Nat /\ N <= b /\ b < Frontier /\ Frontier \in Nat
    BY DEF PoolInv, TypeOK, HandedBelow, Slot, Block, Frontier
  <2>2. s < Frontier
    BY <2>1 DEF Slot
  <2> QED
    BY <2>2 DEF PoolInv, HandedBelow
<1> QED
  BY <1>1, PoolInvariance, PTL

=============================================================================

------------------------- MODULE QueueProgram_proof -------------------------
(***************************************************************************)
(* Proofs about QueueProgram: for every ring size, every number of words   *)
(* per element, every number of elements and every Lead < Capacity.        *)
(***************************************************************************)
EXTENDS QueueProgram, SequenceTheorems, Lemmas

USE CapacityAssumption, SizeModAssumption, BlankAssumption,
    ItemsAssumption, LeadAssumption

-----------------------------------------------------------------------------
(* An element is being written only inside the writer's loop. *)
LoopBound == wpc # "claim" => i < Items

TypeInv == TypeOK /\ LoopBound

LEMMA TypeInit == Init => TypeInv
BY DEF Init, TypeInv, LoopBound, TypeOK, QueueInit, QueueTypeOK, Slot, NullPtr, Whole

(* No step of either thread takes a variable out of its type.               *)
LEMMA TypeStep == TypeInv /\ [Next]_vars => TypeInv'
<1> SUFFICES ASSUME TypeInv, [Next]_vars
             PROVE  TypeInv'
  OBVIOUS
<1> USE DEF TypeInv, LoopBound, TypeOK, QueueTypeOK, Slot, NullPtr, writerVars, consumerVars, queueVars
<1>1. CASE ClaimSlot
  BY <1>1 DEF ClaimSlot, GetNextToWriteTo
<1>2. ASSUME NEW w \in Word, CopyWord(w)
      PROVE  TypeInv'
  BY <1>2 DEF CopyWord, StoreWord
<1>3. CASE PublishItem
  BY <1>3 DEF PublishItem, AdvanceWriteIndex
<1>4. CASE CountItem
  BY <1>4 DEF CountItem, IncrementSize
<1>5. CASE TestSize
  BY <1>5 DEF TestSize
<1>6. CASE Peek
  BY <1>6 DEF Peek, GetNextToRead
<1>7. CASE Release
  BY <1>7 DEF Release, AdvanceReadIndex
<1>8. CASE CheckSize
  BY <1>8 DEF CheckSize
<1>9. CASE Uncount
  BY <1>9 DEF Uncount, DecrementSize, Whole
<1>10. ASSUME NEW w \in Word, ReadWord(w)
       PROVE  TypeInv'
  BY <1>10 DEF ReadWord
<1>11. CASE PrintItem
  BY <1>11 DEF PrintItem
<1>12. CASE UNCHANGED vars
  BY <1>12 DEF vars
<1> QED
  BY <1>1, <1>2, <1>3, <1>4, <1>5, <1>6, <1>7, <1>8, <1>9, <1>10, <1>11, <1>12
     DEF Next, Writer, Consumer, Finished

(* Every variable keeps its type: the indices stay inside the ring, the     *)
(* counter inside size_t, the loop variable inside the loop.                *)
THEOREM TypeCorrect == Spec => []TypeOK
<1>1. TypeInv => TypeOK
  BY DEF TypeInv
<1> QED
  BY <1>1, TypeInit, TypeStep, PTL DEF Spec

-----------------------------------------------------------------------------
(* The inductive invariant.                                                *)

(* The slot x places on, for a distance that wraps at most once. *)
Wrap(x) == IF x < Capacity THEN x ELSE x - Capacity

(* Elements published and not yet released. *)
Waiting == Published - Released

Reading == cpc # "exit"

(* How far the threads are apart, and that the reader only goes on when    *)
(* the counter has told it of an element.                                  *)
Distance ==
  /\ Reading => Waiting \in 0 .. Lead
  /\ Reading /\ wpc = "fill" => Waiting < Lead
  /\ cpc \in {"peek", "release", "check", "uncount"} => Len(received) < i
  /\ cpc = "use" => Len(received) < Published

(* The two indices are exactly Waiting slots apart. *)
Indices ==
  /\ wpc = "fill" => wslot = next_write_index
  /\ Reading => next_write_index = Wrap(next_read_index + Waiting)
  /\ cpc = "release" => item = next_read_index
  /\ Holding => item \in Slot /\ next_read_index = Wrap(item + 1)

(* The counter has counted the elements in and out. *)
Counter ==
  Reading => store_size = i - Len(received) - (IF cpc = "use" THEN 1 ELSE 0)

(* What the slots hold: the waiting elements in order, the released one    *)
(* the reader still reads, and the words stored so far of the next.        *)
Stored ==
  /\ Reading => \A k \in 0 .. Waiting - 1 :
                  store[Wrap(next_read_index + k)] = Whole(Released + k)
  /\ Holding => store[item] = Whole(Len(received))
  /\ wpc = "fill" => \A w \in Word \ wleft : store[wslot][w] = i
  /\ cpc = "use" => \A w \in Word \ cleft : got[w] = Len(received)

Inv ==
  /\ TypeInv
  /\ Alive
  /\ Distance
  /\ Indices
  /\ Counter
  /\ Stored
  /\ InOrder

USE DEF Slot

LEMMA Advance ==
  ASSUME NEW a \in Slot
  PROVE  (a + 1) % Capacity = Wrap(a + 1)
BY WrapInc DEF Wrap

LEMMA Place ==
  ASSUME NEW a \in Slot, NEW x \in Slot
  PROVE  (a + x) % Capacity = Wrap(a + x)
<1>1. (a + x) % Capacity = IF a + x < Capacity THEN a + x ELSE a + x - Capacity
  BY WrapAdd, Zenon
<1> QED
  BY <1>1 DEF Wrap

LEMMA InvInit == Init => Inv
<1> SUFFICES ASSUME Init PROVE Inv
  OBVIOUS
<1> USE DEF Init, QueueInit
<1>0. /\ i = 0 /\ store_size = 0
      /\ wpc = "claim" /\ cpc = "test"
      /\ next_read_index = 0 /\ next_write_index = 0
  OBVIOUS
<1>1. Len(received) = 0
  <2>1. received = <<>>
    OBVIOUS
  <2> QED
    BY ONLY EmptyLen, <2>1, Zenon
<1> HIDE DEF Init, QueueInit
<1>2. Waiting = 0 /\ ~Holding
  <2>1. ~Holding
    BY <1>0 DEF Holding
  <2>2. Published = 0
    BY <1>0 DEF Published
  <2>3. Released = 0
    BY <1>1, <2>1 DEF Released
  <2> QED
    BY <2>1, <2>2, <2>3 DEF Waiting
<1>3. Distance
  BY <1>0, <1>1, <1>2 DEF Distance
<1>4. Indices
  BY <1>0, <1>2 DEF Indices, Wrap
<1>5. Counter
  BY <1>0, <1>1 DEF Counter
<1>6. Stored /\ InOrder /\ Alive
  BY <1>0, <1>1, <1>2 DEF Stored, InOrder, Alive
<1> QED
  BY <1>3, <1>4, <1>5, <1>6, TypeInit DEF Inv

(* The writer takes a slot, one place past the waiting elements. *)
LEMMA InvClaim == Inv /\ ClaimSlot => Inv'
<1> SUFFICES ASSUME Inv, ClaimSlot PROVE Inv'
  OBVIOUS
<1> USE DEF Inv, ClaimSlot, GetNextToWriteTo, queueVars, consumerVars
<1>1. TypeInv'
  BY TypeStep DEF Next, Writer
<1>2. Waiting' = Waiting /\ Released' = Released /\ Holding' = Holding /\ Reading' = Reading
  BY DEF Waiting, Published, Released, Holding, Reading
<1>3. Len(received) \in Nat /\ Waiting \in Int
  BY DEF TypeInv, TypeOK, Waiting, Published, Released
<1>4. Distance'
  BY <1>2, <1>3 DEF Distance, Paced, Reading, Waiting, Published
<1>5. Indices'
  BY <1>2 DEF Indices
<1>6. Counter'
  BY <1>2 DEF Counter
<1>7. Stored'
  BY <1>2 DEF Stored
<1>8. InOrder' /\ Alive'
  BY DEF InOrder, Alive
<1> QED
  BY <1>1, <1>4, <1>5, <1>6, <1>7, <1>8

(* A word lands in the slot past the waiting elements, which is neither    *)
(* one of theirs nor the one the reader still reads.                       *)
LEMMA InvCopy ==
  ASSUME Inv, NEW w \in Word, CopyWord(w)
  PROVE  Inv'
<1> USE DEF Inv, CopyWord, StoreWord, queueVars, consumerVars
<1>1. TypeInv'
  BY TypeStep DEF Next, Writer
<1>2. Waiting' = Waiting /\ Released' = Released /\ Holding' = Holding /\ Reading' = Reading
  BY DEF Waiting, Published, Released, Holding, Reading
<1>3. /\ Len(received) \in Nat /\ Waiting \in Int /\ wslot \in Slot
      /\ next_read_index \in Slot
      /\ store \in [Slot -> [Word -> Nat \cup {Blank}]]
  BY DEF TypeInv, TypeOK, QueueTypeOK, Waiting, Published, Released
<1>4. Distance'
  BY <1>2 DEF Distance, Published
<1>5. Indices'
  BY <1>2 DEF Indices
<1>6. Counter'
  BY <1>2 DEF Counter
<1>7. ASSUME Reading, NEW k \in 0 .. Waiting - 1
      PROVE  /\ Wrap(next_read_index + k) \in Slot
             /\ Wrap(next_read_index + k) # wslot
  BY <1>3, <1>7 DEF Indices, Distance, Wrap
<1>8. ASSUME Holding
      PROVE  item \in Slot /\ item # wslot
  BY <1>3, <1>8 DEF Indices, Distance, Wrap, Holding, Reading
<1>9. \A s \in Slot : s # wslot => store'[s] = store[s]
  BY <1>3
<1>10. store'[wslot] = [store[wslot] EXCEPT ![w] = i]
  BY <1>3
<1>11. Stored'
  <2>1. (Reading => \A k \in 0 .. Waiting - 1 :
                      store[Wrap(next_read_index + k)] = Whole(Released + k))'
    <3> SUFFICES ASSUME Reading, NEW k \in 0 .. Waiting - 1
                 PROVE  store'[Wrap(next_read_index + k)] = Whole(Released + k)
      BY <1>2 DEF Wrap, Whole
    <3>1. store'[Wrap(next_read_index + k)] = store[Wrap(next_read_index + k)]
      BY <1>7, <1>9
    <3> QED
      BY <3>1 DEF Stored
  <2>2. (Holding => store[item] = Whole(Len(received)))'
    BY <1>2, <1>8, <1>9 DEF Stored, Whole
  <2>3. (wpc = "fill" => \A v \in Word \ wleft : store[wslot][v] = i)'
    BY <1>3, <1>10 DEF Stored
  <2> QED
    BY <2>1, <2>2, <2>3 DEF Stored
<1>12. InOrder' /\ Alive'
  BY DEF InOrder, Alive, Whole
<1> QED
  BY <1>1, <1>4, <1>5, <1>6, <1>11, <1>12

(* The element in the next slot is whole when the write index moves over it. *)
LEMMA InvPublish == Inv /\ PublishItem => Inv'
<1> SUFFICES ASSUME Inv, PublishItem PROVE Inv'
  OBVIOUS
<1> USE DEF Inv, PublishItem, Copied, AdvanceWriteIndex, consumerVars
<1>1. TypeInv'
  BY TypeStep DEF Next, Writer
<1>2. /\ Waiting' = Waiting + 1 /\ Released' = Released
      /\ Holding' = Holding /\ Reading' = Reading
  BY DEF TypeInv, TypeOK, Waiting, Published, Released, Holding, Reading
<1>3. /\ Len(received) \in Nat /\ Waiting \in Int /\ wslot \in Slot
      /\ i \in Nat /\ next_read_index \in Slot /\ next_write_index \in Slot
      /\ Released \in Nat
      /\ store \in [Slot -> [Word -> Nat \cup {Blank}]]
  BY DEF TypeInv, TypeOK, QueueTypeOK, Waiting, Published, Released
<1>4. next_write_index' = Wrap(next_write_index + 1)
  BY <1>3, Advance
<1>5. Distance'
  BY <1>2, <1>3 DEF Distance, Published
<1>6. Indices'
  BY <1>2, <1>3, <1>4 DEF Indices, Distance, Wrap
<1>7. Counter'
  BY <1>2 DEF Counter
<1>8. Released + Waiting = i
  BY <1>3 DEF Waiting, Published
<1>9. Reading => store[Wrap(next_read_index + Waiting)] = Whole(i)
  BY <1>3 DEF Stored, Whole, Indices
<1>10. Stored'
  <2>1. (Reading => \A k \in 0 .. Waiting - 1 :
                      store[Wrap(next_read_index + k)] = Whole(Released + k))'
    <3> SUFFICES ASSUME Reading, NEW k \in 0 .. Waiting
                 PROVE  store[Wrap(next_read_index + k)] = Whole(Released + k)
      <4>1. /\ (Waiting - 1)' = Waiting
            /\ \A k : (store[Wrap(next_read_index + k)] = Whole(Released + k))'
                     <=> store[Wrap(next_read_index + k)] = Whole(Released + k)
        BY <1>2, <1>3 DEF Wrap, Whole
      <4> QED
        BY <1>2, <4>1
    <3>1. CASE k = Waiting
      BY <3>1, <1>8, <1>9
    <3>2. CASE k # Waiting
      BY <3>2, <1>3 DEF Stored
    <3> QED
      BY <3>1, <3>2
  <2> QED
    BY <1>2, <2>1 DEF Stored, Whole
<1>11. InOrder' /\ Alive'
  BY DEF InOrder, Alive, Whole
<1> QED
  BY <1>1, <1>5, <1>6, <1>7, <1>10, <1>11

(* An element is counted in after it is published. *)
LEMMA InvCount == Inv /\ CountItem => Inv'
<1> SUFFICES ASSUME Inv, CountItem PROVE Inv'
  OBVIOUS
<1> USE DEF Inv, CountItem, IncrementSize, consumerVars
<1>1. TypeInv'
  BY TypeStep DEF Next, Writer
<1>2. /\ Waiting' = Waiting /\ Released' = Released /\ Published' = Published
      /\ Holding' = Holding /\ Reading' = Reading
  BY DEF TypeInv, TypeOK, Waiting, Published, Released, Holding, Reading
<1>3. /\ Len(received) \in Nat /\ i \in Nat /\ store_size \in 0 .. SizeMod - 1
  BY DEF TypeInv, TypeOK, QueueTypeOK
<1>4. Distance'
  BY <1>2, <1>3 DEF Distance
<1>5. Indices'
  BY <1>2 DEF Indices
<1>6. ASSUME Reading
      PROVE  store_size + 1 < SizeMod
  BY <1>3, <1>6 DEF Counter, Distance, Waiting, Published, Released, Holding
<1>7. Counter'
  BY <1>2, <1>3, <1>6 DEF Counter
<1>8. Stored'
  BY <1>2 DEF Stored, Whole, Wrap
<1>9. InOrder' /\ Alive'
  BY DEF InOrder, Alive, Whole
<1> QED
  BY <1>1, <1>4, <1>5, <1>7, <1>8, <1>9

-----------------------------------------------------------------------------
(* The reader exits, or has been told of an element. *)
LEMMA InvTest == Inv /\ TestSize => Inv'
<1> SUFFICES ASSUME Inv, TestSize PROVE Inv'
  OBVIOUS
<1> USE DEF Inv, TestSize, NotEmpty, Size, queueVars, writerVars
<1>1. TypeInv'
  BY TypeStep DEF Next, Consumer
<1>2. /\ Waiting' = Waiting /\ Released' = Released /\ Published' = Published
      /\ ~Holding' /\ ~Holding /\ Reading
  BY DEF TypeInv, TypeOK, Waiting, Published, Released, Holding, Reading
<1>3. /\ Len(received) \in Nat /\ i \in Nat /\ store_size \in Nat
  BY DEF TypeInv, TypeOK, QueueTypeOK
<1>4. (cpc = "peek")' => Len(received) < i
  BY <1>2, <1>3 DEF Counter
<1>5. Distance'
  BY <1>2, <1>3, <1>4 DEF Distance
<1>6. Indices'
  BY <1>2 DEF Indices, Wrap
<1>7. Counter'
  BY <1>2 DEF Counter
<1>8. Stored'
  BY <1>2 DEF Stored, Whole, Wrap
<1>9. InOrder' /\ Alive'
  BY DEF InOrder, Alive, Whole
<1> QED
  BY <1>1, <1>5, <1>6, <1>7, <1>8, <1>9

(* The counter told the truth: there is an element to point to. *)
LEMMA ItemThere == Inv /\ cpc = "peek" => next_read_index # next_write_index
<1> SUFFICES ASSUME Inv, cpc = "peek" PROVE next_read_index # next_write_index
  OBVIOUS
<1>1. /\ Len(received) \in Nat /\ i \in Nat /\ next_read_index \in Slot
  BY DEF Inv, TypeInv, TypeOK, QueueTypeOK
<1>2. Waiting \in 1 .. Lead
  <2>1. Waiting \in 0 .. Lead /\ Len(received) < i
    BY DEF Inv, Distance, Reading
  <2>2. Waiting >= i - Len(received)
    BY <1>1 DEF Waiting, Published, Released, Holding
  <2> QED
    BY <1>1, <2>1, <2>2
<1> QED
  BY <1>1, <1>2 DEF Inv, Indices, Wrap, Reading

LEMMA InvPeek == Inv /\ Peek => Inv'
<1> SUFFICES ASSUME Inv, Peek PROVE Inv'
  OBVIOUS
<1> USE DEF Inv, Peek, GetNextToRead, queueVars, writerVars
<1>1. TypeInv'
  BY TypeStep DEF Next, Consumer
<1>2. /\ Waiting' = Waiting /\ Released' = Released /\ Published' = Published
      /\ ~Holding' /\ ~Holding /\ Reading /\ Reading'
  BY DEF TypeInv, TypeOK, Waiting, Published, Released, Holding, Reading
<1>3. Distance'
  BY <1>2 DEF Distance
<1>4. Indices'
  BY <1>2, ItemThere DEF Indices, Wrap
<1>5. Counter'
  BY <1>2 DEF Counter
<1>6. Stored'
  BY <1>2 DEF Stored, Whole, Wrap
<1>7. InOrder' /\ Alive'
  BY DEF InOrder, Alive, Whole
<1> QED
  BY <1>1, <1>3, <1>4, <1>5, <1>6, <1>7

(* The read index moves over the oldest waiting element, which the reader   *)
(* keeps a pointer to.                                                      *)
LEMMA InvRelease == Inv /\ Release => Inv'
<1> SUFFICES ASSUME Inv, Release PROVE Inv'
  OBVIOUS
<1> USE DEF Inv, Release, AdvanceReadIndex, writerVars
<1>1. TypeInv'
  BY TypeStep DEF Next, Consumer
<1>2. /\ Len(received) \in Nat /\ i \in Nat /\ Waiting \in Int
      /\ next_read_index \in Slot /\ Released \in Nat
  BY DEF TypeInv, TypeOK, QueueTypeOK, Waiting, Published, Released
<1>3. /\ Waiting' = Waiting - 1 /\ Released' = Released + 1
      /\ Published' = Published
      /\ ~Holding /\ Holding' /\ Reading /\ Reading' /\ Released = Len(received)
  <2>1. ~Holding /\ Holding' /\ Reading /\ Reading'
    BY DEF Holding, Reading
  <2>2. Published' = Published /\ Released = Len(received) /\ Released' = Released + 1
    BY <2>1 DEF Published, Released
  <2> QED
    BY <1>2, <2>1, <2>2 DEF Waiting, TypeInv, TypeOK, Published
<1>4. next_read_index' = Wrap(next_read_index + 1)
  BY <1>2, Advance
<1>5. Waiting \in 1 .. Lead
  <2>1. Waiting \in 0 .. Lead /\ Len(received) < i
    BY <1>3 DEF Distance
  <2>2. Waiting >= i - Len(received)
    BY <1>2, <1>3 DEF Waiting, Published
  <2> QED
    BY <1>2, <2>1, <2>2
<1>6. Distance'
  BY <1>2, <1>3, <1>5 DEF Distance
<1>7. Indices'
  BY <1>2, <1>3, <1>4, <1>5 DEF Indices, Wrap
<1>8. Counter'
  BY <1>3 DEF Counter
<1>9. Stored'
  <2>1. (Reading => \A k \in 0 .. Waiting - 1 :
                      store[Wrap(next_read_index + k)] = Whole(Released + k))'
    <3> SUFFICES ASSUME NEW k \in 0 .. Waiting - 2
                 PROVE  store[Wrap(next_read_index' + k)] = Whole(Released + 1 + k)
      <4>1. /\ (Waiting - 1)' = Waiting - 2
            /\ \A k : (store[Wrap(next_read_index + k)] = Whole(Released + k))'
                     <=> store[Wrap(next_read_index' + k)] = Whole(Released + 1 + k)
        BY <1>2, <1>3 DEF Wrap, Whole
      <4> QED
        BY <4>1
    <3>1. Wrap(next_read_index' + k) = Wrap(next_read_index + (k + 1))
      BY <1>2, <1>4, <1>5 DEF Wrap
    <3>2. store[Wrap(next_read_index + (k + 1))] = Whole(Released + (k + 1))
      <4>1. k + 1 \in 0 .. Waiting - 1
        BY <1>2
      <4> QED
        BY <1>3, <4>1 DEF Stored
    <3>3. Released + (k + 1) = Released + 1 + k
      BY <1>2
    <3> QED
      BY <3>1, <3>2, <3>3
  <2>2. (Holding => store[item] = Whole(Len(received)))'
    <3>1. store[Wrap(next_read_index + 0)] = Whole(Released + 0)
      BY <1>2, <1>3, <1>5 DEF Stored
    <3>2. Wrap(next_read_index + 0) = item /\ Released + 0 = Len(received)
      BY <1>2, <1>3 DEF Indices, Wrap
    <3> QED
      BY <3>1, <3>2 DEF Whole
  <2> QED
    BY <2>1, <2>2 DEF Stored, Whole
<1>10. InOrder' /\ Alive'
  BY DEF InOrder, Alive, Whole
<1> QED
  BY <1>1, <1>6, <1>7, <1>8, <1>9, <1>10

(* The counter covers the element being released: the ASSERT holds. *)
LEMMA InvCheck == Inv /\ CheckSize => Inv'
<1> SUFFICES ASSUME Inv, CheckSize PROVE Inv'
  OBVIOUS
<1> USE DEF Inv, CheckSize, queueVars, writerVars
<1>1. TypeInv'
  BY TypeStep DEF Next, Consumer
<1>2. Len(received) \in Nat /\ i \in Nat
  BY DEF TypeInv, TypeOK
<1>3. cpc' = "uncount"
  BY <1>2 DEF SizeAssertHolds, Counter, Distance, Reading
<1>4. /\ Waiting' = Waiting /\ Released' = Released /\ Published' = Published
      /\ Holding' /\ Holding /\ Reading /\ Reading'
  BY <1>3 DEF Waiting, Published, Released, Holding, Reading
<1>5. Distance' /\ Indices' /\ Counter'
  BY <1>3, <1>4 DEF Distance, Indices, Counter, Wrap
<1>6. Stored'
  BY <1>3, <1>4 DEF Stored, Whole, Wrap
<1>7. InOrder' /\ Alive'
  BY <1>3 DEF InOrder, Alive, Whole
<1> QED
  BY <1>1, <1>5, <1>6, <1>7

LEMMA InvUncount == Inv /\ Uncount => Inv'
<1> SUFFICES ASSUME Inv, Uncount PROVE Inv'
  OBVIOUS
<1> USE DEF Inv, Uncount, DecrementSize, writerVars
<1>1. TypeInv'
  BY TypeStep DEF Next, Consumer
<1>2. /\ Len(received) \in Nat /\ i \in Nat /\ Published >= i
      /\ store_size \in 0 .. SizeMod - 1
  BY DEF TypeInv, TypeOK, QueueTypeOK, Published
<1>3. /\ Waiting' = Waiting /\ Released' = Released /\ Published' = Published
      /\ Holding' /\ Holding /\ Reading /\ Reading'
  BY DEF Waiting, Published, Released, Holding, Reading
<1>4. Distance'
  <2>1. Published \in Int /\ Len(received) < i
    BY <1>2 DEF Published, Distance
  <2>2. Len(received) < Published
    BY <1>2, <2>1
  <2> QED
    BY <1>3, <2>2 DEF Distance
<1>5. Indices'
  BY <1>3 DEF Indices, Wrap
<1>6. store_size = i - Len(received) /\ Len(received) < i
  BY <1>2, <1>3 DEF Counter, Distance
<1>7. store_size' = store_size - 1
  <2>1. store_size \in 1 .. SizeMod - 1
    BY <1>2, <1>6
  <2> QED
    BY <2>1, WrapDec
<1>8. Counter'
  BY <1>2, <1>6, <1>7 DEF Counter
<1>9. Stored'
  BY <1>3 DEF Stored, Whole, Wrap
<1>10. InOrder' /\ Alive'
  BY DEF InOrder, Alive, Whole
<1> QED
  BY <1>1, <1>4, <1>5, <1>8, <1>9, <1>10

(* The words read are those of the element the pointer was taken for. *)
LEMMA InvRead ==
  ASSUME Inv, NEW w \in Word, ReadWord(w)
  PROVE  Inv'
<1> USE DEF Inv, ReadWord, queueVars, writerVars
<1>1. TypeInv'
  BY TypeStep DEF Next, Consumer
<1>2. /\ Len(received) \in Nat /\ item \in Slot
      /\ got \in [Word -> Nat \cup {Blank}]
  BY DEF TypeInv, TypeOK, Indices, Holding
<1>3. /\ cpc' = "use" /\ cleft' = cleft \ {w}
      /\ got' = [got EXCEPT ![w] = store[item][w]]
  BY <1>2 DEF NullPtr
<1>4. /\ Waiting' = Waiting /\ Released' = Released /\ Published' = Published
      /\ Holding' /\ Holding /\ Reading /\ Reading'
  BY <1>3 DEF Waiting, Published, Released, Holding, Reading
<1>5. Distance' /\ Indices' /\ Counter'
  BY <1>3, <1>4 DEF Distance, Indices, Counter, Wrap
<1>6. store[item][w] = Len(received)
  BY <1>4 DEF Stored, Whole
<1>7. (\A v \in Word \ cleft : got[v] = Len(received))'
  BY <1>2, <1>3, <1>6 DEF Stored
<1>8. Stored'
  BY <1>3, <1>4, <1>7 DEF Stored, Whole, Wrap
<1>9. InOrder' /\ Alive'
  BY <1>3 DEF InOrder, Alive, Whole
<1> QED
  BY <1>1, <1>5, <1>8, <1>9

(* The element printed is the next one, whole. *)
LEMMA InvPrint == Inv /\ PrintItem => Inv'
<1> SUFFICES ASSUME Inv, PrintItem PROVE Inv'
  OBVIOUS
<1> USE DEF Inv, PrintItem, queueVars, writerVars
<1>1. TypeInv'
  BY TypeStep DEF Next, Consumer
<1>2. /\ Len(received) \in Nat /\ i \in Nat /\ Published \in Nat
      /\ got \in [Word -> Nat \cup {Blank}]
      /\ received \in Seq([Word -> Nat \cup {Blank}])
  BY DEF TypeInv, TypeOK, Published
<1>3. /\ Len(received') = Len(received) + 1
      /\ \A k \in 1 .. Len(received) : received'[k] = received[k]
      /\ received'[Len(received) + 1] = got
  BY <1>2
<1>4. /\ Waiting' = Waiting /\ Released' = Released /\ Published' = Published
      /\ ~Holding' /\ Holding /\ Reading /\ Reading'
  BY <1>3 DEF Waiting, Published, Released, Holding, Reading
<1>5. Distance'
  BY <1>4 DEF Distance
<1>6. Indices'
  BY <1>4 DEF Indices, Wrap
<1>7. Counter'
  BY <1>2, <1>3 DEF Counter, Reading
<1>8. Stored'
  BY <1>4 DEF Stored, Whole, Wrap
<1>9. got = Whole(Len(received))
  BY <1>2 DEF Stored, Whole
<1>10. InOrder'
  <2> SUFFICES ASSUME NEW k \in 1 .. Len(received) + 1
               PROVE  received'[k] = Whole(k - 1)
    BY <1>3 DEF InOrder, Whole
  <2>1. CASE k = Len(received) + 1
    BY <2>1, <1>2, <1>3, <1>9
  <2>2. CASE k \in 1 .. Len(received)
    BY <2>2, <1>3 DEF InOrder
  <2> QED
    BY <1>2, <2>1, <2>2
<1>11. Alive'
  BY DEF Alive
<1> QED
  BY <1>1, <1>5, <1>6, <1>7, <1>8, <1>10, <1>11

-----------------------------------------------------------------------------
LEMMA InvStep == Inv /\ [Next]_vars => Inv'
<1> SUFFICES ASSUME Inv, [Next]_vars
             PROVE  Inv'
  OBVIOUS
<1>1. CASE UNCHANGED vars
  <2> USE <1>1 DEF vars, queueVars, writerVars, consumerVars
  <2>1. TypeInv'
    BY TypeStep DEF Inv
  <2>2. /\ Waiting' = Waiting /\ Released' = Released /\ Published' = Published
        /\ Holding' = Holding /\ Reading' = Reading
    BY DEF Waiting, Published, Released, Holding, Reading
  <2>3. Distance' /\ Indices' /\ Counter'
    BY <2>2 DEF Inv, Distance, Indices, Counter, Wrap
  <2>4. Stored'
    BY <2>2 DEF Inv, Stored, Whole, Wrap
  <2>5. InOrder' /\ Alive'
    BY DEF Inv, InOrder, Alive, Whole
  <2> QED
    BY <2>1, <2>3, <2>4, <2>5 DEF Inv
<1>2. CASE Writer
  BY <1>2, InvClaim, InvCopy, InvPublish, InvCount DEF Writer
<1>3. CASE Consumer
  BY <1>3, InvTest, InvPeek, InvRelease, InvCheck, InvUncount, InvRead, InvPrint
     DEF Consumer
<1> QED
  BY <1>1, <1>2, <1>3 DEF Next, Finished

LEMMA Invariance == Spec => []Inv
BY InvInit, InvStep, PTL DEF Spec

(* Whatever the sizes, every element printed is whole and in its turn.      *)
THEOREM DeliversInOrder == Spec => []InOrder
<1>1. Inv => InOrder
  BY DEF Inv
<1> QED
  BY <1>1, Invariance, PTL

(* The writer never stores into the slot the reader reads after releasing   *)
(* it: with Lead < Capacity the two are at least one slot apart.            *)
THEOREM KeepsApart == Spec => []NoSharedSlot
<1>1. Inv => NoSharedSlot
  <2> SUFFICES ASSUME Inv, wpc = "fill", Holding
               PROVE  wslot # item
    BY DEF NoSharedSlot
  <2>1. /\ Waiting \in 0 .. Lead - 1 /\ Reading
        /\ wslot = Wrap(next_read_index + Waiting)
    BY DEF Inv, Distance, Indices, Holding, Reading
  <2>2. item \in Slot /\ next_read_index = Wrap(item + 1)
    BY DEF Inv, Indices
  <2> QED
    BY <2>1, <2>2 DEF Wrap
<1> QED
  BY <1>1, Invariance, PTL

(* updateReadIndex()'s ASSERT never fires and no null pointer is followed.  *)
THEOREM StaysAlive == Spec => []NeverDies
<1>1. Inv => NeverDies
  BY DEF Inv, NeverDies
<1> QED
  BY <1>1, Invariance, PTL

(* The element size() promised is there when getNextToRead() looks for it.  *)
THEOREM CountIsTrue == Spec => []SizeImpliesItem
<1>1. Inv => SizeImpliesItem
  BY ItemThere DEF SizeImpliesItem, GetNextToRead, NullPtr, Inv, TypeInv, TypeOK, QueueTypeOK
<1> QED
  BY <1>1, Invariance, PTL

-----------------------------------------------------------------------------
(* The ring implements the FIFO.                                           *)

(* The elements from number a up to, and without, number b. *)
Run(a, b) == [k \in 1 .. b - a |-> Whole(a + k - 1)]

LEMMA RunIsSeq ==
  ASSUME NEW a \in Nat, NEW b \in Nat, a <= b
  PROVE  Run(a, b) \in Seq([Word -> Nat]) /\ Len(Run(a, b)) = b - a
<1>1. b - a \in Nat /\ \A k \in 1 .. b - a : Whole(a + k - 1) \in [Word -> Nat]
  BY DEF Whole
<1> QED
  BY <1>1, IsASeq DEF Run

LEMMA RunPut ==
  ASSUME NEW a \in Nat, NEW b \in Nat, a <= b
  PROVE  Run(a, b + 1) = Append(Run(a, b), Whole(b))
<1>1. /\ Run(a, b) \in Seq([Word -> Nat]) /\ Len(Run(a, b)) = b - a
      /\ Run(a, b + 1) \in Seq([Word -> Nat]) /\ Len(Run(a, b + 1)) = b - a + 1
      /\ Whole(b) \in [Word -> Nat]
  <2>1. a <= b /\ b + 1 \in Nat /\ a <= b + 1 /\ b + 1 - a = b - a + 1
    OBVIOUS
  <2>2. /\ Run(a, b) \in Seq([Word -> Nat]) /\ Len(Run(a, b)) = b - a
        /\ Run(a, b + 1) \in Seq([Word -> Nat]) /\ Len(Run(a, b + 1)) = b + 1 - a
    <3> DEFINE c == b + 1
    <3>1. c \in Nat /\ a <= c
      BY <2>1
    <3> HIDE DEF c
    <3>2. Run(a, c) \in Seq([Word -> Nat]) /\ Len(Run(a, c)) = c - a
      BY <3>1, RunIsSeq
    <3>3. Run(a, b) \in Seq([Word -> Nat]) /\ Len(Run(a, b)) = b - a
      BY RunIsSeq
    <3> QED
      BY <3>2, <3>3 DEF c
  <2> QED
    BY <2>1, <2>2 DEF Whole
<1> DEFINE longer == Append(Run(a, b), Whole(b))
<1>2. /\ longer \in Seq([Word -> Nat]) /\ Len(longer) = b - a + 1
      /\ \A k \in 1 .. b - a : longer[k] = Run(a, b)[k]
      /\ longer[b - a + 1] = Whole(b)
  BY <1>1, AppendProperties
<1>3. ASSUME NEW k \in 1 .. b - a + 1 PROVE Run(a, b + 1)[k] = longer[k]
  <2>1. Run(a, b + 1)[k] = Whole(a + k - 1)
    BY DEF Run
  <2>2. CASE k \in 1 .. b - a
    BY <1>2, <2>1, <2>2 DEF Run
  <2>3. CASE k = b - a + 1
    <3>1. a + k - 1 = b
      BY <2>3
    <3> QED
      BY <1>2, <2>1, <2>3, <3>1
  <2>4. k \in 1 .. b - a \/ k = b - a + 1
    OBVIOUS
  <2> QED
    BY <2>2, <2>3, <2>4
<1> HIDE DEF longer
<1>4. Run(a, b + 1) = longer
  BY <1>1, <1>2, <1>3, SeqEqual
<1> QED
  BY <1>4 DEF longer

LEMMA RunGet ==
  ASSUME NEW a \in Nat, NEW b \in Nat, a < b
  PROVE  Run(a, b) # <<>> /\ Head(Run(a, b)) = Whole(a) /\ Tail(Run(a, b)) = Run(a + 1, b)
<1>1. /\ Run(a, b) \in Seq([Word -> Nat]) /\ Len(Run(a, b)) = b - a
      /\ Run(a + 1, b) \in Seq([Word -> Nat]) /\ Len(Run(a + 1, b)) = b - a - 1
  <2>1. a <= b /\ a + 1 \in Nat /\ a + 1 <= b /\ b - (a + 1) = b - a - 1
    OBVIOUS
  <2>2. /\ Run(a, b) \in Seq([Word -> Nat]) /\ Len(Run(a, b)) = b - a
        /\ Run(a + 1, b) \in Seq([Word -> Nat]) /\ Len(Run(a + 1, b)) = b - (a + 1)
    BY <2>1, RunIsSeq, Zenon
  <2> QED
    BY <2>1, <2>2
<1>2. Run(a, b) # <<>>
  BY <1>1, EmptySeq
<1>3. /\ Head(Run(a, b)) = Run(a, b)[1]
      /\ Tail(Run(a, b)) \in Seq([Word -> Nat]) /\ Len(Tail(Run(a, b))) = b - a - 1
      /\ \A k \in 1 .. b - a - 1 : Tail(Run(a, b))[k] = Run(a, b)[k + 1]
  BY <1>1, <1>2, HeadTailProperties
<1>4. Run(a, b)[1] = Whole(a)
  BY DEF Run
<1>5. ASSUME NEW k \in 1 .. b - a - 1 PROVE Tail(Run(a, b))[k] = Run(a + 1, b)[k]
  <2>1. k + 1 \in 1 .. b - a /\ a + (k + 1) - 1 = a + 1 + k - 1 /\ k \in 1 .. b - (a + 1)
    OBVIOUS
  <2>2. Run(a, b)[k + 1] = Whole(a + (k + 1) - 1) /\ Run(a + 1, b)[k] = Whole(a + 1 + k - 1)
    BY <2>1 DEF Run
  <2> QED
    BY <1>3, <2>1, <2>2
<1>6. Tail(Run(a, b)) = Run(a + 1, b)
  BY <1>1, <1>3, <1>5, SeqEqual
<1> QED
  BY <1>2, <1>3, <1>4, <1>6

(* As long as the reader reads, the ring holds the elements it has not     *)
(* printed, up to the one published last.                                  *)
ContentsAreRun ==
  /\ Len(received) \in Nat /\ Published \in Nat /\ Len(received) <= Published
  /\ Contents = Run(Len(received), Published)

LEMMA ContentsRun == Inv /\ Reading => ContentsAreRun
<1> SUFFICES ASSUME Inv, Reading PROVE ContentsAreRun
  OBVIOUS
<1> USE DEF ContentsAreRun
<1>1. /\ Len(received) \in Nat /\ i \in Nat /\ Published \in Nat
      /\ next_read_index \in Slot /\ Waiting \in 0 .. Lead
  BY DEF Inv, TypeInv, TypeOK, QueueTypeOK, Published, Distance
<1>2. CASE Holding
  <2>1. /\ Waiting = Published - (Len(received) + 1) /\ Released = Len(received) + 1
        /\ item \in Slot /\ next_read_index = Wrap(item + 1) /\ HeadSlot = item
        /\ store[item] = Whole(Len(received))
    BY <1>2 DEF Inv, Indices, Stored, Waiting, Released, HeadSlot
  <2>2. ASSUME NEW k \in 1 .. Published - Len(received)
        PROVE  store[(HeadSlot + k - 1) % Capacity] = Whole(Len(received) + k - 1)
    <3>1. /\ k - 1 \in 0 .. Capacity - 1
          /\ HeadSlot + k - 1 = HeadSlot + (k - 1)
      BY <1>1, <2>1
    <3>2. (HeadSlot + (k - 1)) % Capacity = Wrap(item + (k - 1))
      BY <2>1, <3>1, Place
    <3>3. CASE k = 1
      <4>1. Wrap(item + (k - 1)) = item /\ Len(received) + k - 1 = Len(received)
        BY <1>1, <2>1, <3>3 DEF Wrap
      <4> QED
        BY <2>1, <3>1, <3>2, <4>1
    <3>4. CASE k # 1
      <4>1. /\ k - 2 \in 0 .. Waiting - 1
            /\ Wrap(item + (k - 1)) = Wrap(next_read_index + (k - 2))
            /\ Released + (k - 2) = Len(received) + k - 1
        BY <1>1, <2>1, <3>1, <3>4 DEF Wrap
      <4>2. store[Wrap(next_read_index + (k - 2))] = Whole(Released + (k - 2))
        BY <4>1 DEF Inv, Stored
      <4> QED
        BY <3>1, <3>2, <4>1, <4>2
    <3> QED
      BY <3>3, <3>4
  <2>3. Len(received) <= Published
    BY <1>1, <2>1
  <2>4. Contents = Run(Len(received), Published)
    BY <2>2 DEF Contents, Run
  <2> QED
    BY <1>1, <2>3, <2>4
<1>3. CASE ~Holding
  <2>1. /\ Waiting = Published - Len(received) /\ Released = Len(received)
        /\ HeadSlot = next_read_index
    BY <1>3 DEF Waiting, Released, HeadSlot
  <2>2. ASSUME NEW k \in 1 .. Published - Len(received)
        PROVE  store[(HeadSlot + k - 1) % Capacity] = Whole(Len(received) + k - 1)
    <3>1. /\ k - 1 \in 0 .. Capacity - 1 /\ k - 1 \in 0 .. Waiting - 1
          /\ HeadSlot + k - 1 = HeadSlot + (k - 1)
          /\ Released + (k - 1) = Len(received) + k - 1
      BY <1>1, <2>1
    <3>2. (HeadSlot + (k - 1)) % Capacity = Wrap(next_read_index + (k - 1))
      BY <1>1, <2>1, <3>1, Place
    <3>3. store[Wrap(next_read_index + (k - 1))] = Whole(Released + (k - 1))
      BY <3>1 DEF Inv, Stored
    <3> QED
      BY <3>1, <3>2, <3>3
  <2>3. Len(received) <= Published
    BY <1>1, <2>1
  <2>4. Contents = Run(Len(received), Published)
    BY <2>2 DEF Contents, Run
  <2> QED
    BY <1>1, <2>3, <2>4
<1> QED
  BY <1>2, <1>3

LEMMA FifoStart == Init => F!FifoInit
<1> SUFFICES ASSUME Init PROVE F!FifoInit
  OBVIOUS
<1>1. Inv
  BY InvInit
<1>2. /\ cpc = "test" /\ wpc = "claim" /\ i = 0 /\ received = <<>>
  BY DEF Init
<1>3. Len(received) = 0 /\ Published = 0
  <2>1. Len(received) = 0
    BY ONLY <1>2, EmptyLen, Zenon
  <2> QED
    BY <1>2, <2>1 DEF Published
<1>4. Contents = Run(0, 0)
  BY <1>1, <1>2, <1>3, ContentsRun DEF Reading, ContentsAreRun
<1>5. Run(0, 0) = <<>>
  BY RunIsSeq, EmptySeq
<1> QED
  BY <1>2, <1>4, <1>5 DEF F!FifoInit

(* A step that publishes nothing, prints nothing and does not end the      *)
(* reader is none of the FIFO's.                                           *)
LEMMA FifoStutter ==
  ASSUME Inv, Inv', Published' = Published, received' = received,
         (cpc = "exit")' <=> cpc = "exit"
  PROVE  UNCHANGED F!fifoVars
<1>1. CASE cpc = "exit"
  BY <1>1 DEF F!fifoVars
<1>2. CASE cpc # "exit"
  <2>1. Contents = Run(Len(received), Published)
    BY <1>2, ContentsRun DEF Reading, ContentsAreRun
  <2>2. Contents' = Run(Len(received), Published)'
    <3>1. Reading'
      BY <1>2 DEF Reading
    <3>2. ContentsAreRun'
      BY <3>1, ContentsRun, PTL
    <3> QED
      BY <3>2 DEF ContentsAreRun
  <2>3. Run(Len(received), Published)' = Run(Len(received), Published)
    BY DEF Run, Whole
  <2> QED
    BY <1>2, <2>1, <2>2, <2>3 DEF F!fifoVars
<1> QED
  BY <1>1, <1>2

(* An element enters the FIFO with the write index.                        *)
LEMMA FifoPut ==
  ASSUME Inv, Inv', PublishItem, Reading
  PROVE  F!FifoNext
<1>1. /\ ContentsAreRun /\ ContentsAreRun'
  <2>1. Reading'
    BY DEF Reading, PublishItem, consumerVars
  <2> QED
    BY <2>1, ContentsRun, PTL
<1>2. /\ received' = received /\ Published' = Published + 1 /\ Published = i /\ i < Items
      /\ cpc # "exit" /\ cpc' = cpc /\ i \in Nat
  BY DEF PublishItem, consumerVars, Published, Reading, Inv, TypeInv, TypeOK, LoopBound
<1>3. Contents' = Append(Contents, Whole(Published))
  <2>1. Contents' = Run(Len(received), Published + 1)
    BY <1>1, <1>2 DEF ContentsAreRun, Run, Whole
  <2> QED
    BY <1>1, <2>1, RunPut DEF ContentsAreRun
<1>4. Whole(Published) \in Elements
  BY <1>2 DEF Elements
<1>5. F!Put(Whole(Published))
  BY <1>2, <1>3 DEF F!Put
<1> QED
  BY <1>4, <1>5 DEF F!FifoNext

(* It leaves the FIFO when it is printed, as the oldest.                   *)
LEMMA FifoGet ==
  ASSUME Inv, Inv', PrintItem
  PROVE  F!FifoNext
<1>1. cpc = "use" /\ cpc' = "test" /\ received' = Append(received, got) /\ Published' = Published
  BY DEF PrintItem, Published, writerVars
<1>2. ContentsAreRun /\ ContentsAreRun'
  <2>1. Reading /\ Reading'
    BY <1>1 DEF Reading
  <2> QED
    BY <2>1, ContentsRun, PTL
<1>3. Len(received) < Published /\ got = Whole(Len(received))
  BY <1>1 DEF Inv, Distance, Stored, PrintItem, Whole, TypeInv, TypeOK
<1>4. Contents # <<>> /\ Head(Contents) = got /\ Tail(Contents) = Run(Len(received) + 1, Published)
  BY <1>2, <1>3, RunGet DEF ContentsAreRun
<1>5. Contents' = Run(Len(received) + 1, Published)
  <2>1. Len(received') = Len(received) + 1
    BY <1>1 DEF Inv, TypeInv, TypeOK
  <2> QED
    BY <1>1, <1>2, <2>1 DEF ContentsAreRun, Run, Whole
<1>6. F!Get
  BY <1>1, <1>4, <1>5 DEF F!Get
<1> QED
  BY <1>6 DEF F!FifoNext

(* The reader leaves when the counter is zero: then at most one element is *)
(* published, the one still being counted in.                              *)
LEMMA FifoLeave ==
  ASSUME Inv, TestSize, cpc' = "exit"
  PROVE  F!FifoNext
<1>1. cpc = "test" /\ store_size = 0 /\ received' = received
  BY DEF TestSize, NotEmpty, Size
<1>2. ContentsAreRun
  BY <1>1, ContentsRun DEF Reading
<1>3. Published - Len(received) \in 0 .. 1
  BY <1>1, <1>2 DEF ContentsAreRun, Inv, Counter, Reading, Published, TypeInv, TypeOK
<1>4. Len(Contents) <= 1
  <2>1. Len(Run(Len(received), Published)) = Published - Len(received)
    BY <1>2, RunIsSeq, Zenon DEF ContentsAreRun
  <2> QED
    BY <1>2, <1>3, <2>1 DEF ContentsAreRun
<1>5. F!Leave
  BY <1>1, <1>4 DEF F!Leave
<1> QED
  BY <1>5 DEF F!FifoNext

LEMMA FifoStep ==
  ASSUME Inv, Inv', [Next]_vars
  PROVE  [F!FifoNext]_F!fifoVars
<1>1. CASE \/ ClaimSlot \/ (\E w \in Word : CopyWord(w)) \/ CountItem
           \/ Peek \/ Release \/ CheckSize \/ Uncount \/ (\E w \in Word : ReadWord(w))
           \/ UNCHANGED vars
  <2>1. Published' = Published
    <3>1. i \in Nat
      BY DEF Inv, TypeInv, TypeOK
    <3> QED
      BY <1>1, <3>1 DEF Published, ClaimSlot, CopyWord, CountItem, Peek, Release, CheckSize, Uncount,
             ReadWord, vars, writerVars
  <2>2. received' = received
    BY <1>1 DEF ClaimSlot, CopyWord, CountItem, Peek, Release, CheckSize, Uncount,
           ReadWord, vars, consumerVars
  <2>3. (cpc = "exit")' <=> cpc = "exit"
    BY <1>1 DEF ClaimSlot, CopyWord, CountItem, Peek, Release, CheckSize, Uncount,
           ReadWord, vars, consumerVars
  <2> QED
    BY <2>1, <2>2, <2>3, FifoStutter
<1>2. CASE PublishItem
  <2>1. CASE Reading
    BY <1>2, <2>1, FifoPut
  <2>2. CASE ~Reading
    <3>1. cpc = "exit" /\ cpc' = "exit" /\ received' = received
      BY <1>2, <2>2 DEF PublishItem, consumerVars, Reading
    <3> QED
      BY <3>1 DEF F!fifoVars
  <2> QED
    BY <2>1, <2>2
<1>3. CASE TestSize
  <2>1. CASE cpc' = "exit"
    BY <1>3, <2>1, FifoLeave
  <2>2. CASE cpc' # "exit"
    <3>1. Published' = Published /\ received' = received /\ cpc = "test"
      BY <1>3 DEF TestSize, Published, writerVars
    <3> QED
      BY <2>2, <3>1, FifoStutter
  <2> QED
    BY <2>1, <2>2
<1>4. CASE PrintItem
  BY <1>4, FifoGet
<1> QED
  BY <1>1, <1>2, <1>3, <1>4 DEF Next, Writer, Consumer, Finished

(* The two threads over their ring implement the FIFO of module Fifo.      *)
THEOREM IsFifo == Spec => ImplementsFifo
<1>1. Inv /\ Inv' /\ [Next]_vars => [F!FifoNext]_F!fifoVars
  BY FifoStep
<1> QED
  BY <1>1, FifoStart, Invariance, PTL DEF Spec, ImplementsFifo, F!FifoSpec

=============================================================================

------------------------- MODULE LoggingProgram_proof -------------------------
(***************************************************************************)
(* Proofs about the ring buffer and the binary logger, as the two tests of *)
(* LoggingProgram run them: for every number of slots, of elements, of     *)
(* cells and of messages.                                                  *)
(***************************************************************************)
EXTENDS LoggingProgram, SequenceTheorems, Lemmas

USE SlotsAssumption, SizeModAssumption, FileAssumption

-----------------------------------------------------------------------------
(* The ring.                                                               *)

(* Elements counted in, and counted out. *)
Counted == IF wpc = "push" THEN pushed ELSE pushed - 1
Popped == IF rpc \in {"move", "count"} THEN Len(got) - 1 ELSE Len(got)

(* The counter is the difference, and the reader goes on only after it has *)
(* seen an element in it.                                                  *)
RingCounter ==
  /\ wpc # "push" => pushed > 0
  /\ rpc \in {"move", "count"} => Len(got) > 0
  /\ Popped <= Counted
  /\ rpc # "test" => Popped < Counted
  /\ size_ = Counted - Popped

(* The indices, although they go round, know the elements by number. *)
RingIndices ==
  /\ write_index_ = (IF wpc = "move" THEN pushed - 1 ELSE pushed) % Slots
  /\ read_index_ = (IF rpc = "move" THEN Len(got) - 1 ELSE Len(got)) % Slots

(* The slot of element n holds n, or what has overwritten it: one of the   *)
(* elements that come a number of whole rounds later.                      *)
Held(n) == buffer_[(n - 1) % Slots]

RingContents ==
  \A n \in 1 .. pushed :
    /\ Held(n) \in n .. pushed
    /\ (Held(n) - 1) % Slots = (n - 1) % Slots
    /\ pushed - n < Slots => Held(n) = n

RingInv ==
  /\ RingTypeOK
  /\ RingCounter
  /\ RingIndices
  /\ RingContents
  /\ ~lapped => pushed - Len(got) <= Slots
  /\ LossyFifo

USE DEF Slot, NextIndex

LEMMA RingStart == RingInit => RingInv
<1> SUFFICES ASSUME RingInit PROVE RingInv
  OBVIOUS
<1>1. Len(got) = 0
  <2>1. got = <<>>
    BY DEF RingInit
  <2> QED
    BY ONLY EmptyLen, <2>1, Zenon
<1>2. RingTypeOK
  <2>1. 0 \in 0 .. MaxPushes /\ 0 \in 0 .. SizeMod - 1 /\ <<>> \in Seq(Nat)
    BY EmptySeq
  <2>2. /\ size_ = 0 /\ read_index_ = 0 /\ write_index_ = 0 /\ wpc = "push" /\ rpc = "test"
        /\ pushed = 0 /\ got = <<>> /\ buffer_ = [i \in Slot |-> 0] /\ lapped \in BOOLEAN
    BY ONLY RingInit, Zenon DEF RingInit
  <2>3. buffer_ \in [Slot -> Nat] /\ 0 \in Slot
    BY <2>2
  <2> QED
    BY <2>1, <2>2, <2>3 DEF RingTypeOK
<1>3. 0 % Slots = 0
  OBVIOUS
<1> QED
  BY <1>1, <1>2, <1>3
     DEF RingInit, RingInv, RingCounter, Counted, Popped, RingIndices, RingContents, LossyFifo

(* The writer stores the next element over whatever its slot held: over    *)
(* one that shares its slot, and so over none of the last Slots - 1.       *)
LEMMA RingPush == RingInv /\ PushInto => RingInv'
<1> SUFFICES ASSUME RingInv, PushInto PROVE RingInv'
  OBVIOUS
<1>1. /\ buffer_ \in [Slot -> Nat] /\ pushed \in Nat /\ Len(got) \in Nat
      /\ pushed < MaxPushes /\ wpc = "push" /\ wpc' = "move"
      /\ pushed' = pushed + 1 /\ write_index_ = pushed % Slots /\ write_index_ \in Slot
      /\ buffer_' = [buffer_ EXCEPT ![write_index_] = pushed + 1]
      /\ UNCHANGED <<size_, read_index_, write_index_, rpc, got>>
  BY DEF PushInto, RingInv, RingTypeOK, RingIndices
<1>2. RingTypeOK'
  BY <1>1 DEF RingInv, RingTypeOK, PushInto
<1>3. RingCounter' /\ RingIndices'
  BY <1>1 DEF RingInv, RingCounter, RingIndices, Counted, Popped
<1>4. RingContents'
  <2> SUFFICES ASSUME NEW n \in 1 .. pushed'
               PROVE  /\ Held(n)' \in n .. pushed'
                      /\ (Held(n)' - 1) % Slots = (n - 1) % Slots
                      /\ pushed' - n < Slots => Held(n)' = n
    BY DEF RingContents, Held
  <2>1. (n - 1) % Slots \in Slot
    BY <1>1
  <2>2. CASE (n - 1) % Slots = write_index_
    <3>1. Held(n)' = pushed + 1
      BY <1>1, <2>1, <2>2 DEF Held
    <3>2. (Held(n)' - 1) % Slots = (n - 1) % Slots
      BY <1>1, <2>2, <3>1
    <3>3. pushed + 1 - n < Slots => n = pushed + 1
      <4>1. PICK m \in Nat : m = n - 1 /\ m <= pushed
        BY <1>1
      <4>2. m % Slots = pushed % Slots
        BY <1>1, <2>2, <4>1
      <4>3. m < pushed => pushed - m >= Slots
        BY <1>1, <4>2, RoundApart
      <4> QED
        BY <1>1, <4>1, <4>3
    <3> QED
      BY <1>1, <3>1, <3>2, <3>3
  <2>3. CASE (n - 1) % Slots # write_index_
    <3>1. Held(n)' = Held(n) /\ n # pushed + 1
      BY <1>1, <2>1, <2>3 DEF Held
    <3>2. /\ Held(n) \in n .. pushed
          /\ (Held(n) - 1) % Slots = (n - 1) % Slots
          /\ pushed - n < Slots => Held(n) = n
      BY <1>1, <3>1 DEF RingInv, RingContents
    <3> QED
      BY <1>1, <3>1, <3>2
  <2> QED
    BY <2>2, <2>3
<1>5. ~lapped' => pushed' - Len(got') <= Slots /\ ~lapped
  <2> SUFFICES ASSUME ~lapped' PROVE pushed' - Len(got') <= Slots /\ ~lapped
    OBVIOUS
  <2>1. ~lapped /\ ~(pushed - Len(got) >= Slots)
    BY ONLY PushInto, ~lapped', Zenon DEF PushInto
  <2> QED
    BY <1>1, <2>1
<1>6. LossyFifo'
  BY <1>1, <1>5 DEF RingInv, LossyFifo
<1> QED
  BY <1>2, <1>3, <1>4, <1>5, <1>6 DEF RingInv

LEMMA RingMoveWrite == RingInv /\ MoveWriteIndex => RingInv'
<1> SUFFICES ASSUME RingInv, MoveWriteIndex PROVE RingInv'
  OBVIOUS
<1> USE DEF MoveWriteIndex
<1>1. /\ pushed \in Nat /\ pushed > 0 /\ Len(got) \in Nat
      /\ write_index_ = (pushed - 1) % Slots
  BY DEF RingInv, RingTypeOK, RingCounter, RingIndices
<1>2. write_index_' = pushed % Slots /\ write_index_' \in Slot
  <2>1. pushed \in Nat \ {0} /\ Slots \in Nat \ {0}
    BY <1>1
  <2>2. /\ (((pushed - 1) % Slots) + 1) % Slots = pushed % Slots
        /\ pushed % Slots \in 0 .. Slots - 1
    BY ONLY <2>1, WrapNext, Zenon
  <2> QED
    BY ONLY <1>1, <2>2, MoveWriteIndex, Zenon DEF MoveWriteIndex, NextIndex, Slot
<1>3. RingTypeOK'
  BY <1>2 DEF RingInv, RingTypeOK
<1>4. RingCounter' /\ RingIndices'
  BY <1>2 DEF RingInv, RingCounter, RingIndices, Counted, Popped
<1>5. RingContents' /\ LossyFifo'
  BY DEF RingInv, RingContents, Held, LossyFifo
<1> QED
  BY <1>3, <1>4, <1>5 DEF RingInv

LEMMA RingCountPush == RingInv /\ CountPush => RingInv'
<1> SUFFICES ASSUME RingInv, CountPush PROVE RingInv'
  OBVIOUS
<1> USE DEF CountPush
<1>1. /\ pushed \in 1 .. MaxPushes /\ Len(got) \in Nat /\ size_ \in 0 .. SizeMod - 1
      /\ size_ = pushed - 1 - Popped /\ Popped \in Nat /\ Popped <= pushed - 1
  BY DEF RingInv, RingTypeOK, RingCounter, Counted, Popped
<1>2. size_' = size_ + 1 /\ size_' \in 0 .. SizeMod - 1
  BY <1>1, WrapInc
<1>3. RingTypeOK'
  BY <1>2 DEF RingInv, RingTypeOK
<1>4. RingCounter'
  <2>1. Counted' = pushed /\ Popped' = Popped /\ Counted = pushed - 1
    BY DEF Counted, Popped
  <2> QED
    BY <1>1, <1>2, <2>1 DEF RingInv, RingCounter
<1>6. RingIndices'
  BY DEF RingInv, RingIndices
<1>5. RingContents' /\ LossyFifo'
  BY DEF RingInv, RingContents, Held, LossyFifo
<1> QED
  BY <1>3, <1>4, <1>5, <1>6 DEF RingInv

LEMMA RingTest == RingInv /\ TestSize => RingInv'
<1> SUFFICES ASSUME RingInv, TestSize PROVE RingInv'
  OBVIOUS
<1> USE DEF TestSize
<1>1. RingTypeOK'
  BY DEF RingInv, RingTypeOK
<1>2. RingCounter'
  <2>1. size_ = Counted - Len(got) /\ Counted \in Int /\ Len(got) \in Nat /\ size_ > 0
    BY DEF RingInv, RingTypeOK, RingCounter, Counted, Popped
  <2>2. Counted' = Counted /\ Popped' = Len(got) /\ Popped = Len(got)
    BY DEF Counted, Popped
  <2> QED
    BY <2>1, <2>2 DEF RingInv, RingCounter
<1>4. RingIndices'
  BY DEF RingInv, RingIndices
<1>3. RingContents' /\ LossyFifo'
  BY DEF RingInv, RingContents, Held, LossyFifo
<1> QED
  BY <1>1, <1>2, <1>3, <1>4 DEF RingInv

(* The k-th read is of the slot of element k, which has been pushed. *)
LEMMA RingPop == RingInv /\ PopNext => RingInv'
<1> SUFFICES ASSUME RingInv, PopNext PROVE RingInv'
  OBVIOUS
<1> USE DEF PopNext
<1> DEFINE k == Len(got) + 1
<1>1. /\ pushed \in Nat /\ Len(got) \in Nat /\ k \in 1 .. pushed
      /\ k - 1 = Len(got)
      /\ read_index_ = (k - 1) % Slots /\ read_index_ \in Slot
      /\ buffer_ \in [Slot -> Nat] /\ got \in Seq(Nat)
  <2>1. /\ pushed \in Nat /\ got \in Seq(Nat) /\ read_index_ \in Slot
        /\ buffer_ \in [Slot -> Nat]
    BY DEF RingInv, RingTypeOK
  <2>2. Len(got) \in Nat /\ k - 1 = Len(got)
    BY <2>1
  <2>3. read_index_ = Len(got) % Slots
    BY DEF RingInv, RingIndices
  <2>4. Len(got) < pushed
    BY <2>1, <2>2 DEF RingInv, RingCounter, Counted, Popped
  <2> QED
    BY <2>1, <2>2, <2>3, <2>4
<1>2. /\ Len(got') = k /\ got' \in Seq(Nat)
      /\ \A n \in 1 .. Len(got) : got'[n] = got[n]
      /\ got'[k] = Held(k)
  BY <1>1, AppendProperties DEF Held
<1>3. RingTypeOK'
  BY <1>2 DEF RingInv, RingTypeOK
<1>4. RingCounter' /\ RingIndices'
  BY <1>1, <1>2 DEF RingInv, RingCounter, RingIndices, Counted, Popped
<1>5. RingContents'
  BY DEF RingInv, RingContents, Held
<1>6. LossyFifo'
  <2>1. Held(k) \in k .. pushed /\ (Held(k) - 1) % Slots = (k - 1) % Slots
    BY <1>1 DEF RingInv, RingContents
  <2>2. Held(k) % Slots = k % Slots
    <3>1. Held(k) \in Nat \ {0} /\ k \in Nat \ {0}
      BY <1>1, <2>1
    <3> HIDE DEF k
    <3>2. /\ (((Held(k) - 1) % Slots) + 1) % Slots = Held(k) % Slots
          /\ (((k - 1) % Slots) + 1) % Slots = k % Slots
      BY ONLY <3>1, SlotsAssumption, WrapNext
    <3> QED
      BY ONLY <2>1, <3>2
  <2>3. lapped \/ Held(k) = k
    BY <1>1 DEF RingInv, RingContents
  <2> SUFFICES ASSUME NEW n \in 1 .. k
               PROVE  /\ got'[n] >= n /\ got'[n] % Slots = n % Slots
                      /\ lapped \/ got'[n] = n
    BY <1>2 DEF LossyFifo
  <2>4. CASE n = k
    BY <1>1, <1>2, <2>1, <2>2, <2>3, <2>4
  <2>5. CASE n \in 1 .. Len(got)
    BY <1>2, <2>5 DEF RingInv, LossyFifo
  <2>6. n = k \/ n \in 1 .. Len(got)
    BY ONLY <1>1, n \in 1 .. k
  <2> QED
    BY <2>4, <2>5, <2>6
<1>7. ~lapped' => pushed' - Len(got') <= Slots
  BY <1>1, <1>2 DEF RingInv
<1> QED
  BY <1>3, <1>4, <1>5, <1>6, <1>7 DEF RingInv

LEMMA RingMoveRead == RingInv /\ MoveReadIndex => RingInv'
<1> SUFFICES ASSUME RingInv, MoveReadIndex PROVE RingInv'
  OBVIOUS
<1> USE DEF MoveReadIndex
<1>1. /\ pushed \in Nat /\ Len(got) \in Nat /\ Len(got) > 0
      /\ read_index_ = (Len(got) - 1) % Slots
  BY DEF RingInv, RingTypeOK, RingCounter, RingIndices
<1>2. read_index_' = Len(got) % Slots /\ read_index_' \in Slot
  <2>1. Len(got) \in Nat \ {0} /\ Slots \in Nat \ {0}
    BY <1>1
  <2>2. /\ (((Len(got) - 1) % Slots) + 1) % Slots = Len(got) % Slots
        /\ Len(got) % Slots \in 0 .. Slots - 1
    BY ONLY <2>1, WrapNext, Zenon
  <2> QED
    BY ONLY <1>1, <2>2, MoveReadIndex, Zenon DEF MoveReadIndex, NextIndex, Slot
<1>3. RingTypeOK'
  BY <1>2 DEF RingInv, RingTypeOK
<1>4. RingCounter' /\ RingIndices'
  BY <1>2 DEF RingInv, RingCounter, RingIndices, Counted, Popped
<1>5. RingContents' /\ LossyFifo'
  BY DEF RingInv, RingContents, Held, LossyFifo
<1> QED
  BY <1>3, <1>4, <1>5 DEF RingInv

LEMMA RingCountPop == RingInv /\ CountPop => RingInv'
<1> SUFFICES ASSUME RingInv, CountPop PROVE RingInv'
  OBVIOUS
<1> USE DEF CountPop, OneLess
<1>1. /\ pushed \in Nat /\ Len(got) \in Nat /\ Len(got) > 0
      /\ size_ \in 1 .. SizeMod - 1 /\ Popped = Len(got) - 1
      /\ size_ = Counted - Popped /\ Counted \in Nat
  BY DEF RingInv, RingTypeOK, RingCounter, Counted, Popped
<1>2. size_' = size_ - 1 /\ size_' \in 0 .. SizeMod - 1
  <2>1. SizeMod \in Nat \ {0}
    BY <1>1
  <2>2. (size_ + SizeMod - 1) % SizeMod = size_ - 1
    BY ONLY <1>1, <2>1, WrapDec
  <2> QED
    BY <1>1, <2>2
<1>3. RingTypeOK'
  BY <1>2 DEF RingInv, RingTypeOK
<1>4. RingCounter'
  <2>1. Counted' = Counted /\ Popped' = Len(got)
    BY DEF Counted, Popped
  <2> QED
    BY <1>1, <1>2, <2>1 DEF RingInv, RingCounter
<1>6. RingIndices'
  BY DEF RingInv, RingIndices
<1>5. RingContents' /\ LossyFifo'
  BY DEF RingInv, RingContents, Held, LossyFifo
<1> QED
  BY <1>3, <1>4, <1>5, <1>6 DEF RingInv

LEMMA RingStep == RingInv /\ [RingNext]_ringVars => RingInv'
<1> SUFFICES ASSUME RingInv, UNCHANGED ringVars PROVE RingInv'
  BY RingPush, RingMoveWrite, RingCountPush, RingTest, RingPop, RingMoveRead,
     RingCountPop DEF RingNext
<1> QED
  BY DEF ringVars, RingInv, RingTypeOK, RingCounter, Counted, Popped, RingIndices,
         RingContents, Held, LossyFifo

-----------------------------------------------------------------------------
(* The logger.                                                             *)

(* What the constructor's failures leave behind: without one, the number   *)
(* in fd_ is the logger's own, and the mapping is there.                   *)
LogDescriptor ==
  /\ lpc = "down" => holder = "nobody"
  /\ lpc = "truncate" => holder # "other"
  /\ lpc = "map" => holder = "logger" \/ failed
  /\ lpc \in {"up", "payload"} => (holder = "logger" /\ mmap_ptr_ = "mapped") \/ failed
  /\ HarmsOnlyAfterFailure

(* A message whose length is stored is there while its bytes are copied,   *)
(* and after a kill in the middle of that; its bytes have room.            *)
LogRoom ==
  /\ lpc \notin {"down", "payload"} => writing = <<>>
  /\ lpc = "payload" => writing # <<>>
  /\ writing # <<>> => write_pos_ > 0 /\ write_pos_ + Len(Bytes) <= FileSize

LogInv == LogTypeOK /\ LogDescriptor /\ LogRoom

LEMMA MessageIsSeq ==
  ASSUME NEW m \in Message
  PROVE  /\ m \in Seq(Nat) /\ Len(m) \in 0 .. MaxLen
         /\ m = [i \in 1 .. Len(m) |-> m[i]]
<1>1. PICK n \in 0 .. MaxLen : m \in [1 .. n -> 1 .. MaxLogs]
  <2>1. CASE m \in [1 .. 0 -> {}]
    <3>1. m \in [1 .. 0 -> 1 .. MaxLogs]
      BY <2>1
    <3> QED
      BY <3>1
  <2>2. CASE m \in UNION {[1 .. n -> 1 .. MaxLogs] : n \in 1 .. MaxLen}
    <3>1. PICK n \in 1 .. MaxLen : m \in [1 .. n -> 1 .. MaxLogs]
      BY <2>2
    <3> QED
      BY <3>1
  <2> QED
    BY <2>1, <2>2 DEF Message
<1>2. m \in Seq(1 .. MaxLogs) /\ Len(m) = n
  BY <1>1
<1> QED
  BY <1>1, <1>2

LEMMA NewMessage ==
  ASSUME NEW len \in 0 .. MaxLen, NEW b \in 1 .. MaxLogs
  PROVE  [i \in 1 .. len |-> b] \in Message
<1>1. CASE len = 0
  BY <1>1 DEF Message
<1>2. CASE len \in 1 .. MaxLen
  <2>1. [i \in 1 .. len |-> b] \in [1 .. len -> 1 .. MaxLogs]
    OBVIOUS
  <2> QED
    BY <1>2, <2>1 DEF Message
<1> QED
  BY <1>1, <1>2

(* The cut to 32 bits takes bytes from the end, and none from a short      *)
(* message.                                                                *)
LEMMA Cut ==
  ASSUME NEW n \in Nat
  PROVE  /\ Len32(n) \in 0 .. n
         /\ n < LenMod => Len32(n) = n
<1> USE LenModAssumption
<1>1. /\ n % LenMod \in 0 .. LenMod - 1 /\ n \div LenMod \in Nat
      /\ n = LenMod * (n \div LenMod) + (n % LenMod)
  BY Division
<1>2. LenMod * (n \div LenMod) \in Nat
  BY <1>1
<1>3. CASE n < LenMod
  BY <1>3 DEF Len32
<1>4. CASE n >= LenMod
  BY <1>1, <1>2, <1>4 DEF Len32
<1> QED
  BY <1>3, <1>4

LEMMA RecordedMessage ==
  ASSUME NEW m \in Message
  PROVE  /\ Recorded(m) \in Message
         /\ Len(Recorded(m)) = Len32(Len(m))
         /\ DOMAIN Recorded(m) = 1 .. Len(Recorded(m))
         /\ Recorded(m) = Kept(m)
<1> DEFINE n == Len32(Len(m))
<1>1. PICK l \in 0 .. MaxLen : m \in [1 .. l -> 1 .. MaxLogs] /\ Len(m) = l
  <2>1. CASE m \in [1 .. 0 -> {}]
    <3>1. m \in [1 .. 0 -> 1 .. MaxLogs] /\ Len(m) = 0
      BY <2>1
    <3> QED
      BY <3>1
  <2>2. CASE m \in UNION {[1 .. k -> 1 .. MaxLogs] : k \in 1 .. MaxLen}
    <3>1. PICK k \in 1 .. MaxLen : m \in [1 .. k -> 1 .. MaxLogs]
      BY <2>2
    <3> QED
      BY <3>1
  <2> QED
    BY <2>1, <2>2 DEF Message
<1>2. n \in 0 .. l /\ (l < LenMod => n = l)
  BY <1>1, Cut
<1> HIDE DEF n
<1>3. Recorded(m) = SubSeq(m, 1, n)
  BY DEF Recorded, n
<1>4. SubSeq(m, 1, n) = [i \in 1 .. n |-> m[i]] /\ Len(SubSeq(m, 1, n)) = n
  <2>1. m \in Seq(1 .. MaxLogs)
    BY <1>1
  <2>2. \A i \in 1 .. n : m[i] \in 1 .. MaxLogs
    BY <1>1, <1>2
  <2> QED
    BY <1>2, <2>1, <2>2, SubSeqProperties, SMTT(30)
<1>5. SubSeq(m, 1, n) \in Message
  <2>1. [i \in 1 .. n |-> m[i]] \in [1 .. n -> 1 .. MaxLogs]
    BY <1>1, <1>2
  <2>2. CASE n = 0
    BY <1>4, <2>2 DEF Message
  <2>3. CASE n \in 1 .. MaxLen
    BY <1>4, <2>1, <2>3 DEF Message
  <2> QED
    BY <1>1, <1>2, <2>2, <2>3
<1>6. SubSeq(m, 1, n) = Kept(m)
  <2>1. CASE Len(m) < LenMod
    <3>1. m = [i \in 1 .. l |-> m[i]] /\ n = l
      BY <1>1, <1>2, <2>1
    <3> QED
      BY <1>4, <2>1, <3>1 DEF Kept
  <2>2. CASE ~(Len(m) < LenMod)
    BY <2>2 DEF Kept, n, Len32
  <2> QED
    BY <2>1, <2>2
<1> QED
  BY <1>3, <1>4, <1>5, <1>6 DEF n

LEMMA OneMessage ==
  ASSUME NEW m \in Message
  PROVE  <<m>> \in Seq(Message) /\ Len(<<m>>) = 1 /\ <<m>>[1] = m /\ <<m>> # <<>>
OBVIOUS

(* The message that is on its way. *)
LEMMA Pending ==
  ASSUME LogTypeOK, writing # <<>>
  PROVE  /\ Len(writing) = 1 /\ writing[1] \in Message
         /\ Bytes \in Message /\ Bytes = Kept(writing[1])
         /\ Len(Bytes) \in Nat /\ DOMAIN Bytes = 1 .. Len(Bytes)
         /\ \A i \in DOMAIN Bytes : Bytes[i] \in Nat
<1>1. writing \in Seq(Message) /\ Len(writing) <= 1
  BY DEF LogTypeOK
<1>2. Len(writing) = 1 /\ writing[1] \in Message
  <2>1. Len(writing) \in Nat
    BY <1>1
  <2>2. Len(writing) # 0
    BY ONLY <1>1, writing # <<>>, EmptySeq, Zenon
  <2>3. Len(writing) = 1 /\ 1 \in 1 .. Len(writing)
    <3>1. \A n \in Nat : n <= 1 /\ n # 0 => n = 1 /\ 1 \in 1 .. n
      OBVIOUS
    <3> QED
      BY ONLY <1>1, <2>1, <2>2, <3>1, Zenon
  <2> QED
    BY <1>1, <2>3, ElementOfSeq
<1>3. /\ Bytes \in Message /\ Bytes = Kept(writing[1])
      /\ DOMAIN Bytes = 1 .. Len(Bytes)
  BY <1>2, RecordedMessage DEF Bytes
<1>4. Bytes \in Seq(Nat) /\ Len(Bytes) \in Nat
  BY <1>3, MessageIsSeq
<1> QED
  BY <1>2, <1>3, <1>4, ElementOfSeq

LEMMA CopiedTyped ==
  ASSUME LogTypeOK, writing # <<>>, NEW places \in SUBSET DOMAIN Bytes
  PROVE  Copied(places) \in [Cell -> Nat]
<1>1. \A i \in places : Bytes[i] \in Nat
  BY Pending
<1>2. file \in [Cell -> Nat]
  BY DEF LogTypeOK
<1> QED
  BY <1>1, <1>2 DEF Copied

LEMMA NoMessage == <<>> \in Message /\ <<>> \in Seq(Message) /\ Len(<<>>) = 0
BY EmptySeq DEF Message

LEMMA LogStart == LogInit => LogInv
<1> SUFFICES ASSUME LogInit PROVE LogInv
  OBVIOUS
<1>1. <<>> \in Message /\ <<>> \in Seq(Message) /\ 0 \in 0 .. FileSize /\ 1 \in 1 .. MaxLogs + 1
  BY NoMessage
<1>2. [p \in Cell |-> 0] \in [Cell -> Nat]
  OBVIOUS
<1>3. writing \in Seq(Message) /\ Len(writing) <= 1 /\ logged \in Seq(Message)
  <2>1. writing = <<>> /\ logged = <<>>
    BY DEF LogInit
  <2> QED
    BY <1>1, <2>1, NoMessage
<1>4. LogTypeOK
  BY <1>1, <1>2, <1>3 DEF LogInit, LogTypeOK
<1>5. LogDescriptor
  BY DEF LogInit, LogDescriptor, HarmsOnlyAfterFailure
<1>6. LogRoom
  BY DEF LogInit, LogRoom
<1> QED
  BY <1>4, <1>5, <1>6 DEF LogInv

LEMMA LogOpen == LogInv /\ Open => LogInv'
<1> SUFFICES ASSUME LogInv, Open PROVE LogInv'
  OBVIOUS
<1> USE DEF LogInv, Open
<1>1. LogTypeOK'
  <2>1. 0 \in 0 .. FileSize /\ <<>> \in Seq(Message) /\ Len(<<>>) <= 1
    BY NoMessage
  <2>2. failed' \in BOOLEAN /\ robbed' \in BOOLEAN
    BY ONLY Open, Zenon DEF Open
  <2> QED
    BY <2>1, <2>2 DEF LogTypeOK
<1>2. LogDescriptor'
  BY DEF LogTypeOK, LogDescriptor, HarmsOnlyAfterFailure
<1>3. LogRoom'
  BY EmptySeq DEF LogTypeOK, LogRoom
<1> QED
  BY <1>1, <1>2, <1>3

LEMMA LogTruncate == LogInv /\ Truncate => LogInv'
<1> SUFFICES ASSUME LogInv, Truncate PROVE LogInv'
  OBVIOUS
<1> USE DEF LogInv, Truncate
<1>1. LogTypeOK'
  BY DEF LogTypeOK
<1>2. LogDescriptor'
  BY DEF LogTypeOK, LogDescriptor, HarmsOnlyAfterFailure
<1>3. LogRoom'
  BY DEF LogTypeOK, LogRoom, Bytes
<1> QED
  BY <1>1, <1>2, <1>3

LEMMA LogMap == LogInv /\ Map => LogInv'
<1> SUFFICES ASSUME LogInv, Map PROVE LogInv'
  OBVIOUS
<1> USE DEF LogInv, Map, AfterMap
<1>1. LogTypeOK'
  BY DEF LogTypeOK
<1>2. LogDescriptor'
  BY DEF LogTypeOK, LogDescriptor, HarmsOnlyAfterFailure
<1>3. LogRoom'
  BY DEF LogTypeOK, LogRoom, Bytes
<1> QED
  BY <1>1, <1>2, <1>3

LEMMA LogLength == ASSUME NEW size \in 0 .. MaxLen PROVE LogInv /\ Log(size) => LogInv'
<1> SUFFICES ASSUME LogInv, Log(size) PROVE LogInv'
  OBVIOUS
<1>1. CASE lpc' # "payload"
  <2>1. /\ UNCHANGED <<file, write_pos_, writing, fd_, holder, mmap_ptr_, logged, old>>
        /\ lpc = "up" /\ lpc' \in {"up", "segv"}
        /\ UNCHANGED failed /\ UNCHANGED robbed
    BY <1>1 DEF Log
  <2>2. next' \in 1 .. MaxLogs + 1
    BY <1>1 DEF Log, LogInv, LogTypeOK
  <2>3. LogTypeOK'
    BY <2>1, <2>2 DEF LogInv, LogTypeOK
  <2>4. LogDescriptor'
    BY <1>1 DEF Log, LogInv, LogTypeOK, LogDescriptor, HarmsOnlyAfterFailure
  <2>5. LogRoom'
    BY <2>1 DEF LogInv, LogRoom, Bytes
  <2> QED
    BY <2>3, <2>4, <2>5 DEF LogInv
<1>2. CASE lpc' = "payload"
  <2> DEFINE m == [i \in 1 .. size |-> next]
  <2>1. /\ next \in 1 .. MaxLogs /\ next' = next + 1 /\ write_pos_' = write_pos_ + 1
        /\ write_pos_ + 1 + Len32(size) <= FileSize /\ write_pos_ \in Nat
        /\ lpc = "up" /\ mmap_ptr_ = "mapped" /\ writing' = <<m>>
        /\ file' = [p \in Cell |-> IF p = write_pos_ + 1 THEN Len32(size) ELSE file[p]]
        /\ UNCHANGED <<fd_, holder, mmap_ptr_, logged, old>>
        /\ UNCHANGED failed /\ UNCHANGED robbed
    BY <1>2 DEF Log, Fits, LogInv, LogTypeOK
  <2>2. m \in Message /\ Len(m) = size
    <3>1. m \in Message
      BY <2>1, NewMessage
    <3>2. size \in Nat
      OBVIOUS
    <3> QED
      BY <3>1, <3>2
  <2> HIDE DEF m
  <2>3. Len32(size) \in Nat
    BY Cut
  <2>4. Len(Bytes') = Len32(size)
    <3>1. writing'[1] = m
      BY <2>1, <2>2, OneMessage
    <3> QED
      BY <2>2, <3>1, RecordedMessage DEF Bytes
  <2>5. writing' \in Seq(Message) /\ Len(writing') <= 1 /\ writing' # <<>>
    BY <2>1, <2>2, OneMessage
  <2>6. file' \in [Cell -> Nat]
    BY <2>1, <2>3 DEF LogInv, LogTypeOK
  <2>7. LogTypeOK'
    <3>1. write_pos_' \in 0 .. FileSize /\ next' \in 1 .. MaxLogs + 1
      BY <2>1, <2>3
    <3> QED
      BY <1>2, <2>1, <2>5, <2>6, <3>1 DEF LogInv, LogTypeOK
  <2>8. LogDescriptor'
    BY <1>2, <2>1 DEF LogInv, LogTypeOK, LogDescriptor, HarmsOnlyAfterFailure
  <2>9. LogRoom'
    BY <1>2, <2>1, <2>3, <2>4, <2>5 DEF LogRoom
  <2> QED
    BY <2>7, <2>8, <2>9 DEF LogInv
<1> QED
  BY <1>1, <1>2

LEMMA LogBytes == LogInv /\ LogPayload => LogInv'
<1> SUFFICES ASSUME LogInv, LogPayload PROVE LogInv'
  OBVIOUS
<1> USE DEF LogInv, LogPayload
<1>0. writing # <<>>
  BY DEF LogRoom
<1>1. LogTypeOK'
  <2>1. write_pos_' \in 0 .. FileSize
    BY <1>0, Pending DEF LogTypeOK, LogRoom
  <2>2. file' \in [Cell -> Nat]
    BY <1>0, CopiedTyped
  <2>3. logged' \in Seq(Message)
    BY <1>0, Pending, AppendProperties DEF LogTypeOK
  <2>4. writing' \in Seq(Message) /\ Len(writing') <= 1
    BY NoMessage
  <2> QED
    BY <2>1, <2>2, <2>3, <2>4 DEF LogTypeOK
<1>2. LogDescriptor'
  BY DEF LogTypeOK, LogDescriptor, HarmsOnlyAfterFailure
<1>3. LogRoom'
  BY DEF LogRoom
<1> QED
  BY <1>1, <1>2, <1>3

LEMMA LogDestroy == LogInv /\ Destroy => LogInv'
<1> SUFFICES ASSUME LogInv, Destroy PROVE LogInv'
  OBVIOUS
<1> USE DEF LogInv, Destroy
<1>1. LogTypeOK'
  BY DEF LogTypeOK
<1>2. LogDescriptor'
  BY DEF LogTypeOK, LogDescriptor, HarmsOnlyAfterFailure
<1>3. LogRoom'
  BY DEF LogTypeOK, LogRoom, Bytes
<1> QED
  BY <1>1, <1>2, <1>3

LEMMA LogOther == LogInv /\ OpenOther => LogInv'
<1> SUFFICES ASSUME LogInv, OpenOther PROVE LogInv'
  OBVIOUS
<1> USE DEF LogInv, OpenOther
<1>1. LogTypeOK'
  BY DEF LogTypeOK
<1>2. LogDescriptor'
  BY DEF LogTypeOK, LogDescriptor, HarmsOnlyAfterFailure
<1>3. LogRoom'
  BY DEF LogTypeOK, LogRoom, Bytes
<1> QED
  BY <1>1, <1>2, <1>3

LEMMA LogRestart == LogInv /\ Restart => LogInv'
<1> SUFFICES ASSUME LogInv, Restart PROVE LogInv'
  OBVIOUS
<1> USE DEF LogInv, Restart
<1>1. LogTypeOK'
  <2>1. file' \in [Cell -> Nat]
    <3>1. CASE lpc = "payload"
      BY <3>1, CopiedTyped DEF LogRoom
    <3>2. CASE lpc # "payload"
      BY <3>2 DEF LogTypeOK
    <3> QED
      BY <3>1, <3>2
  <2> QED
    BY <2>1 DEF LogTypeOK
<1>2. LogDescriptor'
  BY DEF LogTypeOK, LogDescriptor, HarmsOnlyAfterFailure
<1>3. LogRoom'
  BY DEF LogTypeOK, LogRoom, Bytes
<1> QED
  BY <1>1, <1>2, <1>3

LEMMA LogStep == LogInv /\ [LogNext]_logVars => LogInv'
<1> SUFFICES ASSUME LogInv, UNCHANGED logVars PROVE LogInv'
  BY LogOpen, LogTruncate, LogMap, LogLength, LogBytes, LogDestroy, LogOther, LogRestart
     DEF LogNext
<1> QED
  BY DEF logVars, LogInv, LogTypeOK, LogDescriptor, LogRoom, Bytes, HarmsOnlyAfterFailure

-----------------------------------------------------------------------------
(* Reading a file back.                                                    *)

(* Records is defined by a function that calls itself further on in the    *)
(* file.  From is that function, for any file and any end of the records,  *)
(* and FromBody the right side of its equation.                            *)
FromBody(f, w, from, p) ==
  IF p >= w \/ p = FileSize THEN <<>>
  ELSE LET after == p + 1 + f[p + 1]
       IN  IF after > FileSize THEN <<>>
           ELSE <<SubSeq(f, p + 2, after)>> \o from[after]

From(f, w) == CHOOSE from : from = [p \in 0 .. FileSize |-> FromBody(f, w, from, p)]

LEMMA RecordsFrom == ASSUME NEW end PROVE Records(end) = From(file, end)[0]
BY Zenon DEF Records, From, FromBody

(* There is such a function: it can be built from the end of the file.     *)
LEMMA FromExists ==
  ASSUME NEW f \in [Cell -> Nat], NEW w \in Nat
  PROVE  \E from : from = [p \in 0 .. FileSize |-> FromBody(f, w, from, p)]
<1> DEFINE Right(from, m) ==
             \A p \in 0 .. FileSize : p >= FileSize - m => from[p] = FromBody(f, w, from, p)
           T == {m \in Nat : \E from : from = [p \in 0 .. FileSize |-> from[p]] /\ Right(from, m)}
<1>1. 0 \in T
  <2> DEFINE from == [p \in 0 .. FileSize |-> <<>>]
  <2>1. Right(from, 0)
    BY DEF FromBody
  <2> QED
    BY <2>1
<1>2. ASSUME NEW m \in T PROVE m + 1 \in T
  <2>0. m \in Nat /\ m + 1 \in Nat
    OBVIOUS
  <2>1. PICK from : from = [p \in 0 .. FileSize |-> from[p]] /\ Right(from, m)
    OBVIOUS
  <2> DEFINE q == FileSize - (m + 1)
             more == [p \in 0 .. FileSize |-> IF p = q THEN FromBody(f, w, from, q) ELSE from[p]]
  <2>2. ASSUME NEW p \in 0 .. FileSize, p >= q
        PROVE  FromBody(f, w, more, p) = FromBody(f, w, from, p)
    <3>1. CASE p >= w \/ p = FileSize
      BY <3>1 DEF FromBody
    <3>2. CASE ~(p >= w \/ p = FileSize)
      <4> DEFINE after == p + 1 + f[p + 1]
      <4>1. p + 1 \in Cell /\ f[p + 1] \in Nat
        BY <3>2 DEF Cell
      <4>2. after > FileSize \/ more[after] = from[after]
        BY <2>2, <4>1
      <4> HIDE DEF more
      <4> QED
        BY <3>2, <4>2 DEF FromBody
    <3> QED
      BY <3>1, <3>2
  <2>3. Right(more, m + 1)
    <3> SUFFICES ASSUME NEW p \in 0 .. FileSize, p >= q
                 PROVE  more[p] = FromBody(f, w, more, p)
      OBVIOUS
    <3>1. FromBody(f, w, more, p) = FromBody(f, w, from, p)
      BY <2>2
    <3>2. CASE p = q
      BY <3>1, <3>2
    <3>3. CASE p # q
      <4>1. p >= FileSize - m
        BY <2>0, <3>3
      <4> QED
        BY <2>1, <3>1, <3>3, <4>1
    <3> QED
      BY <3>2, <3>3
  <2>4. more = [p \in 0 .. FileSize |-> more[p]]
    OBVIOUS
  <2> HIDE DEF more
  <2>5. \E g : g = [p \in 0 .. FileSize |-> g[p]] /\ Right(g, m + 1)
    BY <2>3, <2>4, Zenon
  <2> QED
    BY <2>0, <2>5
<1>3. FileSize \in T
  <2> HIDE DEF T
  <2>1. T \subseteq Nat
    BY DEF T
  <2> QED
    BY <1>1, <1>2, <2>1, SetInduction
<1>4. PICK from : from = [p \in 0 .. FileSize |-> from[p]] /\ Right(from, FileSize)
  BY <1>3
<1>5. from = [p \in 0 .. FileSize |-> FromBody(f, w, from, p)]
  BY <1>4
<1> QED
  BY <1>5

LEMMA FromUnfold ==
  ASSUME NEW f \in [Cell -> Nat], NEW w \in Nat, NEW p \in 0 .. FileSize
  PROVE  From(f, w)[p] = FromBody(f, w, From(f, w), p)
<1>1. From(f, w) = [q \in 0 .. FileSize |-> FromBody(f, w, From(f, w), q)]
  BY FromExists DEF From
<1> QED
  BY <1>1

-----------------------------------------------------------------------------
(* The file up to w holds the messages ms, one after the other: the record *)
(* of ms[k] begins behind cell start[k].                                   *)

Whole(f, p, q, m) ==
  /\ q = p + 1 + Len(m)
  /\ f[p + 1] = Len(m)
  /\ \A i \in 1 .. Len(m) : f[p + 1 + i] = m[i]

Starts(f, w, ms, start) ==
  /\ start[1] = 0 /\ start[Len(ms) + 1] = w
  /\ \A k \in 1 .. Len(ms) : start[k + 1] <= w /\ Whole(f, start[k], start[k + 1], ms[k])

Laid(f, w, ms) == \E start \in [1 .. Len(ms) + 1 -> 0 .. FileSize] : Starts(f, w, ms, start)

LEMMA LaidNone == ASSUME NEW f PROVE Laid(f, 0, <<>>)
<1> DEFINE start == [k \in 1 .. 1 |-> 0]
<1>1. Len(<<>>) = 0 /\ start \in [1 .. 0 + 1 -> 0 .. FileSize] /\ Starts(f, 0, <<>>, start)
  BY NoMessage DEF Starts
<1> QED
  BY <1>1 DEF Laid

(* Only the cells up to w matter. *)
LEMMA LaidSame ==
  ASSUME NEW f, NEW g, NEW w \in 0 .. FileSize, NEW ms \in Seq(Message),
         Laid(f, w, ms), \A c \in 1 .. w : g[c] = f[c]
  PROVE  Laid(g, w, ms)
<1>1. PICK start \in [1 .. Len(ms) + 1 -> 0 .. FileSize] : Starts(f, w, ms, start)
  BY DEF Laid
<1>2. ASSUME NEW k \in 1 .. Len(ms) PROVE Whole(g, start[k], start[k + 1], ms[k])
  <2>1. /\ start[k] \in Nat /\ start[k + 1] \in Nat /\ start[k + 1] <= w
        /\ Whole(f, start[k], start[k + 1], ms[k])
    <3>1. k \in 1 .. Len(ms) + 1 /\ k + 1 \in 1 .. Len(ms) + 1
      OBVIOUS
    <3>2. start[k] \in 0 .. FileSize /\ start[k + 1] \in 0 .. FileSize
      BY <3>1
    <3> QED
      BY <1>1, <3>2 DEF Starts
  <2>2. Len(ms[k]) \in Nat
    BY ElementOfSeq, MessageIsSeq
  <2>3. start[k] + 1 \in 1 .. w /\ \A i \in 1 .. Len(ms[k]) : start[k] + 1 + i \in 1 .. w
    <3>1. start[k + 1] = start[k] + 1 + Len(ms[k])
      BY ONLY <2>1 DEF Whole
    <3>2. \A x, y, n \in Nat : y = x + 1 + n /\ y <= w =>
            x + 1 \in 1 .. w /\ \A i \in 1 .. n : x + 1 + i \in 1 .. w
      BY ONLY w \in 0 .. FileSize, FileAssumption
    <3> QED
      BY ONLY <2>1, <2>2, <3>1, <3>2
  <2> QED
    BY <2>1, <2>3 DEF Whole
<1>3. Starts(g, w, ms, start)
  BY <1>1, <1>2 DEF Starts
<1> QED
  BY <1>3 DEF Laid

(* A record more. *)
LEMMA LaidMore ==
  ASSUME NEW f, NEW g, NEW w \in 0 .. FileSize, NEW ms \in Seq(Message), NEW m \in Message,
         Laid(f, w, ms), \A c \in 1 .. w : g[c] = f[c],
         NEW v \in 0 .. FileSize, Whole(g, w, v, m)
  PROVE  Laid(g, v, Append(ms, m))
<1>1. Laid(g, w, ms)
  BY LaidSame
<1>2. PICK start \in [1 .. Len(ms) + 1 -> 0 .. FileSize] : Starts(g, w, ms, start)
  BY <1>1 DEF Laid
<1> DEFINE more == [k \in 1 .. Len(ms) + 2 |-> IF k = Len(ms) + 2 THEN v ELSE start[k]]
<1>3. /\ Len(ms) \in Nat
      /\ Len(Append(ms, m)) = Len(ms) + 1
      /\ \A k \in 1 .. Len(ms) : Append(ms, m)[k] = ms[k]
      /\ Append(ms, m)[Len(ms) + 1] = m
  BY AppendProperties
<1>4. w <= v
  BY MessageIsSeq DEF Whole
<1>5. more \in [1 .. Len(Append(ms, m)) + 1 -> 0 .. FileSize]
  BY <1>3
<1>6. more[1] = 0 /\ more[Len(Append(ms, m)) + 1] = v
  BY <1>2, <1>3 DEF Starts
<1>7. ASSUME NEW k \in 1 .. Len(ms) + 1
      PROVE  more[k + 1] <= v /\ Whole(g, more[k], more[k + 1], Append(ms, m)[k])
  <2>1. CASE k = Len(ms) + 1
    <3>1. more[k] = w /\ more[k + 1] = v /\ Append(ms, m)[k] = m
      BY <1>2, <1>3, <2>1 DEF Starts
    <3> HIDE DEF more
    <3> QED
      BY <3>1
  <2>2. CASE k \in 1 .. Len(ms)
    <3>1. /\ more[k] = start[k] /\ more[k + 1] = start[k + 1]
          /\ Append(ms, m)[k] = ms[k] /\ start[k + 1] \in Nat
      BY <1>3, <2>2
    <3>2. start[k + 1] <= w /\ Whole(g, start[k], start[k + 1], ms[k])
      BY <1>2, <2>2 DEF Starts
    <3> HIDE DEF more
    <3> QED
      BY <1>4, <3>1, <3>2
  <2>3. k = Len(ms) + 1 \/ k \in 1 .. Len(ms)
    BY <1>3
  <2> QED
    BY <2>1, <2>2, <2>3
<1> HIDE DEF more
<1>8. Starts(g, v, Append(ms, m), more)
  BY <1>3, <1>6, <1>7 DEF Starts
<1> QED
  BY <1>5, <1>8 DEF Laid

(* What was laid down is what is read. *)
LEMMA LaidRead ==
  ASSUME NEW f \in [Cell -> Nat], NEW w \in 0 .. FileSize, NEW ms \in Seq(Message),
         Laid(f, w, ms)
  PROVE  From(f, w)[0] = ms
<1>1. PICK start \in [1 .. Len(ms) + 1 -> 0 .. FileSize] : Starts(f, w, ms, start)
  BY DEF Laid
<1> DEFINE n == Len(ms)
           T == {j \in Nat : j <= n => From(f, w)[start[n + 1 - j]] = SubSeq(ms, n + 1 - j, n)}
<1>2. n \in Nat
  OBVIOUS
<1>3. 0 \in T
  <2>1. From(f, w)[w] = FromBody(f, w, From(f, w), w)
    BY FromUnfold
  <2>2. From(f, w)[w] = <<>>
    BY <2>1 DEF FromBody
  <2>3. start[n + 1 - 0] = w /\ n + 1 - 0 = n + 1
    BY <1>1, <1>2 DEF Starts
  <2>4. SubSeq(ms, n + 1, n) = <<>>
    BY <1>2, SubSeqEmpty
  <2> QED
    BY <2>2, <2>3, <2>4
<1>4. ASSUME NEW j \in T PROVE j + 1 \in T
  <2>0. j \in Nat /\ j + 1 \in Nat
    OBVIOUS
  <2> SUFFICES ASSUME j + 1 <= n
               PROVE  From(f, w)[start[n + 1 - (j + 1)]] = SubSeq(ms, n + 1 - (j + 1), n)
    BY <2>0, Zenon
  <2>1. j \in Nat /\ From(f, w)[start[n + 1 - j]] = SubSeq(ms, n + 1 - j, n)
    BY <1>2
  <2>2. PICK k \in 1 .. n : k = n + 1 - (j + 1) /\ k + 1 = n + 1 - j
    BY <1>2, <2>1
  <2> DEFINE p == start[k]
             q == start[k + 1]
             m == ms[k]
  <2>3. /\ p \in 0 .. FileSize /\ q \in 0 .. FileSize /\ q <= w
        /\ Whole(f, p, q, m)
    <3>1. k \in 1 .. Len(ms) + 1 /\ k + 1 \in 1 .. Len(ms) + 1
      BY <1>2
    <3>2. start[k] \in 0 .. FileSize /\ start[k + 1] \in 0 .. FileSize
      BY <3>1
    <3> QED
      BY <1>1, <3>2 DEF Starts
  <2>4. m \in Message /\ m \in Seq(Nat) /\ Len(m) \in Nat
    BY ElementOfSeq, MessageIsSeq
  <2>5. From(f, w)[q] = SubSeq(ms, k + 1, n)
    BY <2>1, <2>2
  <2> HIDE DEF p, q, m
  <2>6. p < w /\ p < FileSize /\ p + 1 + f[p + 1] = q
    BY <2>3, <2>4 DEF Whole
  <2>7. SubSeq(f, p + 2, q) = m
    <3>1. \A i \in p + 2 .. q : f[i] \in Nat
      BY <2>3 DEF Cell
    <3>2. /\ SubSeq(f, p + 2, q) \in Seq(Nat)
          /\ Len(SubSeq(f, p + 2, q)) = IF p + 2 <= q THEN q - (p + 2) + 1 ELSE 0
          /\ \A i \in 1 .. q - (p + 2) + 1 : SubSeq(f, p + 2, q)[i] = f[p + 2 + i - 1]
      <4>1. p + 2 \in Int /\ q \in Int
        BY <2>3
      <4> QED
        BY ONLY <3>1, <4>1, SubSeqProperties, SMTT(30)
    <3>3. q - (p + 2) + 1 = Len(m) /\ (p + 2 <= q <=> Len(m) # 0)
      BY <2>3, <2>4 DEF Whole
    <3>4. Len(SubSeq(f, p + 2, q)) = Len(m)
      BY <2>4, <3>2, <3>3
    <3>5. ASSUME NEW i \in 1 .. Len(m) PROVE SubSeq(f, p + 2, q)[i] = m[i]
      <4>1. p + 2 + i - 1 = p + 1 + i
        BY <2>3
      <4> QED
        BY <2>3, <3>2, <3>3, <4>1 DEF Whole
    <3> QED
      BY <2>4, <3>2, <3>4, <3>5, SeqEqual
  <2>8. From(f, w)[p] = <<m>> \o From(f, w)[q]
    <3>1. From(f, w)[p] = FromBody(f, w, From(f, w), p)
      BY <2>3, FromUnfold
    <3>2. ~(p >= w \/ p = FileSize) /\ ~(q > FileSize)
      BY <2>3, <2>6
    <3> QED
      BY <2>6, <2>7, <3>1, <3>2 DEF FromBody
  <2>9. <<m>> \o SubSeq(ms, k + 1, n) = SubSeq(ms, k, n)
    BY <1>2, <2>4, SubSeqRecursiveFirst DEF m
  <2> QED
    BY <2>2, <2>5, <2>8, <2>9 DEF p
<1>5. n \in T
  <2> HIDE DEF T
  <2>1. T \subseteq Nat
    BY DEF T
  <2> QED
    BY <1>2, <1>3, <1>4, <2>1, SetInduction
<1>6. From(f, w)[start[1]] = SubSeq(ms, 1, n)
  <2>1. n + 1 - n = 1 /\ n <= n
    BY <1>2
  <2> QED
    BY <1>5, <2>1
<1> QED
  BY <1>1, <1>6, SubSeqFull DEF Starts

-----------------------------------------------------------------------------
(* The format.                                                             *)

(* The messages of this run lie in the file up to write_pos_, or up to the *)
(* length that has been stored for the next one, which may be there in     *)
(* parts; the rest of the file is as this run found it.                    *)
End == write_pos_ - Len(writing)
KeptOf(ms) == [k \in DOMAIN ms |-> Kept(ms[k])]

LengthStored == writing # <<>> => file[write_pos_] = Len(Bytes)

Behind(f, p) ==
  \/ f[p] = old[p]
  \/ writing # <<>> /\ p - write_pos_ \in DOMAIN Bytes /\ f[p] = Bytes[p - write_pos_]

FileFormat ==
  /\ Laid(file, End, KeptOf(logged))
  /\ LengthStored
  /\ \A p \in write_pos_ + 1 .. FileSize : Behind(file, p)

LEMMA KeptMessages ==
  ASSUME NEW ms \in Seq(Message)
  PROVE  KeptOf(ms) \in Seq(Message)
<1>1. \A k \in DOMAIN ms : Kept(ms[k]) \in Message
  BY RecordedMessage, ElementOfSeq
<1>2. DOMAIN ms = 1 .. Len(ms) /\ Len(ms) \in Nat
  OBVIOUS
<1> QED
  BY <1>1, <1>2 DEF KeptOf

LEMMA KeptMore ==
  ASSUME NEW ms \in Seq(Message), NEW m \in Message
  PROVE  KeptOf(Append(ms, m)) = Append(KeptOf(ms), Kept(m))
<1>1. KeptOf(ms) \in Seq(Message)
  BY KeptMessages
<1>2. Len(KeptOf(ms)) = Len(ms) /\ Len(ms) \in Nat
  BY DEF KeptOf
<1>3. /\ Append(ms, m) \in Seq(Message)
      /\ DOMAIN Append(ms, m) = 1 .. Len(ms) + 1
      /\ \A k \in 1 .. Len(ms) : Append(ms, m)[k] = ms[k]
      /\ Append(ms, m)[Len(ms) + 1] = m
  BY <1>2, AppendProperties
<1>4. Kept(m) \in Message
  BY RecordedMessage
<1>5. /\ Append(KeptOf(ms), Kept(m)) \in Seq(Message)
      /\ DOMAIN Append(KeptOf(ms), Kept(m)) = 1 .. Len(ms) + 1
      /\ \A k \in 1 .. Len(ms) : Append(KeptOf(ms), Kept(m))[k] = KeptOf(ms)[k]
      /\ Append(KeptOf(ms), Kept(m))[Len(ms) + 1] = Kept(m)
  BY <1>1, <1>2, <1>4, AppendProperties
<1>6. Append(KeptOf(ms), Kept(m)) = [k \in 1 .. Len(ms) + 1 |-> Append(KeptOf(ms), Kept(m))[k]]
  <2> DEFINE s == Append(KeptOf(ms), Kept(m))
  <2>1. s \in Seq(Message) /\ DOMAIN s = 1 .. Len(ms) + 1
    BY <1>5
  <2> HIDE DEF s
  <2>2. s = [k \in DOMAIN s |-> s[k]]
    BY <2>1
  <2> QED
    BY <2>1, <2>2 DEF s
<1>7. \A k \in 1 .. Len(ms) : KeptOf(ms)[k] = Kept(ms[k])
  BY <1>2 DEF KeptOf
<1>8. ASSUME NEW k \in 1 .. Len(ms) + 1
      PROVE  Append(KeptOf(ms), Kept(m))[k] = Kept(Append(ms, m)[k])
  <2>1. CASE k = Len(ms) + 1
    BY <1>3, <1>5, <2>1
  <2>2. CASE k \in 1 .. Len(ms)
    BY <1>3, <1>5, <1>7, <2>2
  <2> QED
    BY <1>2, <2>1, <2>2
<1>9. KeptOf(Append(ms, m)) = [k \in 1 .. Len(ms) + 1 |-> Kept(Append(ms, m)[k])]
  BY <1>3 DEF KeptOf
<1> QED
  BY <1>6, <1>8, <1>9

(* The records end in the file. *)
LEMMA EndTyped ==
  ASSUME LogInv
  PROVE  /\ End \in 0 .. FileSize /\ write_pos_ \in 0 .. FileSize
         /\ writing = <<>> => End = write_pos_
         /\ writing # <<>> => End = write_pos_ - 1 /\ write_pos_ \in Cell
<1>1. CASE writing = <<>>
  BY <1>1, NoMessage DEF LogInv, LogTypeOK, End
<1>2. CASE writing # <<>>
  BY <1>2, Pending DEF LogInv, LogTypeOK, LogRoom, End, Cell
<1> QED
  BY <1>1, <1>2 DEF LogInv, LogTypeOK

LEMMA FormatStart == LogInit => FileFormat
<1> SUFFICES ASSUME LogInit PROVE FileFormat
  OBVIOUS
<1>1. End = 0 /\ writing = <<>>
  <2>1. write_pos_ = 0 /\ writing = <<>>
    BY DEF LogInit
  <2>2. Len(writing) = 0
    BY <2>1, NoMessage
  <2>3. write_pos_ - Len(writing) = 0
    <3>1. write_pos_ = 0
      BY <2>1
    <3> QED
      BY ONLY <2>2, <3>1
  <2> QED
    BY ONLY <2>1, <2>3, Zenon DEF End
<1>2. KeptOf(logged) = <<>>
  BY DEF LogInit, KeptOf
<1>3. Laid(file, End, KeptOf(logged))
  BY <1>1, <1>2, LaidNone
<1>4. file = old
  BY DEF LogInit
<1> QED
  BY <1>1, <1>3, <1>4 DEF FileFormat, LengthStored, Behind

LEMMA FormatFrame ==
  ASSUME FileFormat, UNCHANGED <<file, write_pos_, old, logged, writing>>
  PROVE  FileFormat'
BY DEF FileFormat, End, KeptOf, LengthStored, Behind, Bytes

LEMMA FormatOpen == LogInv /\ FileFormat /\ Open => FileFormat'
<1> SUFFICES ASSUME Open PROVE FileFormat'
  OBVIOUS
<1>1. /\ write_pos_' = 0 /\ logged' = <<>> /\ writing' = <<>> /\ old' = file /\ file' = file
  BY DEF Open
<1>2. End' = 0
  <2>1. Len(writing') = 0
    BY <1>1, NoMessage
  <2>2. write_pos_' - Len(writing') = 0
    <3>1. write_pos_' = 0
      BY <1>1
    <3> QED
      BY ONLY <2>1, <3>1
  <2> QED
    BY ONLY <2>2, Zenon DEF End
<1>3. KeptOf(logged') = <<>>
  BY <1>1 DEF KeptOf
<1>4. Laid(file', End', KeptOf(logged'))
  BY <1>2, <1>3, LaidNone
<1> QED
  BY <1>1, <1>4 DEF FileFormat, LengthStored, Behind

LEMMA FormatLength ==
  ASSUME NEW size \in 0 .. MaxLen
  PROVE  LogInv /\ FileFormat /\ Log(size) => FileFormat'
<1> SUFFICES ASSUME LogInv, FileFormat, Log(size) PROVE FileFormat'
  OBVIOUS
<1>1. CASE lpc' # "payload"
  <2>1. UNCHANGED <<file, write_pos_, old, logged, writing>>
    BY <1>1 DEF Log
  <2> QED
    BY <2>1, FormatFrame
<1>2. CASE lpc' = "payload"
  <2> DEFINE m == [i \in 1 .. size |-> next]
  <2>1. /\ write_pos_ \in 0 .. FileSize /\ write_pos_ + 1 + Len32(size) <= FileSize
        /\ writing = <<>> /\ write_pos_' = write_pos_ + 1 /\ writing' = <<m>>
        /\ file' = [p \in Cell |-> IF p = write_pos_ + 1 THEN Len32(size) ELSE file[p]]
        /\ logged' = logged /\ old' = old
        /\ logged \in Seq(Message) /\ next \in 1 .. MaxLogs
    BY <1>2 DEF Log, Fits, LogInv, LogTypeOK, LogRoom
  <2>2. m \in Message /\ Len(m) = size
    <3>1. m \in Message
      BY <2>1, NewMessage
    <3>2. size \in Nat
      OBVIOUS
    <3> QED
      BY <3>1, <3>2
  <2> HIDE DEF m
  <2>3. Len32(size) \in Nat
    BY Cut
  <2>4. /\ Len(writing') = 1 /\ writing' # <<>> /\ writing'[1] = m
        /\ Len(Bytes') = Len32(size)
    BY <2>1, <2>2, OneMessage, RecordedMessage DEF Bytes
  <2>5. End = write_pos_ /\ End' = write_pos_
    BY <2>1, <2>4, EndTyped DEF End
  <2>6. Laid(file, write_pos_, KeptOf(logged))
    BY <2>5 DEF FileFormat
  <2>7. \A c \in 1 .. write_pos_ : file'[c] = file[c]
    BY <2>1 DEF Cell
  <2>8. Laid(file', End', KeptOf(logged'))
    <3>1. KeptOf(logged) \in Seq(Message)
      BY <2>1, KeptMessages
    <3>2. Laid(file', write_pos_, KeptOf(logged))
      BY <2>1, <2>6, <2>7, <3>1, LaidSame
    <3> QED
      BY <2>1, <2>5, <3>2
  <2>9. LengthStored'
    <3>1. write_pos_' \in Cell
      BY <2>1, <2>3 DEF Cell
    <3> QED
      BY <2>1, <2>4, <3>1 DEF LengthStored
  <2>10. ASSUME NEW p \in write_pos_' + 1 .. FileSize PROVE Behind(file, p)'
    <3>1. p \in write_pos_ + 1 .. FileSize /\ p \in Cell /\ p # write_pos_ + 1
      BY <2>1 DEF Cell
    <3>2. file[p] = old[p]
      BY <2>1, <3>1 DEF FileFormat, Behind
    <3> QED
      BY <2>1, <3>1, <3>2 DEF Behind
  <2> QED
    BY <2>8, <2>9, <2>10 DEF FileFormat
<1> QED
  BY <1>1, <1>2

(* Copying any of the bytes leaves what is before them as it is. *)
LEMMA FormatCopied ==
  ASSUME LogInv, FileFormat, writing # <<>>, NEW places \in SUBSET DOMAIN Bytes
  PROVE  /\ \A c \in 1 .. write_pos_ : Copied(places)[c] = file[c]
         /\ \A p \in write_pos_ + 1 .. FileSize : Behind(Copied(places), p)
<1>1. /\ write_pos_ \in 1 .. FileSize /\ Len(Bytes) \in Nat /\ DOMAIN Bytes = 1 .. Len(Bytes)
  BY EndTyped, Pending DEF LogInv, Cell
<1>2. ASSUME NEW c \in 1 .. write_pos_ PROVE Copied(places)[c] = file[c]
  <2>1. c \in Cell /\ c - write_pos_ \notin places
    BY <1>1 DEF Cell
  <2> QED
    BY <2>1 DEF Copied
<1>3. ASSUME NEW p \in write_pos_ + 1 .. FileSize PROVE Behind(Copied(places), p)
  <2>1. p \in Cell /\ Behind(file, p)
    BY <1>1 DEF Cell, FileFormat
  <2>2. Copied(places)[p] = IF p - write_pos_ \in places THEN Bytes[p - write_pos_] ELSE file[p]
    BY <2>1 DEF Copied
  <2> QED
    BY <2>1, <2>2 DEF Behind
<1> QED
  BY <1>2, <1>3

LEMMA FormatBytes == LogInv /\ FileFormat /\ LogPayload => FileFormat'
<1> SUFFICES ASSUME LogInv, FileFormat, LogPayload PROVE FileFormat'
  OBVIOUS
<1> DEFINE v == write_pos_ + Len(Bytes)
           m == writing[1]
<1>1. /\ writing # <<>> /\ old' = old /\ writing' = <<>>
      /\ file' = Copied(DOMAIN Bytes)
      /\ write_pos_' = v /\ logged' = Append(logged, m)
      /\ logged \in Seq(Message) /\ write_pos_ \in 1 .. FileSize
      /\ v <= FileSize
  BY DEF LogPayload, LogInv, LogTypeOK, LogRoom
<1>2. /\ m \in Message /\ Bytes \in Message /\ Bytes = Kept(m)
      /\ Len(Bytes) \in Nat /\ DOMAIN Bytes = 1 .. Len(Bytes)
  BY <1>1, Pending DEF LogInv
<1>3. /\ End = write_pos_ - 1 /\ End \in 0 .. FileSize /\ v \in 0 .. FileSize
  BY <1>1, <1>2, EndTyped
<1>4. Laid(file, End, KeptOf(logged)) /\ file[write_pos_] = Len(Bytes)
  BY <1>1 DEF FileFormat, LengthStored
<1>5. \A c \in 1 .. write_pos_ : file'[c] = file[c]
  BY <1>1, FormatCopied
<1>6. ASSUME NEW i \in 1 .. Len(Bytes) PROVE file'[write_pos_ + i] = Bytes[i]
  <2>1. write_pos_ + i \in Cell /\ (write_pos_ + i) - write_pos_ = i
    BY <1>1, <1>2 DEF Cell
  <2> QED
    BY <1>1, <1>2, <2>1 DEF Copied
<1>7. \A p \in v + 1 .. FileSize : file'[p] = old'[p]
  <2> SUFFICES ASSUME NEW p \in v + 1 .. FileSize PROVE file'[p] = old'[p]
    OBVIOUS
  <2>1. p \in write_pos_ + 1 .. FileSize /\ p \in Cell /\ p - write_pos_ \notin DOMAIN Bytes
    BY <1>1, <1>2 DEF Cell
  <2>2. file[p] = old[p]
    BY <2>1 DEF FileFormat, Behind
  <2> QED
    BY <1>1, <2>1, <2>2 DEF Copied
<1> HIDE DEF v, m
<1>8. Whole(file', End, v, Bytes)
  <2>1. v = End + 1 + Len(Bytes) /\ End + 1 = write_pos_
    BY <1>1, <1>2, <1>3 DEF v
  <2>2. write_pos_ \in 1 .. write_pos_
    BY <1>1
  <2> QED
    BY <1>4, <1>5, <1>6, <2>1, <2>2 DEF Whole
<1>9. Laid(file', v, Append(KeptOf(logged), Bytes))
  <2>1. \A c \in 1 .. End : file'[c] = file[c]
    BY <1>1, <1>3, <1>5
  <2>2. KeptOf(logged) \in Seq(Message)
    BY <1>1, KeptMessages
  <2> HIDE DEF End
  <2> QED
    BY <1>2, <1>3, <1>4, <1>8, <2>1, <2>2, LaidMore
<1>10. End' = v
  BY <1>1, <1>3, NoMessage DEF End
<1>11. KeptOf(logged') = Append(KeptOf(logged), Bytes)
  BY <1>1, <1>2, KeptMore
<1>12. Laid(file', End', KeptOf(logged'))
  BY <1>9, <1>10, <1>11
<1> QED
  BY <1>1, <1>7, <1>12 DEF FileFormat, LengthStored, Behind

(* A kill while a message is copied. *)
LEMMA FormatKill == LogInv /\ FileFormat /\ Restart => FileFormat'
<1> SUFFICES ASSUME LogInv, FileFormat, Restart PROVE FileFormat'
  OBVIOUS
<1>1. UNCHANGED <<write_pos_, writing, logged, old>>
  BY DEF Restart
<1>2. CASE lpc # "payload"
  <2>1. file' = file
    BY <1>2 DEF Restart
  <2> QED
    BY <1>1, <2>1, FormatFrame
<1>3. CASE lpc = "payload"
  <2>1. writing # <<>>
    BY <1>3 DEF LogInv, LogRoom
  <2>2. PICK places \in SUBSET DOMAIN Bytes : file' = Copied(places)
    BY <1>3 DEF Restart
  <2>3. /\ \A c \in 1 .. write_pos_ : file'[c] = file[c]
        /\ \A p \in write_pos_ + 1 .. FileSize : Behind(file', p)
    BY <2>1, <2>2, FormatCopied
  <2>4. /\ End \in 0 .. FileSize /\ End <= write_pos_ /\ write_pos_ \in 1 .. FileSize
    BY <2>1, EndTyped DEF Cell
  <2>5. logged \in Seq(Message) /\ Laid(file, End, KeptOf(logged))
    BY DEF LogInv, LogTypeOK, FileFormat
  <2>6. Laid(file', End, KeptOf(logged))
    <3>1. \A c \in 1 .. End : file'[c] = file[c]
      BY <2>3, <2>4
    <3>2. KeptOf(logged) \in Seq(Message)
      BY <2>5, KeptMessages
    <3> HIDE DEF End
    <3> QED
      BY <2>4, <2>5, <3>1, <3>2, LaidSame
  <2>7. End' = End /\ KeptOf(logged') = KeptOf(logged) /\ Bytes' = Bytes
    BY <1>1 DEF End, Bytes
  <2>8. Laid(file', End', KeptOf(logged'))
    BY <2>6, <2>7
  <2>9. LengthStored'
    BY <1>1, <2>3, <2>4, <2>7 DEF FileFormat, LengthStored
  <2>10. \A p \in write_pos_' + 1 .. FileSize : Behind(file, p)'
    BY <1>1, <2>3, <2>7 DEF Behind
  <2> QED
    BY <2>8, <2>9, <2>10 DEF FileFormat
<1> QED
  BY <1>2, <1>3

LEMMA FormatStep == LogInv /\ FileFormat /\ [LogNext]_logVars => FileFormat'
<1> SUFFICES ASSUME LogInv, FileFormat, [LogNext]_logVars PROVE FileFormat'
  OBVIOUS
<1>1. CASE Truncate \/ Map \/ Destroy \/ OpenOther \/ UNCHANGED logVars
  <2>1. UNCHANGED <<file, write_pos_, old, logged, writing>>
    BY <1>1 DEF Truncate, Map, Destroy, OpenOther, logVars
  <2> QED
    BY <2>1, FormatFrame
<1>2. CASE Open
  BY <1>2, FormatOpen
<1>3. CASE \E size \in 0 .. MaxLen : Log(size)
  BY <1>3, FormatLength
<1>4. CASE LogPayload
  BY <1>4, FormatBytes
<1>5. CASE Restart
  BY <1>5, FormatKill
<1> QED
  BY <1>1, <1>2, <1>3, <1>4, <1>5 DEF LogNext

(* What is laid down is what Records reads. *)
LEMMA FormatRead == LogInv /\ FileFormat => Framed
<1> SUFFICES ASSUME LogInv, FileFormat PROVE Framed
  OBVIOUS
<1>1. /\ file \in [Cell -> Nat] /\ End \in 0 .. FileSize /\ logged \in Seq(Message)
      /\ Laid(file, End, KeptOf(logged))
  BY EndTyped DEF LogInv, LogTypeOK, FileFormat
<1>2. Records(End) = KeptOf(logged)
  <2>1. KeptOf(logged) \in Seq(Message)
    BY <1>1, KeptMessages
  <2> HIDE DEF End
  <2> QED
    BY <1>1, <2>1, LaidRead, RecordsFrom
<1>3. writing # <<>> => Bytes = Kept(writing[1])
  BY Pending DEF LogInv
<1> QED
  BY <1>2, <1>3 DEF Framed, FileFormat, End, KeptOf, LengthStored, Behind

-----------------------------------------------------------------------------
(* The program.                                                            *)

ProgramInv == RingInv /\ LogInv /\ FileFormat /\ test \in {"RingBuffer_Test", "BinaryLogger_Test"}

LEMMA ProgramInductive == Spec => []ProgramInv
<1>1. Init => ProgramInv
  BY RingStart, LogStart, FormatStart DEF Init, ProgramInv
<1>2. ProgramInv /\ [Next]_vars => ProgramInv'
  <2> SUFFICES ASSUME ProgramInv, [Next]_vars PROVE ProgramInv'
    OBVIOUS
  <2>1. [RingNext]_ringVars /\ [LogNext]_logVars /\ test' = test
    BY DEF Next, RingBuffer_Test, BinaryLogger_Test, vars
  <2> QED
    BY <2>1, RingStep, LogStep, FormatStep DEF ProgramInv
<1> QED
  BY <1>1, <1>2, PTL DEF Spec

(* Both tests keep their types: the indices stay in the ring, and the      *)
(* write position in the file.                                             *)
THEOREM TypeCorrect == Spec => []TypeOK
<1>1. ProgramInv => TypeOK
  BY DEF ProgramInv, RingInv, LogInv, TypeOK
<1> QED
  BY <1>1, ProgramInductive, PTL

(* RingBuffer's reader gets the elements in order until one is overwritten *)
(* unread, and afterwards only elements of its slot's own rounds.          *)
THEOREM LossyInOrder == Spec => []LossyFifo
<1>1. ProgramInv => LossyFifo
  BY DEF ProgramInv, RingInv
<1> QED
  BY <1>1, ProgramInductive, PTL

(* The file of a BinaryLogger reads back as the messages it was given,     *)
(* each as far as 32 bits tell its length, at every moment and after a     *)
(* kill, whatever crashes and restarts came before.                        *)
THEOREM ReadsBack == Spec => []Framed
<1>1. ProgramInv => Framed
  BY FormatRead DEF ProgramInv
<1> QED
  BY <1>1, ProgramInductive, PTL

(* A BinaryLogger that could be constructed without a failure closes no    *)
(* descriptor but its own, and stores only where its file is mapped.       *)
THEOREM HarmlessWithoutFailure == Spec => []HarmsOnlyAfterFailure
<1>1. ProgramInv => HarmsOnlyAfterFailure
  BY DEF ProgramInv, LogInv, LogDescriptor
<1> QED
  BY <1>1, ProgramInductive, PTL

=============================================================================

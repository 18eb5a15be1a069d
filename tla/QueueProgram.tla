---------------------------- MODULE QueueProgram ----------------------------
(***************************************************************************)
(* The two threads of lock-free-queue/program.cpp over one LFQueue:        *)
(* writeFunction stores Items numbered elements; consumeFunction takes     *)
(* them out while size() is not zero, and reads an element AFTER it has    *)
(* handed its slot back with updateReadIndex().                            *)
(*                                                                         *)
(* Nothing in the queue stops the writer from lapping the reader.  The     *)
(* program relies on both threads sleeping one second per element, and on  *)
(* the reader starting about five seconds early enough: the writer stays a *)
(* few elements ahead of a 20-slot queue.  Lead is that distance, the only *)
(* timing assumption of the model: an element is begun only while fewer    *)
(* than Lead elements wait for the reader.                                 *)
(***************************************************************************)
EXTENDS LFQueue, Sequences

CONSTANTS
  Items,  (* number of elements writeFunction stores (50) *)
  Lead    (* how far ahead of the reader the writer gets  *)

ASSUME ItemsAssumption == Items \in Nat
ASSUME LeadAssumption  == Lead \in Nat /\ Lead < Capacity

VARIABLES
  wpc,       (* where writeFunction is                                     *)
  i,         (* its loop variable: the number of the element               *)
  wslot,     (* the pointer getNextToWriteTo returned                      *)
  wleft,     (* words of *wslot still to be stored                         *)
  cpc,       (* where consumeFunction is                                   *)
  item,      (* the pointer getNextToRead returned                         *)
  cleft,     (* words of *item still to be read                            *)
  got,       (* the words read so far                                      *)
  received   (* the elements printed, oldest first                         *)

writerVars   == <<wpc, i, wslot, wleft>>
consumerVars == <<cpc, item, cleft, got, received>>
vars == <<queueVars, writerVars, consumerVars>>

TypeOK ==
  /\ QueueTypeOK
  /\ wpc \in {"claim", "fill", "count"}
  /\ i \in 0 .. Items
  /\ wslot \in Slot
  /\ wleft \subseteq Word
  /\ cpc \in {"test", "peek", "release", "check", "uncount", "use",
              "exit", "abort", "segv"}
  /\ item \in Slot \cup {NullPtr}
  /\ cleft \subseteq Word
  /\ got \in [Word -> Nat \cup {Blank}]
  /\ received \in Seq([Word -> Nat \cup {Blank}])

Init ==
  /\ QueueInit
  /\ wpc = "claim" /\ i = 0 /\ wslot = 0 /\ wleft = {}
  /\ cpc = "test" /\ item = NullPtr /\ cleft = {} /\ got = Whole(Blank)
  /\ received = <<>>

(* A failed ASSERT exits the process, a null dereference kills it: neither *)
(* thread runs any more.                                                   *)
Alive == cpc \notin {"abort", "segv"}

(* The reader is past its updateReadIndex() store and not yet done with    *)
(* the element.                                                            *)
Holding == cpc \in {"check", "uncount", "use"}

(* Elements whose write index, respectively read index, has been advanced. *)
Published == IF wpc = "count" THEN i + 1 ELSE i
Released  == IF Holding THEN Len(received) + 1 ELSE Len(received)

(* The timing assumption.  Once the reader has exited it binds nobody. *)
Paced == cpc = "exit" \/ Published - Released < Lead

-----------------------------------------------------------------------------
(* Plausible bugs of the two threads' tests. *)

CopiedAlready == TRUE  (* published before its words are in the slot       *)
NotEmptyEver  == TRUE  (* while(true), getNextToRead's result not tested   *)

-----------------------------------------------------------------------------
(* writeFunction *)

(* The loop head and getNextToWriteTo(). *)
ClaimSlot ==
  /\ Alive
  /\ wpc = "claim"
  /\ i < Items
  /\ Paced
  /\ wslot' = GetNextToWriteTo
  /\ wleft' = Word
  /\ wpc' = "fill"
  /\ UNCHANGED <<queueVars, i, consumerVars>>

(* One word of *slot = item; the compiler may copy them in any order. *)
CopyWord(w) ==
  /\ Alive
  /\ wpc = "fill"
  /\ w \in wleft
  /\ StoreWord(wslot, w, i)
  /\ wleft' = wleft \ {w}
  /\ UNCHANGED <<wpc, i, wslot, consumerVars>>

Copied == wleft = {}

(* updateNextToWriteTo(), the index. *)
PublishItem ==
  /\ Alive
  /\ wpc = "fill"
  /\ Copied
  /\ AdvanceWriteIndex
  /\ wpc' = "count"
  /\ UNCHANGED <<i, wslot, wleft, consumerVars>>

(* updateNextToWriteTo(), the counter; the element is logged, ++i. *)
CountItem ==
  /\ Alive
  /\ wpc = "count"
  /\ IncrementSize
  /\ wpc' = "claim"
  /\ i' = i + 1
  /\ UNCHANGED <<wslot, wleft, consumerVars>>

Writer == ClaimSlot \/ (\E w \in Word : CopyWord(w)) \/ PublishItem \/ CountItem

WriterDone == wpc = "claim" /\ i = Items

-----------------------------------------------------------------------------
(* consumeFunction *)

NotEmpty == Size # 0

(* while(lfq->size()) *)
TestSize ==
  /\ cpc = "test"
  /\ cpc' = IF NotEmpty THEN "peek" ELSE "exit"
  /\ UNCHANGED <<queueVars, writerVars, item, cleft, got, received>>

(* item = lfq->getNextToRead(), whose result is not tested. *)
Peek ==
  /\ cpc = "peek"
  /\ item' = GetNextToRead
  /\ cpc' = "release"
  /\ UNCHANGED <<queueVars, writerVars, cleft, got, received>>

(* lfq->updateReadIndex(): the slot goes back to the writer here. *)
Release ==
  /\ cpc = "release"
  /\ AdvanceReadIndex
  /\ cpc' = "check"
  /\ UNCHANGED <<writerVars, item, cleft, got, received>>

(* lfq->updateReadIndex(): the ASSERT. *)
CheckSize ==
  /\ cpc = "check"
  /\ cpc' = IF SizeAssertHolds THEN "uncount" ELSE "abort"
  /\ UNCHANGED <<queueVars, writerVars, item, cleft, got, received>>

(* lfq->updateReadIndex(): the counter. *)
Uncount ==
  /\ cpc = "uncount"
  /\ DecrementSize
  /\ cpc' = "use"
  /\ cleft' = Word
  /\ got' = Whole(Blank)
  /\ UNCHANGED <<writerVars, item, received>>

(* One of the reads item->d_[...] through a pointer that may be null. *)
ReadWord(w) ==
  /\ cpc = "use"
  /\ w \in cleft
  /\ IF item = NullPtr
       THEN cpc' = "segv" /\ UNCHANGED <<cleft, got>>
       ELSE /\ got' = [got EXCEPT ![w] = store[item][w]]
            /\ cleft' = cleft \ {w}
            /\ UNCHANGED cpc
  /\ UNCHANGED <<queueVars, writerVars, item, received>>

(* The element is printed, and the loop goes round. *)
PrintItem ==
  /\ cpc = "use"
  /\ cleft = {}
  /\ received' = Append(received, got)
  /\ cpc' = "test"
  /\ UNCHANGED <<queueVars, writerVars, item, cleft, got>>

Consumer ==
  \/ TestSize \/ Peek \/ Release \/ CheckSize \/ Uncount
  \/ (\E w \in Word : ReadWord(w))
  \/ PrintItem

(* main() joins both threads and returns. *)
Finished == WriterDone /\ cpc = "exit" /\ UNCHANGED vars

Next == Writer \/ Consumer \/ Finished

Spec == Init /\ [][Next]_vars

(* Both are running threads: the scheduler runs each again and again. *)
FairSpec == Spec /\ WF_vars(Writer) /\ WF_vars(Consumer)

-----------------------------------------------------------------------------
(* Properties. *)

(* Every element printed is whole, none is lost or repeated, and they come *)
(* out in the order writeFunction stored them: the k-th printed element is *)
(* element number k - 1 in all its words, although the slot was released   *)
(* before it was read.                                                     *)
InOrder == \A k \in 1 .. Len(received) : received[k] = Whole(k - 1)

(* The writer never stores into the slot the reader is reading, although   *)
(* the reader has released that slot: one slot of the ring always          *)
(* separates them.                                                         *)
NoSharedSlot == ~(wpc = "fill" /\ Holding /\ wslot = item)

(* updateReadIndex()'s ASSERT never fires and the untested pointer is      *)
(* never null.                                                             *)
NeverDies == Alive

(* The counter lags the indices, never the other way round: whenever the   *)
(* reader has just seen size() # 0, getNextToRead() has an element.        *)
SizeImpliesItem == cpc = "peek" => GetNextToRead # NullPtr

(* The queue with its two threads implements the abstract FIFO: its        *)
(* contents are the slots from the oldest element not yet printed up to    *)
(* the write index.                                                        *)
HeadSlot == IF Holding THEN item ELSE next_read_index
Contents ==
  [k \in 1 .. Published - Len(received) |-> store[(HeadSlot + k - 1) % Capacity]]
Elements == {Whole(n) : n \in 0 .. Items - 1}

F == INSTANCE Fifo WITH
       Value     <- Elements,
       q         <- IF cpc = "exit" THEN <<>> ELSE Contents,
       delivered <- received,
       open      <- cpc # "exit"

(* Elements leave the ring as they entered it (see F above). *)
ImplementsFifo == F!FifoSpec

(* Both threads end, and main() returns from its two joins. *)
Terminates == <>(WriterDone /\ cpc = "exit")

=============================================================================

------------------------------- MODULE Logger -------------------------------
(***************************************************************************)
(* The text logger of logger/logging.h (sockets/logging.h is the same      *)
(* file): a main thread whose log() calls push elements into an LFQueue,   *)
(* a logger thread that writes them to an ofstream and flushes it, and the *)
(* destructor that waits for the queue to drain before it stops the        *)
(* thread.  Which elements log() pushes is the subject of LogFormat; here  *)
(* an element is its number, a two-word struct copied word by word.        *)
(*                                                                         *)
(* The queue does not tell the main thread that it is full.  The model     *)
(* lets it push as fast as it likes and records in overran whether it ever *)
(* lapped the logger thread; what the logger promises while it never did,  *)
(* and what is left of that afterwards, are different properties.          *)
(*                                                                         *)
(* The stream is bytes the program has written and the file does not have  *)
(* yet; operator<< may pass them on at any time, flush() and close() must. *)
(***************************************************************************)
EXTENDS LFQueue, Sequences

CONSTANT MaxPushes  (* bound: elements the main thread pushes *)

ASSUME MaxPushesAssumption == MaxPushes \in Nat

VARIABLES
  mpc,       (* what the main thread does                             *)
  i,         (* elements pushed so far                                *)
  wleft,     (* words of the element still to be stored               *)
  fpc,       (* where flushQueue is                                   *)
  next,      (* the pointer getNextToRead returned                    *)
  cleft,     (* words of *next still to be read                       *)
  got,       (* the words read so far                                 *)
  running,   (* running_                                              *)
  stream,    (* elements in file_'s buffer                            *)
  disk,      (* elements in the file                                  *)
  released,  (* history: elements taken out of the queue              *)
  overran    (* history: the queue held more than it has room for     *)

mainVars   == <<mpc, i, wleft>>
threadVars == <<fpc, next, cleft, got>>
fileVars   == <<stream, disk>>
history    == <<released, overran>>
vars == <<queueVars, mainVars, threadVars, running, fileVars, history>>

Elem == [Word -> Nat \cup {Blank}]

TypeOK ==
  /\ QueueTypeOK
  /\ mpc \in {"ready", "fill", "count", "drain", "stop", "join", "closed", "exit"}
  /\ i \in 0 .. MaxPushes
  /\ wleft \subseteq Word
  /\ fpc \in {"loop", "peek", "test", "write", "release", "check", "uncount",
              "flush", "done", "abort"}
  /\ next \in Slot \cup {NullPtr}
  /\ cleft \subseteq Word
  /\ got \in Elem
  /\ running \in BOOLEAN
  /\ stream \in Seq(Elem)
  /\ disk \in Seq(Elem)
  /\ released \in 0 .. MaxPushes
  /\ overran \in BOOLEAN

(* The constructor has opened the file and started the thread. *)
Init ==
  /\ QueueInit
  /\ mpc = "ready" /\ i = 0 /\ wleft = {}
  /\ fpc = "loop" /\ next = NullPtr /\ cleft = {} /\ got = Whole(Blank)
  /\ running = TRUE
  /\ stream = <<>> /\ disk = <<>>
  /\ released = 0 /\ overran = FALSE

(* FATAL in log() and a failed ASSERT both exit the process. *)
Alive == mpc # "exit" /\ fpc # "abort"

(* Elements whose write index has been advanced. *)
Published == IF mpc = "count" THEN i + 1 ELSE i

-----------------------------------------------------------------------------
(* Plausible bugs of the tests and updates below. *)

CopiedAlready      == TRUE                    (* published before it is copied    *)
DrainedAnyway      == TRUE                    (* no wait for the queue            *)
DrainedByIndex     == GetNextToRead = NullPtr (* the indices, not the counter     *)
MoreByPointer      == next # NullPtr          (* size() is not tested             *)
FlushBufferNever   == UNCHANGED fileVars      (* the line that "makes it work"    *)

-----------------------------------------------------------------------------
(* The main thread. *)

(* pushValue(): getNextToWriteTo(), and the copy begins. *)
PushValue ==
  /\ Alive
  /\ mpc = "ready"
  /\ i < MaxPushes
  /\ mpc' = "fill"
  /\ wleft' = Word
  /\ UNCHANGED <<queueVars, i, threadVars, running, fileVars, history>>

(* One word of the assignment to the slot getNextToWriteTo() gives. *)
CopyWord(w) ==
  /\ Alive
  /\ mpc = "fill"
  /\ w \in wleft
  /\ StoreWord(GetNextToWriteTo, w, i)
  /\ wleft' = wleft \ {w}
  /\ UNCHANGED <<mpc, i, threadVars, running, fileVars, history>>

Copied == wleft = {}

(* updateNextToWriteTo(), the index. *)
Publish ==
  /\ Alive
  /\ mpc = "fill"
  /\ Copied
  /\ AdvanceWriteIndex
  /\ overran' = (overran \/ i + 1 - released >= Capacity)
  /\ mpc' = "count"
  /\ UNCHANGED <<i, wleft, threadVars, running, fileVars, released>>

(* updateNextToWriteTo(), the counter. *)
Count ==
  /\ Alive
  /\ mpc = "count"
  /\ IncrementSize
  /\ mpc' = "ready"
  /\ i' = i + 1
  /\ UNCHANGED <<wleft, threadVars, running, fileVars, history>>

(* FATAL: log() was given too few or too many arguments. *)
Fatal ==
  /\ Alive
  /\ mpc = "ready"
  /\ mpc' = "exit"
  /\ UNCHANGED <<queueVars, i, wleft, threadVars, running, fileVars, history>>

(* ~Logger() is entered. *)
Destroy ==
  /\ Alive
  /\ mpc = "ready"
  /\ mpc' = "drain"
  /\ UNCHANGED <<queueVars, i, wleft, threadVars, running, fileVars, history>>

Drained == Size = 0

(* ~Logger(): while(queue_.size()) is left.  Until then it sleeps. *)
QueueDrained ==
  /\ Alive
  /\ mpc = "drain"
  /\ Drained
  /\ mpc' = "stop"
  /\ UNCHANGED <<queueVars, i, wleft, threadVars, running, fileVars, history>>

(* running_ = false *)
StopThread ==
  /\ Alive
  /\ mpc = "stop"
  /\ running' = FALSE
  /\ mpc' = "join"
  /\ UNCHANGED <<queueVars, i, wleft, threadVars, fileVars, history>>

(* logger_thread_->join() returns, file_.close(). *)
JoinAndClose ==
  /\ Alive
  /\ mpc = "join"
  /\ fpc = "done"
  /\ disk' = disk \o stream
  /\ stream' = <<>>
  /\ mpc' = "closed"
  /\ UNCHANGED <<queueVars, i, wleft, threadVars, running, history>>

(* What the main thread does once it is inside a call. *)
InsideCall ==
  \/ \E w \in Word : CopyWord(w)
  \/ Publish \/ Count
  \/ QueueDrained \/ StopThread \/ JoinAndClose

Main == PushValue \/ Fatal \/ Destroy \/ InsideCall

-----------------------------------------------------------------------------
(* The logger thread: flushQueue(). *)

(* while(running_) *)
TestRunning ==
  /\ Alive
  /\ fpc = "loop"
  /\ fpc' = IF running THEN "peek" ELSE "done"
  /\ UNCHANGED <<queueVars, mainVars, next, cleft, got, running, fileVars, history>>

(* next = queue_.getNextToRead() *)
Peek ==
  /\ Alive
  /\ fpc = "peek"
  /\ next' = GetNextToRead
  /\ fpc' = "test"
  /\ UNCHANGED <<queueVars, mainVars, cleft, got, running, fileVars, history>>

(* The condition of the for loop: queue_.size() && next. *)
More == Size # 0 /\ next # NullPtr

TestNext ==
  /\ Alive
  /\ fpc = "test"
  /\ fpc' = IF More THEN "write" ELSE "flush"
  /\ cleft' = Word
  /\ got' = Whole(Blank)
  /\ UNCHANGED <<queueVars, mainVars, next, running, fileVars, history>>

(* next->type_ or next->u_ is read. *)
ReadWord(w) ==
  /\ Alive
  /\ fpc = "write"
  /\ w \in cleft
  /\ got' = [got EXCEPT ![w] = store[next][w]]
  /\ cleft' = cleft \ {w}
  /\ UNCHANGED <<queueVars, mainVars, fpc, next, running, fileVars, history>>

(* file_ << ...: into the buffer, or the buffer overflows into the file. *)
WriteOut ==
  /\ Alive
  /\ fpc = "write"
  /\ cleft = {}
  /\ \/ stream' = Append(stream, got) /\ UNCHANGED disk
     \/ disk' = Append(disk \o stream, got) /\ stream' = <<>>
  /\ fpc' = "release"
  /\ UNCHANGED <<queueVars, mainVars, next, cleft, got, running, history>>

(* updateReadIndex(): the index, the ASSERT, the counter. *)
Release ==
  /\ Alive
  /\ fpc = "release"
  /\ AdvanceReadIndex
  /\ released' = released + 1
  /\ fpc' = "check"
  /\ UNCHANGED <<mainVars, next, cleft, got, running, fileVars, overran>>

CheckSize ==
  /\ Alive
  /\ fpc = "check"
  /\ fpc' = IF SizeAssertHolds THEN "uncount" ELSE "abort"
  /\ UNCHANGED <<queueVars, mainVars, next, cleft, got, running, fileVars, history>>

Uncount ==
  /\ Alive
  /\ fpc = "uncount"
  /\ DecrementSize
  /\ fpc' = "peek"
  /\ UNCHANGED <<mainVars, next, cleft, got, running, fileVars, history>>

FlushBuffer == disk' = disk \o stream /\ stream' = <<>>

(* file_.flush(), and 5 ms of sleep. *)
Flush ==
  /\ Alive
  /\ fpc = "flush"
  /\ FlushBuffer
  /\ fpc' = "loop"
  /\ UNCHANGED <<queueVars, mainVars, next, cleft, got, running, history>>

LoggerThread ==
  \/ TestRunning \/ Peek \/ TestNext
  \/ \E w \in Word : ReadWord(w)
  \/ WriteOut \/ Release \/ CheckSize \/ Uncount \/ Flush

Next == Main \/ LoggerThread

Spec == Init /\ [][Next]_vars

(* The scheduler runs both threads.  Nothing makes the program log, fail   *)
(* or destroy its logger; what it has begun it goes on with.               *)
FairSpec == Spec /\ WF_vars(LoggerThread) /\ WF_vars(InsideCall)

-----------------------------------------------------------------------------
(* Properties. *)

InOrder(elems) == \A k \in 1 .. Len(elems) : elems[k] = Whole(k - 1)

(* Unless the main thread lapped the logger thread, what has been written  *)
(* is a prefix of what was pushed: whole elements, in order, none twice.   *)
WritesPrefix ==
  ~overran => InOrder(disk \o stream) /\ Len(disk \o stream) <= Published

(* Unless it was lapped, a logger that has been destroyed has put every    *)
(* element pushed into its file.                                           *)
ClosedComplete ==
  mpc = "closed" /\ ~overran => Len(disk) = i /\ InOrder(disk)

(* updateReadIndex()'s ASSERT never fires, lapped or not: the loop tests   *)
(* size() and next both, and nobody else takes elements out.               *)
AssertNeverFails == fpc # "abort"

(* The destructor waits on a counter of elements the logger thread will    *)
(* not see: it was lapped by exactly the ring, the indices are equal, and  *)
(* no element is in its hands.                                             *)
Stuck ==
  /\ mpc = "drain"
  /\ Size # 0
  /\ next_read_index = next_write_index
  /\ \/ fpc \in {"loop", "peek", "flush"}
     \/ fpc = "test" /\ next = NullPtr

(* That is for good: a stuck destructor never gets on. *)
StuckStays == [][Stuck => Stuck']_vars

(* While the queue was never lapped the destructor returns. *)
DestructorReturns ==
  mpc = "drain" /\ ~overran ~> mpc = "closed"

(* An element pushed reaches the file while the program goes on running,   *)
(* without a later push or the destructor.                                 *)
ReachesDisk ==
  \A n \in 1 .. MaxPushes :
    i = n ~> (Len(disk) >= n \/ overran \/ ~Alive)

=============================================================================

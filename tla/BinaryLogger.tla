----------------------------- MODULE BinaryLogger -----------------------------
(***************************************************************************)
(* BinaryLogger (binary-logger-ring-buffer/binaryLogger.h) in a program    *)
(* that is started again and again over the same file, and that opens      *)
(* another file while its logger exists.                                   *)
(*                                                                         *)
(* A length takes one cell of the file, as does a byte.  The mapping is    *)
(* shared: what was stored outlives a crash of the process, and the copy   *)
(* of a message can be cut short with any of its bytes stored.  A          *)
(* descriptor number that is free goes to the next file that is opened.    *)
(***************************************************************************)
EXTENDS Naturals, Sequences

CONSTANTS
  FileSize,   (* file_size_, in cells                  *)
  LenMod,     (* 2^32: the values of a uint32_t        *)
  MaxLen,     (* bound on a message                    *)
  MaxLogs     (* bound on the messages of all runs     *)

ASSUME FileAssumption == FileSize \in Nat /\ MaxLen \in Nat /\ MaxLogs \in Nat
ASSUME LenModAssumption == LenMod \in Nat \ {0}

VARIABLES
  file,        (* the cells of the file                                     *)
  write_pos_,
  fd_,         (* "none" for -1, "own" for the number open() returned       *)
  holder,      (* who has that number open                                  *)
  mmap_ptr_,
  lpc,         (* where the logger is                                       *)
  writing,     (* <<m>>: the length of m is stored, m's bytes not all       *)
  logged,      (* history: messages taken in this run                       *)
  old,         (* history: the file as this run found it                    *)
  next,        (* the next message's number                                 *)
  failed,      (* history: the constructor's ftruncate or mmap failed       *)
  robbed       (* history: the other file was closed by the logger          *)

logVars == <<file, write_pos_, fd_, holder, mmap_ptr_, lpc, writing, logged,
             old, next, failed, robbed>>

Cell == 1 .. FileSize
Message == [1 .. 0 -> {}] \cup UNION {[1 .. n -> 1 .. MaxLogs] : n \in 1 .. MaxLen}

LogTypeOK ==
  /\ file \in [Cell -> Nat]
  /\ write_pos_ \in 0 .. FileSize
  /\ fd_ \in {"none", "own"}
  /\ holder \in {"nobody", "logger", "other"}
  /\ mmap_ptr_ \in {"null", "mapped", "MAP_FAILED"}
  /\ lpc \in {"down", "truncate", "map", "up", "payload", "unmapped", "segv"}
  /\ writing \in Seq(Message) /\ Len(writing) <= 1
  /\ logged \in Seq(Message)
  /\ old \in [Cell -> Nat]
  /\ next \in 1 .. MaxLogs + 1
  /\ failed \in BOOLEAN /\ robbed \in BOOLEAN

LogInit ==
  /\ file = [p \in Cell |-> 0] /\ old = file
  /\ write_pos_ = 0
  /\ fd_ = "none" /\ holder = "nobody"
  /\ mmap_ptr_ = "null"
  /\ lpc = "down"
  /\ writing = <<>> /\ logged = <<>>
  /\ next = 1
  /\ failed = FALSE /\ robbed = FALSE

-----------------------------------------------------------------------------
(* Plausible bugs. *)

FitsAlmost(len)    == write_pos_ + len <= FileSize  (* the length has no room     *)
RecordedWhole(m)   == m                             (* size() bytes are copied    *)
AfterMapCloses     == "nobody"                      (* the descriptor is not kept *)

-----------------------------------------------------------------------------
(* The constructor. *)

(* open(file, O_RDWR | O_CREAT): what is in the file stays. *)
Open ==
  /\ lpc = "down"
  /\ \/ fd_' = "own" /\ holder' = "logger"
     \/ fd_' = "none" /\ UNCHANGED holder
  /\ lpc' = "truncate"
  /\ write_pos_' = 0 /\ mmap_ptr_' = "null"
  /\ writing' = <<>> /\ logged' = <<>> /\ old' = file
  /\ failed' = FALSE /\ robbed' = FALSE
  /\ UNCHANGED <<file, next>>

(* A failed ftruncate closes the descriptor, and the constructor goes on.  *)
Truncate ==
  /\ lpc = "truncate"
  /\ \/ holder = "logger" /\ UNCHANGED <<holder, failed>>
     \/ holder' = "nobody" /\ failed' = TRUE
  /\ lpc' = "map"
  /\ UNCHANGED <<file, write_pos_, fd_, mmap_ptr_, writing, logged, old, next, robbed>>

AfterMap == holder

(* MAP_FAILED is stored in mmap_ptr_, where the other functions test for   *)
(* null only.                                                              *)
Map ==
  /\ lpc = "map"
  /\ \/ /\ holder = "logger"
        /\ mmap_ptr_' = "mapped"
        /\ holder' = AfterMap
        /\ UNCHANGED failed
     \/ /\ mmap_ptr_' = "MAP_FAILED"
        /\ holder' = "nobody"
        /\ failed' = TRUE
  /\ lpc' = "up"
  /\ UNCHANGED <<file, write_pos_, fd_, writing, logged, old, next, robbed>>

-----------------------------------------------------------------------------
(* log(str) *)

(* len: str.size() as a uint32_t.  What is copied are the first len bytes. *)
Len32(size) == size % LenMod
Recorded(m) == SubSeq(m, 1, Len32(Len(m)))

Fits(len) == write_pos_ + 1 + len <= FileSize

(* A message that does not fit is dropped.  Without a mapping the length   *)
(* is stored at an address that is none.                                   *)
Log(size) ==
  /\ lpc = "up"
  /\ next <= MaxLogs
  /\ IF ~Fits(Len32(size))
       THEN next' = next + 1 /\ UNCHANGED <<file, write_pos_, writing, lpc>>
       ELSE IF mmap_ptr_ # "mapped"
         THEN lpc' = "segv" /\ UNCHANGED <<file, write_pos_, writing, next>>
         ELSE /\ writing' = <<[i \in 1 .. size |-> next]>>
              /\ file' = [p \in Cell |-> IF p = write_pos_ + 1 THEN Len32(size) ELSE file[p]]
              /\ write_pos_' = write_pos_ + 1
              /\ next' = next + 1
              /\ lpc' = "payload"
  /\ UNCHANGED <<fd_, holder, mmap_ptr_, logged, old, failed, robbed>>

Bytes == Recorded(writing[1])

(* The second memcpy, of the bytes at the given places. *)
Copied(places) ==
  [p \in Cell |-> IF p - write_pos_ \in places THEN Bytes[p - write_pos_] ELSE file[p]]

LogPayload ==
  /\ lpc = "payload"
  /\ file' = Copied(DOMAIN Bytes)
  /\ write_pos_' = write_pos_ + Len(Bytes)
  /\ logged' = Append(logged, writing[1])
  /\ writing' = <<>>
  /\ lpc' = "up"
  /\ UNCHANGED <<fd_, holder, mmap_ptr_, old, next, failed, robbed>>

-----------------------------------------------------------------------------
(* The destructor closes the number it was given, whoever has it by now.   *)
Destroy ==
  /\ lpc = "up"
  /\ mmap_ptr_' = "null"
  /\ IF fd_ = "own"
       THEN holder' = "nobody" /\ robbed' = (holder = "other")
       ELSE UNCHANGED <<holder, robbed>>
  /\ lpc' = "unmapped"
  /\ UNCHANGED <<file, write_pos_, fd_, writing, logged, old, next, failed>>

(* The rest of the program opens another file. *)
OpenOther ==
  /\ lpc = "up" /\ holder = "nobody" /\ fd_ = "own"
  /\ holder' = "other"
  /\ UNCHANGED <<file, write_pos_, fd_, mmap_ptr_, lpc, writing, logged, old, next, failed, robbed>>

(* The process ends, or is killed anywhere, and is started again.  Killed  *)
(* while it copies a message, it leaves any of the bytes in the file.      *)
Restart ==
  /\ lpc # "down"
  /\ next <= MaxLogs
  /\ IF lpc = "payload" THEN \E places \in SUBSET DOMAIN Bytes : file' = Copied(places)
                        ELSE UNCHANGED file
  /\ lpc' = "down"
  /\ fd_' = "none" /\ holder' = "nobody" /\ mmap_ptr_' = "null"
  /\ UNCHANGED <<write_pos_, writing, logged, old, next, failed, robbed>>

LogNext ==
  \/ Open \/ Truncate \/ Map
  \/ (\E size \in 0 .. MaxLen : Log(size)) \/ LogPayload
  \/ Destroy \/ OpenOther \/ Restart

-----------------------------------------------------------------------------
(* Properties. *)

Records(end) ==
  LET from[p \in 0 .. FileSize] ==
        IF p >= end \/ p = FileSize THEN <<>>
        ELSE LET after == p + 1 + file[p + 1]
             IN  IF after > FileSize THEN <<>>
                 ELSE <<SubSeq(file, p + 2, after)>> \o from[after]
  IN  from[0]

(* What a file can give back of a message: all of it, unless its length    *)
(* takes more than 32 bits; then the first bytes, as many as the low 32    *)
(* bits say.                                                               *)
Kept(m) == IF Len(m) < LenMod THEN m ELSE SubSeq(m, 1, Len(m) % LenMod)

(* The format of line 71, "[uint32 len][bytes...]", at every moment, and   *)
(* after a kill: the file holds the messages this run has taken, and       *)
(* perhaps the length of one more.  Of that one any bytes may be there.    *)
(* All the rest is what earlier runs left: nothing marks where the new     *)
(* records end.                                                            *)
Framed ==
  LET Torn(p) == /\ writing # <<>> /\ p - write_pos_ \in DOMAIN Kept(writing[1])
                 /\ file[p] = Kept(writing[1])[p - write_pos_]
  IN  /\ Records(write_pos_ - Len(writing)) = [k \in DOMAIN logged |-> Kept(logged[k])]
      /\ writing # <<>> => file[write_pos_] = Len(Kept(writing[1]))
      /\ \A p \in write_pos_ + 1 .. FileSize : file[p] = old[p] \/ Torn(p)

(* The logger closes a descriptor of somebody else's, or writes where no  *)
(* file is mapped, only after a failure in its constructor, which closes   *)
(* the descriptor and keeps its number, and stores MAP_FAILED as a mapping.*)
HarmsOnlyAfterFailure == robbed \/ lpc = "segv" => failed

=============================================================================

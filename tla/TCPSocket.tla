------------------------------ MODULE TCPSocket ------------------------------
(***************************************************************************)
(* The TCPSockets a TCPServer has accepted, and the kernel's end of their  *)
(* connections (sockets/tcp_socket.cpp).  The receive callback is that of  *)
(* sockets/program.cpp: it takes all that was received, and answers with   *)
(* it behind a header.                                                     *)
(*                                                                         *)
(* The bytes of a connection's answers are numbered 1, 2, 3, ... in the    *)
(* order the callback gives them to send().  A cell of a send buffer that  *)
(* was never written holds 0.                                              *)
(***************************************************************************)
EXTENDS Naturals, Sequences, FiniteSetsExt

CONSTANTS
  Conn,        (* the clients' connections, each made at most once         *)
  BufferSize,  (* TCPBufferSize                                            *)
  Header,      (* length of what the callback puts before the bytes        *)
  RcvLimit,    (* bytes the kernel holds for a socket that does not read   *)
  SendCap,     (* bound on n_send, which grows with every failed send      *)
  MaxDrained   (* bound on how often a connection gets room again          *)

ASSUME BufferAssumption ==
  /\ BufferSize \in Nat /\ Header \in Nat \ {0} /\ RcvLimit \in Nat \ {0}
  /\ Header + RcvLimit <= BufferSize
ASSUME SendCapAssumption == SendCap \in Nat /\ SendCap > BufferSize /\ MaxDrained \in Nat

VARIABLES
  send_buffer_, next_send_valid_index_, send_disconnected_,
  n_send,     (* the local of the sendAndRecv() that is running             *)
  peer,       (* what the client has done to its connection                 *)
  inq,        (* bytes that wait in the kernel to be received               *)
  out,        (* bytes the kernel has taken, in order                       *)
  answered,   (* history: bytes the callback has given to send()            *)
  clean,      (* history: no send has failed or taken only a part           *)
  full,       (* there was no room at the last ::send, and is none yet      *)
  drained     (* how often room came back                                   *)

memberVars == <<send_buffer_, next_send_valid_index_, send_disconnected_, answered>>
socketVars == <<memberVars, n_send, peer, inq, out, clean, full, drained>>

(* send()'s unchecked memcpy stays in the buffer: every sendAndRecv()      *)
(* empties it again before the next answer.                                *)
SocketTypeOK ==
  /\ send_buffer_ \in [Conn -> [1 .. BufferSize -> Nat]]
  /\ next_send_valid_index_ \in [Conn -> 0 .. BufferSize]
  /\ send_disconnected_ \in [Conn -> BOOLEAN]
  /\ n_send \in 0 .. SendCap
  /\ peer \in [Conn -> {"none", "open", "closed", "reset"}]
  /\ inq \in [Conn -> 0 .. RcvLimit]
  /\ out \in [Conn -> Seq(Nat)]
  /\ answered \in [Conn -> Nat]
  /\ clean \in [Conn -> BOOLEAN]
  /\ full \in BOOLEAN
  /\ drained \in 0 .. MaxDrained

SocketInit ==
  /\ send_buffer_ = [c \in Conn |-> [i \in 1 .. BufferSize |-> 0]]
  /\ next_send_valid_index_ = [c \in Conn |-> 0]
  /\ send_disconnected_ = [c \in Conn |-> FALSE]
  /\ n_send = 0
  /\ peer = [c \in Conn |-> "none"]
  /\ inq = [c \in Conn |-> 0]
  /\ out = [c \in Conn |-> <<>>]
  /\ answered = [c \in Conn |-> 0]
  /\ clean = [c \in Conn |-> TRUE]
  /\ full = FALSE
  /\ drained = 0

-----------------------------------------------------------------------------
(* Plausible bugs. *)

EmptiedNever(c)      == next_send_valid_index_[c]  (* sent bytes stay in the buffer  *)
ThisMsgUnbounded(c)  == n_send                     (* n_send_this_msg is not limited *)
FirstBytesShifted(c, n) ==                         (* one cell too far               *)
  [i \in 1 .. n |-> IF i < BufferSize THEN send_buffer_[c][i + 1] ELSE 0]

-----------------------------------------------------------------------------
(* send(data, len): no test whether the data fit. *)
Send(c, len) ==
  LET first == next_send_valid_index_[c]
  IN  /\ send_buffer_' = [send_buffer_ EXCEPT ![c] = [i \in 1 .. BufferSize |->
           IF i \in first + 1 .. first + len THEN answered[c] + i - first ELSE @[i]]]
      /\ next_send_valid_index_' = [next_send_valid_index_ EXCEPT ![c] = first + len]
      /\ answered' = [answered EXCEPT ![c] = @ + len]
      /\ UNCHANGED send_disconnected_

(* The first half of sendAndRecv(): recvmsg, the callback if that got      *)
(* bytes, and the length to send.  A reset connection may still give the   *)
(* bytes that arrived before; recvmsg's errors and its 0 look alike here.  *)
Receive(c) ==
  /\ \/ /\ inq[c] > 0
        /\ Send(c, Header + inq[c])
        /\ inq' = [inq EXCEPT ![c] = 0]
     \/ /\ inq[c] = 0 \/ peer[c] = "reset"
        /\ UNCHANGED <<memberVars, inq>>
  /\ n_send' = Min({BufferSize, next_send_valid_index_'[c]})
  /\ UNCHANGED <<peer, out, clean, full, drained>>

ThisMsg(c) == Min({next_send_valid_index_[c], n_send})

FirstBytes(c, n) ==
  [i \in 1 .. n |-> IF i <= BufferSize THEN send_buffer_[c][i] ELSE 0]

(* ::send takes n bytes, always from the beginning of the buffer. *)
SendTakes(c, n) ==
  /\ n_send > 0
  /\ peer[c] # "reset" /\ ~full
  /\ out' = [out EXCEPT ![c] = @ \o FirstBytes(c, n)]
  /\ n_send' = n_send - n
  /\ clean' = [clean EXCEPT ![c] = @ /\ n = ThisMsg(c)]
  /\ UNCHANGED <<memberVars, peer, inq, full, drained>>

(* n_send -= -1 *)
AfterError == Min({n_send + 1, SendCap})

(* ::send returns -1, because there is no room or because the peer is gone *)
(* for good.  The loop goes on in both cases, and calls it again and       *)
(* again; at SendCap that is a step that changes nothing.                  *)
SendFails(c) ==
  /\ n_send > 0
  /\ IF peer[c] = "reset"
       THEN send_disconnected_' = [send_disconnected_ EXCEPT ![c] = TRUE] /\ UNCHANGED full
       ELSE full' = TRUE /\ UNCHANGED send_disconnected_
  /\ n_send' = AfterError
  /\ clean' = [clean EXCEPT ![c] = FALSE]
  /\ UNCHANGED <<send_buffer_, next_send_valid_index_, answered, peer, inq, out, drained>>

Emptied(c) == 0

(* The loop is over: next_send_valid_index_ = 0 *)
SendDone(c) ==
  /\ n_send = 0
  /\ next_send_valid_index_' = [next_send_valid_index_ EXCEPT ![c] = Emptied(c)]
  /\ UNCHANGED <<send_buffer_, send_disconnected_, answered, n_send, peer, inq, out, clean,
                 full, drained>>

(* The other end reads, and there is room again.  It need not ever.        *)
Drain ==
  /\ full /\ drained < MaxDrained
  /\ full' = FALSE
  /\ drained' = drained + 1
  /\ UNCHANGED <<memberVars, n_send, peer, inq, out, clean>>

=============================================================================

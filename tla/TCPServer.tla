------------------------------ MODULE TCPServer ------------------------------
(***************************************************************************)
(* TCPServer (sockets/tcp_server.cpp) in a program that calls listen()     *)
(* and then poll() and sendAndRecv() again and again, with clients that    *)
(* connect, ask, close and break off when they like.                       *)
(*                                                                         *)
(* epoll is edge-triggered: a descriptor enters the ready list when        *)
(* something happens to it and leaves it when it is reported.  Only        *)
(* EPOLLIN is asked for, so EPOLLOUT is never reported and send_sockets_   *)
(* stays empty; so does sockets_, into which nothing is ever put, and      *)
(* max_events is 1.                                                        *)
(***************************************************************************)
EXTENDS TCPSocket, SequencesExt

CONSTANTS
  Listener,    (* &listener_socket_                                         *)
  MaxRequests, (* bytes each client sends, a bound                          *)
  MaxFds       (* bound on the connections there are descriptors for        *)

ASSUME ServerAssumption ==
  /\ Listener \notin Conn
  /\ MaxRequests \in [Conn -> Nat]
  /\ MaxFds \in Nat

VARIABLES
  spc,         (* what the server does                                      *)
  at,          (* the place of sendAndRecv() in recv_sockets_               *)
  recv_sockets_, disconnected_sockets_,
  accepted,    (* connections with a TCPSocket of their own                 *)
  interest,    (* epoll: the descriptors it watches                         *)
  ready,       (* epoll: the ready list                                     *)
  backlog,     (* connections that wait to be accepted                      *)
  asked,       (* bytes each client has sent                                *)
  fds          (* descriptors left; none is ever closed                     *)

listVars == <<recv_sockets_, disconnected_sockets_, accepted, interest, fds>>
serverVars == <<socketVars, spc, at, listVars, ready, backlog, asked>>

ServerTypeOK ==
  /\ SocketTypeOK
  /\ spc \in {"down", "idle", "accept", "recv", "send", "exit"}
  /\ at \in 1 .. Cardinality(Conn) + 1
  /\ recv_sockets_ \in Seq(Conn) /\ IsInjective(recv_sockets_)
  /\ disconnected_sockets_ \subseteq Conn
  /\ accepted \subseteq Conn
  /\ interest \subseteq Conn \cup {Listener}
  /\ ready \in Seq(interest) /\ IsInjective(ready)
  /\ backlog \in Seq(Conn) /\ IsInjective(backlog)
  /\ asked \in [Conn -> Nat]
  /\ fds \in 0 .. MaxFds

ServerInit ==
  /\ SocketInit
  /\ spc = "down"
  /\ at = 1
  /\ recv_sockets_ = <<>>
  /\ disconnected_sockets_ = {}
  /\ accepted = {}
  /\ interest = {}
  /\ ready = <<>>
  /\ backlog = <<>>
  /\ asked = [c \in Conn |-> 0]
  /\ fds \in 0 .. MaxFds

(* What epoll_wait reports of a descriptor. *)
Events(s) ==
  IF s = Listener
    THEN IF backlog = <<>> THEN {} ELSE {"EPOLLIN"}
    ELSE (IF inq[s] > 0 \/ peer[s] \in {"closed", "reset"} THEN {"EPOLLIN"} ELSE {})
           \cup (IF peer[s] = "reset" THEN {"EPOLLHUP"} ELSE {})

Woken(s) ==
  IF s \in interest /\ ~Contains(ready, s) THEN Append(ready, s) ELSE ready

Running == spc # "exit"

-----------------------------------------------------------------------------
(* Plausible bugs. *)

HangsUpIgnored(ev)  == FALSE                      (* EPOLLHUP is not looked at    *)
GoOnOnce            == FALSE                      (* one accept for an event      *)
FollowingSkips      == at + 2                     (* every second socket is left  *)
                                                  (* out                          *)

-----------------------------------------------------------------------------
(* listen(): destroy() has nothing to close yet.  Should epoll_create, the *)
(* listener's createSocket() or its registration fail, the ASSERTs that    *)
(* would tell are commented out, and the server watches nothing.           *)
Listen ==
  /\ spc = "down"
  /\ spc' = "idle"
  /\ interest' \in {{Listener}, {}}
  /\ UNCHANGED <<socketVars, at, recv_sockets_, disconnected_sockets_, accepted, fds,
                 ready, backlog, asked>>

(* poll() *)

Added(list, s) == IF Contains(list, s) THEN list ELSE Append(list, s)

HangsUp(ev) == "EPOLLHUP" \in ev

(* Erase-remove. *)
Without(list, gone) ==
  LET kept[n \in 0 .. Len(list)] ==
        IF n = 0 THEN <<>>
        ELSE IF list[n] \in gone THEN kept[n - 1]
        ELSE Append(kept[n - 1], list[n])
  IN  kept[Len(list)]

(* The places of a ready list whose descriptors have something to report. *)
Due(list) == {k \in 1 .. Len(list) : Events(list[k]) # {}}

(* What poll() does with the event of s; recv are the sockets left. *)
Report(s, recv) ==
  IF s = Listener
    THEN /\ spc' = "accept"
         /\ recv_sockets_' = recv
         /\ UNCHANGED disconnected_sockets_
    ELSE /\ recv_sockets_' = Added(recv, s)
         /\ disconnected_sockets_' = disconnected_sockets_
              \cup (IF HangsUp(Events(s)) THEN {s} ELSE {})
         /\ UNCHANGED spc

(* deleteSocket() for all of disconnected_sockets_, which is not cleared,  *)
(* then epoll_wait and its one event at most.                              *)
Poll ==
  LET recv    == Without(recv_sockets_, disconnected_sockets_)
      waiting == Without(ready, disconnected_sockets_)
  IN  /\ spc = "idle"
      /\ interest' = interest \ disconnected_sockets_
      /\ \/ /\ Due(waiting) = {}
            /\ ready' = <<>>
            /\ recv_sockets_' = recv
            /\ UNCHANGED <<spc, disconnected_sockets_>>
         \/ \E k \in Due(waiting) :
              /\ \A j \in Due(waiting) : k <= j
              /\ ready' = SubSeq(waiting, k + 1, Len(waiting))
              /\ Report(waiting[k], recv)
      /\ UNCHANGED <<socketVars, at, accepted, fds, backlog, asked>>

GoOn == TRUE

(* while(have_new_connections): accept takes the first of the backlog and  *)
(* gives it a TCPSocket.                                                   *)
Accept ==
  /\ spc = "accept"
  /\ backlog # <<>> /\ fds > 0
  /\ LET s == Head(backlog)
     IN  /\ accepted' = accepted \cup {s}
         /\ interest' = interest \cup {s}
         /\ ready' = IF Events(s) = {} THEN ready ELSE Append(ready, s)
         /\ recv_sockets_' = Added(recv_sockets_, s)
  /\ backlog' = Tail(backlog)
  /\ fds' = fds - 1
  /\ spc' = IF GoOn THEN "accept" ELSE "idle"
  /\ UNCHANGED <<socketVars, at, disconnected_sockets_, asked>>

(* The options or the registration of the new descriptor fail: ASSERT. *)
AcceptDies ==
  /\ spc = "accept"
  /\ backlog # <<>> /\ fds > 0
  /\ spc' = "exit"
  /\ UNCHANGED <<socketVars, at, listVars, ready, backlog, asked>>

(* accept returns -1, as well when there are no descriptors left. *)
AcceptEnds ==
  /\ spc = "accept"
  /\ backlog = <<>> \/ fds = 0
  /\ spc' = "idle"
  /\ UNCHANGED <<socketVars, at, listVars, ready, backlog, asked>>

-----------------------------------------------------------------------------
(* sendAndRecv() *)

StartSendAndRecv ==
  /\ spc = "idle"
  /\ spc' = "recv"
  /\ UNCHANGED <<socketVars, at, listVars, ready, backlog, asked>>

Current == recv_sockets_[at]

RecvNext ==
  /\ spc = "recv"
  /\ at <= Len(recv_sockets_)
  /\ Receive(Current)
  /\ spc' = "send"
  /\ UNCHANGED <<at, listVars, ready, backlog, asked>>

SendLoop ==
  /\ spc = "send"
  /\ \/ \E n \in 1 .. ThisMsg(Current) : SendTakes(Current, n)
     \/ SendFails(Current)
  /\ UNCHANGED <<spc, at, listVars, ready, backlog, asked>>

Following == at + 1

NextSocket ==
  /\ spc = "send"
  /\ SendDone(Current)
  /\ spc' = "recv"
  /\ at' = Following
  /\ UNCHANGED <<listVars, ready, backlog, asked>>

EndSendAndRecv ==
  /\ spc = "recv"
  /\ at > Len(recv_sockets_)
  /\ spc' = "idle"
  /\ at' = 1
  /\ UNCHANGED <<socketVars, listVars, ready, backlog, asked>>

-----------------------------------------------------------------------------
(* The clients, and what the kernel does for them. *)

(* The backlog is longer than the clients are many.  A connection to       *)
(* a listener that is not watched is none to this server.                  *)
Connect(c) ==
  /\ peer[c] = "none"
  /\ Listener \in interest
  /\ peer' = [peer EXCEPT ![c] = "open"]
  /\ backlog' = Append(backlog, c)
  /\ ready' = Woken(Listener)
  /\ UNCHANGED <<memberVars, n_send, inq, out, clean, full, drained, spc, at, listVars, asked>>

Arrive(c) ==
  /\ peer[c] = "open"
  /\ inq[c] < RcvLimit
  /\ inq' = [inq EXCEPT ![c] = @ + 1]
  /\ asked' = [asked EXCEPT ![c] = @ + 1]
  /\ ready' = Woken(c)
  /\ UNCHANGED <<memberVars, n_send, peer, out, clean, full, drained, spc, at, listVars, backlog>>

Ask(c) == asked[c] < MaxRequests[c] /\ Arrive(c)

(* A FIN, or the reset that follows a crash or an answer nobody reads. *)
Close(c, how) ==
  /\ peer[c] \in {"open", "closed"} \ {how}
  /\ peer' = [peer EXCEPT ![c] = how]
  /\ ready' = Woken(c)
  /\ UNCHANGED <<memberVars, n_send, inq, out, clean, full, drained, spc, at, listVars,
                 backlog, asked>>

Room == Drain /\ UNCHANGED <<spc, at, listVars, ready, backlog, asked>>

-----------------------------------------------------------------------------
Inside == Listen \/ Accept \/ AcceptDies \/ AcceptEnds
            \/ RecvNext \/ SendLoop \/ NextSocket \/ EndSendAndRecv

Clients ==
  \/ \E c \in Conn : Connect(c) \/ Ask(c) \/ \E how \in {"closed", "reset"} : Close(c, how)
  \/ Room

ServerStep == Poll \/ StartSendAndRecv \/ Inside \/ Clients

-----------------------------------------------------------------------------
(* Properties. *)

(* While no send failed or took a part only, the client gets the bytes of  *)
(* its answers in order and once each, all of them when sendAndRecv()      *)
(* has done with its socket.                                               *)
StreamIntact ==
  \A c \in Conn : clean[c] =>
    /\ out[c] = [i \in 1 .. Len(out[c]) |-> i]
    /\ Len(out[c]) = answered[c]
         \/ (spc = "send" /\ Current = c /\ Len(out[c]) < answered[c])

(* What goes out is of the answer that is being sent. *)
Fresh ==
  \A c \in Conn : \A j \in Len(out[c]) + 1 .. Len(out'[c]) :
    out'[c][j] \in answered[c] - next_send_valid_index_[c] + 1 .. answered[c]

(* Whatever fails, what goes out is of the answer that is being sent:      *)
(* nothing of an earlier one, and no cell that was never written.          *)
NeverStale == [][Fresh]_serverVars

(* The send loop calls ::send to no avail: the client is gone, or does not *)
(* read what it is sent.                                                   *)
Held == spc = "send" /\ n_send > 0 /\ (peer[Current] = "reset" \/ full)

(* tcp_socket.cpp:89: "if ::send returned -1 then we need to stop". *)
StopsAfterError == [][SendFails(Current) => n_send' = 0]_serverVars

=============================================================================

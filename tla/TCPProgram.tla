------------------------------ MODULE TCPProgram ------------------------------
(***************************************************************************)
(* TCPServer in a program: either with any clients, or in main() of        *)
(* sockets/program.cpp, where one thread is the server and all of its      *)
(* clients.  The clients' TCPSockets are in this module, as far as they    *)
(* differ from the server's: a message is one unit, sent whole or not.     *)
(*                                                                         *)
(* connect() does not wait.  main() sleeps between what a client sends and *)
(* the server's turn, so what is sent over the loopback interface has      *)
(* arrived by then and no connection is pending any more; it does not      *)
(* sleep between connect() and the poll() behind it.                       *)
(***************************************************************************)
EXTENDS TCPServer

CONSTANTS
  Order,    (* the clients in the order of the vector clients *)
  Rounds    (* bound of itr                                   *)

ASSUME ProgramAssumption ==
  /\ Order \in Seq(Conn) /\ IsInjective(Order) /\ ToSet(Order) = Conn /\ Len(Order) > 1
  /\ Rounds \in Nat \ {0}

VARIABLES
  mpc,        (* where main() is; "none" in a program with any clients  *)
  i, itr,     (* its loop variables, from 1; itr = 0 while connecting   *)
  link,       (* what connect() has come to, per client                 *)
  rest,       (* n_send of the client that is sending                   *)
  taken       (* bytes each client has received                         *)

mainVars == <<mpc, i, itr, link, rest, taken>>
vars == <<serverVars, mainVars>>

TypeOK ==
  /\ ServerTypeOK
  /\ mpc \in {"none", "listen", "connect", "poll", "polled", "recv", "send",
              "serve", "served", "done"}
  /\ i \in 1 .. Len(Order)
  /\ itr \in 0 .. Rounds
  /\ link \in [Conn -> {"none", "pending", "made", "failed", "elsewhere"}]
  /\ rest \in 0 .. SendCap
  /\ taken \in [Conn -> Nat]

Init ==
  /\ ServerInit
  /\ mpc \in {"none", "listen"}
  /\ i = 1 /\ itr = 0
  /\ link = [c \in Conn |-> "none"]
  /\ rest = 0
  /\ taken = [c \in Conn |-> 0]

Client == Order[i]

-----------------------------------------------------------------------------
(* Plausible bugs. *)

RoundLess(first) ==                 (* a round less than there should be     *)
  IF i < Len(Order)
    THEN i' = i + 1 /\ mpc' = first /\ UNCHANGED itr
    ELSE /\ i' = 1
         /\ itr' = IF itr < Rounds - 1 THEN itr + 1 ELSE itr
         /\ mpc' = IF itr < Rounds - 1 THEN "recv" ELSE "done"

-----------------------------------------------------------------------------
MainListen ==
  /\ mpc = "listen"
  /\ Listen
  /\ mpc' = "connect"
  /\ UNCHANGED <<i, itr, link, rest, taken>>

(* clients[i]->connect(): nobody looks at its result, and createSocket()   *)
(* itself takes a refused connection for a made one.                       *)
ClientConnect ==
  /\ mpc = "connect"
  /\ link' = [link EXCEPT ![Client] = "pending"]
  /\ mpc' = "poll"
  /\ UNCHANGED <<serverVars, i, itr, rest, taken>>

(* What comes of it, while main() goes on: at once, later or, if there was *)
(* nothing to connect, before it began.  Where the server does not listen, *)
(* somebody else may.                                                      *)
Settle(c) ==
  /\ link[c] = "pending"
  /\ \/ Connect(c) /\ link' = [link EXCEPT ![c] = "made"]
     \/ /\ \E how \in {"failed"} \cup (IF Listener \in interest THEN {} ELSE {"elsewhere"}) :
             link' = [link EXCEPT ![c] = how]
        /\ UNCHANGED serverVars
  /\ UNCHANGED <<mpc, i, itr, rest, taken>>

MainPoll ==
  /\ mpc = "poll"
  /\ itr > 0 => \A c \in Conn : link[c] # "pending"
  /\ Poll
  /\ mpc' = "polled"
  /\ UNCHANGED <<i, itr, link, rest, taken>>

(* The server is in poll(), or in sendAndRecv(). *)
InCall == mpc \in {"polled", "served"} /\ spc # "idle"

ServerCall ==
  /\ InCall
  /\ Inside
  /\ UNCHANGED mainVars

(* ++i, and the loop around it. *)
NextTurn(first) ==
  IF i < Len(Order)
    THEN i' = i + 1 /\ mpc' = first /\ UNCHANGED itr
    ELSE /\ i' = 1
         /\ itr' = IF itr < Rounds THEN itr + 1 ELSE itr
         /\ mpc' = IF itr < Rounds THEN "recv" ELSE "done"

AfterPoll ==
  /\ mpc = "polled" /\ spc = "idle"
  /\ IF itr = 0
       THEN NextTurn("connect")
       ELSE mpc' = "serve" /\ UNCHANGED <<i, itr>>
  /\ UNCHANGED <<serverVars, link, rest, taken>>

-----------------------------------------------------------------------------
(* send() and sendAndRecv() of clients[i]. *)

(* recvmsg takes all that has come, and the callback empties the buffer.   *)
AllTaken == IF link[Client] = "made" THEN Len(out[Client]) ELSE taken[Client]

(* Then n_send is the length of the message. *)
ClientReceive ==
  /\ mpc = "recv"
  /\ taken' = [taken EXCEPT ![Client] = AllTaken]
  /\ rest' = 1
  /\ mpc' = "send"
  /\ UNCHANGED <<serverVars, i, itr, link>>

Remaining == rest - 1

ClientSendTakes ==
  /\ mpc = "send" /\ rest > 0
  /\ ~full
  /\ \/ link[Client] = "made" /\ Arrive(Client)
     \/ link[Client] = "elsewhere" /\ UNCHANGED serverVars
  /\ rest' = Remaining
  /\ UNCHANGED <<mpc, i, itr, link, taken>>

(* As in SendFails: no room, or no connection, or none yet.  The message   *)
(* goes out once more for each failure, if it goes out at all.             *)
ClientSendFails ==
  /\ mpc = "send" /\ rest > 0
  /\ full' = (full \/ link[Client] \in {"made", "elsewhere"})
  /\ UNCHANGED <<memberVars, n_send, peer, inq, out, clean, drained, spc, at, listVars,
                 ready, backlog, asked>>
  /\ rest' = Min({rest + 1, SendCap})
  /\ UNCHANGED <<mpc, i, itr, link, taken>>

ClientSent ==
  /\ mpc = "send" /\ rest = 0
  /\ mpc' = "poll"
  /\ UNCHANGED <<serverVars, i, itr, link, rest, taken>>

-----------------------------------------------------------------------------
MainServe ==
  /\ mpc = "serve"
  /\ StartSendAndRecv
  /\ mpc' = "served"
  /\ UNCHANGED <<i, itr, link, rest, taken>>

AfterServe ==
  /\ mpc = "served" /\ spc = "idle"
  /\ NextTurn("recv")
  /\ UNCHANGED <<serverVars, link, rest, taken>>

main ==
  /\ Running
  /\ \/ MainListen \/ ClientConnect \/ MainPoll \/ ServerCall \/ AfterPoll
     \/ ClientReceive \/ ClientSendTakes \/ ClientSendFails \/ ClientSent
     \/ MainServe \/ AfterServe

(* What goes on beside main(). *)
Network ==
  /\ mpc # "none" /\ Running
  /\ (\E c \in Conn : Settle(c)) \/ (Room /\ UNCHANGED mainVars)

Served(action) == mpc = "none" /\ Running /\ action /\ UNCHANGED mainVars

Next == main \/ Network \/ Served(ServerStep)

Spec == Init /\ [][Next]_vars

(* The program's thread runs; one with other clients calls both functions  *)
(* of the server again and again.  TCP ends each attempt to connect, one   *)
(* way or the other.  Nobody has to read what it is sent.                  *)
FairSpec ==
  /\ Spec
  /\ WF_vars(main \/ Served(Inside)) /\ WF_vars(Running /\ \E c \in Conn : Settle(c))
  /\ WF_vars(Served(StartSendAndRecv)) /\ SF_vars(Served(Poll))

-----------------------------------------------------------------------------
(* Properties. *)

(* So is a client of main(), while its connection is none. *)
ClientHeld == mpc = "send" /\ (link[Client] = "failed" \/ full)

(* The server's ASSERT exits, or the program never again leaves a send     *)
(* loop, whose ::send fails again and again: nobody is served any more.    *)
Halts ==
  /\ <>[](~Running \/ spc = "send" \/ mpc = "send")
  /\ []<>(~Running \/ Held \/ ClientHeld)

(* Unless that happens, every connection is accepted in the end, although  *)
(* poll() takes one event at a time and the listener's edge is not         *)
(* repeated, or the descriptors are used up, as none is ever closed; and   *)
(* what the client of an accepted connection asks is taken up, again and   *)
(* again.  The one thing a client can do against that is to break off, or  *)
(* to stop reading, at the wrong moment.                                   *)
Serves ==
  \/ Halts
  \/ /\ <>[](\A c \in Conn : peer[c] # "none" => c \in accepted \/ fds = 0)
     /\ \A c \in Conn : []<>(c \in accepted => inq[c] = 0 \/ peer[c] = "reset")

(* A connection that was broken off leaves the list of those to receive    *)
(* from, for good, unless the server is kept in a send loop, be it of      *)
(* another client.                                                         *)
DeadDropped ==
  Halts \/ <>[](\A c \in accepted : peer[c] = "reset" => ~Contains(recv_sockets_, c))

(* Who waits when main() goes on to the next client.  Each request on an   *)
(* accepted connection has been taken up, and each connection made is      *)
(* accepted, if there was a descriptor for it; but one that was pending at *)
(* the poll() behind its connect(), and then at the last of them, may wait *)
(* until the second poll() of the first round, with its event in epoll.    *)
NobodyWaits ==
  mpc \in {"connect", "recv", "done"} =>
    \A c \in Conn : link[c] = "made" =>
      IF c \in accepted THEN inq[c] = 0
      ELSE \/ fds = 0
           \/ (itr = 0 \/ (itr = 1 /\ i <= 2)) /\ Contains(ready, Listener)

(* What a client has when main() returns.  It has sent a message in every  *)
(* round.  The answer of the last round is sent, but nobody receives it.   *)
Outcome(c) ==
  CASE link[c] = "made"      ->
         /\ asked[c] >= Rounds
         /\ IF c \notin accepted THEN fds = 0 /\ taken[c] = 0
            ELSE asked[c] = Rounds /\ clean[c] => taken[c] = (Rounds - 1) * (Header + 1)
    [] link[c] = "elsewhere" -> Listener \notin interest
    [] OTHER                 -> FALSE

(* main() ends in one of three ways: it returns, and then every client is  *)
(* connected and has its answers; the server's ASSERT exits; or it is for  *)
(* ever in a send loop, of a client that is not connected or one that      *)
(* finds no room.                                                          *)
MainOutcome ==
  Halts \/ <>[](mpc = "none" \/ (mpc = "done" /\ \A c \in Conn : Outcome(c)))

=============================================================================

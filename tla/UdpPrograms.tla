----------------------------- MODULE UdpPrograms -----------------------------
(***************************************************************************)
(* The receiving programs of UDP_sockets: udp_server.cpp with each of its  *)
(* three loops, and udp_multicast_subscriber.cpp, over a network that      *)
(* loses, repeats and reorders what udp_client.cpp,                        *)
(* udp_multicast_sender.cpp and others send.                               *)
(*                                                                         *)
(* The k-th datagram sent consists of bytes k.  The byte behind the buffer *)
(* is part of the state; text without a terminator ends there.             *)
(***************************************************************************)
EXTENDS Integers, Sequences, FiniteSetsExt

CONSTANTS
  BufSize,      (* BUFF_SIZE; sizeof(buffer) of the subscriber               *)
  HelloLen,     (* strlen(hello)                                             *)
  MaxLen,       (* bound on the bytes of a datagram                          *)
  MaxSent,      (* bound on the datagrams sent                               *)
  MaxArrivals,  (* bound on the datagrams that reach the socket              *)
  QueueLimit,   (* datagrams the kernel holds for the socket                 *)
  MaxErrors     (* bound on the calls that fail in the loops                 *)

ASSUME UdpAssumption ==
  /\ BufSize \in Nat \ {0} /\ HelloLen \in 1 .. MaxLen
  /\ {MaxLen, MaxSent, MaxArrivals, QueueLimit, MaxErrors} \subseteq Nat

VARIABLES
  program,
  upc,          (* where it is                                               *)
  made,         (* set-up: calls made so far                                 *)
  good,         (* set-up: those that succeeded                              *)
  buffer,
  queue,        (* datagrams in the socket                                   *)
  received,     (* history: what recv has given                              *)
  printed,      (* the lines, each with the number of datagrams before it    *)
  spoilt,       (* the byte behind the buffer was written                    *)
  cause,        (* why the program has ended                                 *)
  net,          (* datagrams sent                                            *)
  arrivals, errors

netVars == <<net, arrivals>>
udpVars == <<program, upc, made, good, buffer, queue, received, printed, spoilt,
             cause, netVars, errors>>

Server  == {"run_loop", "run_loop_with_select", "run_with_epoll_EPOLLIN"}
Program == Server \cup {"subscriber"}

Nul == 0
Junk == -1
Datagram == UNION {{[p \in 1 .. len |-> k] : k \in 1 .. MaxSent} : len \in 0 .. MaxLen}

Polling == <<"epoll_create1", "epoll_ctl">>
Setup ==
  CASE program = "subscriber" -> <<"socket", "bind", "IP_ADD_MEMBERSHIP", "fcntl">> \o Polling
    [] program = "run_with_epoll_EPOLLIN" -> <<"socket", "fcntl", "bind">> \o Polling
    [] OTHER -> <<"socket", "fcntl", "bind">>

(* The calls whose failure ends the program. *)
Checked ==
  {"epoll_create1", "epoll_ctl"} \cup (IF program \in Server THEN {"socket", "bind"} ELSE {})

UdpTypeOK ==
  /\ program \in Program
  /\ upc \in {"setup", "wait", "recv", "exit"}
  /\ made \in 0 .. Len(Setup)
  /\ good \subseteq {Setup[k] : k \in 1 .. made}
  /\ buffer \in [1 .. BufSize + 1 -> Junk .. MaxSent]
  /\ queue \in Seq(Datagram) /\ Len(queue) <= QueueLimit
  /\ received \in Seq(Datagram)
  /\ spoilt \in BOOLEAN
  /\ cause \in {"none", "setup", "wait", "recv"}
  /\ net \in Seq(Datagram)
  /\ arrivals \in 0 .. MaxArrivals /\ errors \in 0 .. MaxErrors

UdpInit ==
  /\ program \in Program
  /\ upc = "setup"
  /\ made = 0 /\ good = {}
  /\ buffer \in [1 .. BufSize + 1 -> {Nul, Junk}]
  /\ queue = <<>> /\ received = <<>> /\ printed = <<>>
  /\ spoilt = FALSE /\ cause = "none"
  /\ net = <<>>
  /\ arrivals = 0 /\ errors = 0

-----------------------------------------------------------------------------
(* Plausible bugs. *)

TerminatedLess(b, n)  == b           (* buffer[n] = '\0' is left out          *)
PrintedOld            == buffer      (* the line is made before recv          *)
AfterErrorEnds        == "exit"      (* break for continue                    *)

-----------------------------------------------------------------------------
(* Set-up. *)

FirstOfLoop == IF program = "run_loop" THEN "recv" ELSE "wait"

(* Without a socket no call on it can succeed. *)
SetUp ==
  LET call == Setup[made + 1]
  IN  /\ upc = "setup"
      /\ made' = made + 1
      /\ \/ /\ call \in {"socket", "epoll_create1"} \/ "socket" \in good
            /\ good' = good \cup {call}
            /\ upc' = IF made' = Len(Setup) THEN FirstOfLoop ELSE "setup"
            /\ UNCHANGED cause
         \/ /\ call \notin Checked
            /\ UNCHANGED <<good, upc, cause>>
         \/ /\ call \in Checked
            /\ upc' = "exit" /\ cause' = "setup"
            /\ UNCHANGED good
      /\ UNCHANGED <<program, buffer, queue, received, printed, spoilt, netVars, errors>>

-----------------------------------------------------------------------------
(* The loops. *)

(* select, and epoll_wait for a level: they return while there is a        *)
(* datagram, and a turn of a server's loop takes one.                      *)
Wait ==
  /\ upc = "wait"
  /\ queue # <<>>
  /\ upc' = "recv"
  /\ UNCHANGED <<program, made, good, buffer, queue, received, printed, spoilt, cause,
                 netVars, errors>>

End(why) ==
  /\ upc' = "exit" /\ cause' = why
  /\ UNCHANGED <<program, made, good, buffer, queue, received, printed, spoilt, netVars>>

(* Interrupted by a signal, for instance.  The subscriber's nfds is -1,    *)
(* and its for loop does nothing.                                          *)
WaitFails ==
  /\ upc = "wait"
  /\ errors < MaxErrors /\ errors' = errors + 1
  /\ IF program \in Server THEN End("wait")
     ELSE UNCHANGED <<program, upc, made, good, buffer, queue, received, printed, spoilt,
                      cause, netVars>>

AfterRecv == IF program \in {"run_loop", "subscriber"} THEN "recv" ELSE "wait"

(* printf's %s, or << of a char*. *)
Text(b) ==
  LET ends == {p \in 1 .. BufSize + 1 : b[p] = Nul}
      end  == IF ends = {} THEN BufSize + 1 ELSE Min(ends) - 1
  IN  [p \in 1 .. end |-> b[p]]

Terminated(b, n) == [b EXCEPT ![n + 1] = Nul]

PrintedBuffer == buffer'

PrintLine ==
  printed' = Append(printed, [text |-> Text(PrintedBuffer), after |-> Len(received')])

(* recv cuts a datagram that is too long.  Only a server terminates what   *)
(* it has got, behind the buffer if that is full.                          *)
Take ==
  LET d == Head(queue)
      n == Min({Len(d), BufSize})
      b == [p \in 1 .. BufSize + 1 |-> IF p <= n THEN d[p] ELSE buffer[p]]
  IN  /\ upc = "recv" /\ queue # <<>>
      /\ queue' = Tail(queue)
      /\ received' = Append(received, SubSeq(d, 1, n))
      /\ buffer' = IF program \in Server THEN Terminated(b, n) ELSE b
      /\ spoilt' = (spoilt \/ (program \in Server /\ n = BufSize))
      /\ PrintLine
      /\ upc' = AfterRecv
      /\ UNCHANGED <<program, made, good, cause, netVars, errors>>

(* EAGAIN, if fcntl did not fail: run_loop sleeps and goes on, the others  *)
(* wait again.                                                             *)
NothingThere ==
  /\ upc = "recv" /\ queue = <<>>
  /\ "fcntl" \in good
  /\ upc' = IF program = "run_loop" THEN "recv" ELSE "wait"
  /\ UNCHANGED <<program, made, good, buffer, queue, received, printed, spoilt, cause,
                 netVars, errors>>

AfterError == AfterRecv

(* Any other error ends run_loop; the subscriber prints what its buffer    *)
(* holds.                                                                  *)
RecvFails ==
  /\ upc = "recv"
  /\ errors < MaxErrors /\ errors' = errors + 1
  /\ CASE program = "run_loop" -> End("recv")
       [] OTHER ->
            /\ upc' = AfterError
            /\ cause' = IF upc' = "exit" THEN "recv" ELSE cause
            /\ UNCHANGED <<program, made, good, buffer, queue, received, spoilt, netVars>>
            /\ IF program = "subscriber" THEN PrintLine ELSE UNCHANGED printed

Loop == Wait \/ WaitFails \/ Take \/ NothingThere \/ RecvFails

-----------------------------------------------------------------------------
(* The senders, and the network. *)

SendTo(len) ==
  /\ Len(net) < MaxSent
  /\ net' = Append(net, [p \in 1 .. len |-> Len(net) + 1])
  /\ UNCHANGED <<program, upc, made, good, buffer, queue, received, printed, spoilt,
                 cause, arrivals, errors>>

ClientSends == program \in Server /\ SendTo(HelloLen)

(* A line of input.  An empty one, as getline leaves at the end of the     *)
(* input, is not sent.                                                     *)
SenderSends == program = "subscriber" /\ \E len \in 1 .. MaxLen : SendTo(len)

OthersSend == \E len \in 0 .. MaxLen : SendTo(len)

(* A datagram sent arrives any number of times, at any time, or never: all *)
(* are lost for which the socket is not bound or has no room.              *)
Arrive ==
  /\ upc # "exit" /\ "bind" \in good
  /\ arrivals < MaxArrivals /\ Len(queue) < QueueLimit
  /\ \E k \in DOMAIN net : queue' = Append(queue, net[k])
  /\ arrivals' = arrivals + 1
  /\ UNCHANGED <<program, upc, made, good, buffer, received, printed, spoilt, cause, net, errors>>

(* The kernel finds a wrong checksum when it looks at the datagram, even   *)
(* after reporting it.                                                     *)
Discard ==
  /\ upc # "exit" /\ queue # <<>>
  /\ queue' = Tail(queue)
  /\ UNCHANGED <<program, upc, made, good, buffer, received, printed, spoilt, cause,
                 netVars, errors>>

Network == ClientSends \/ SenderSends \/ OthersSend \/ Arrive \/ Discard

UdpNext == SetUp \/ Loop \/ Network

-----------------------------------------------------------------------------
(* Properties. *)

Lines ==
  IF program = "subscriber" THEN received
  ELSE [k \in 1 .. Len(printed) |-> printed[k].text]

R == INSTANCE Receiver WITH
       Size <- BufSize, Limit <- QueueLimit, lines <- Lines, up <- (upc # "exit")

(* Whatever the buffer held before, each loop of the server says what each *)
(* datagram holds, once and in order, however the network has treated them *)
(* and whatever fails, and only one that fills the buffer has its          *)
(* terminator written behind it.  The subscriber takes them so.            *)
ImplementsReceiver == R!Spec

(* What the subscriber prints, without a terminator: of each position, the *)
(* last byte received there, so that the end of an earlier and longer      *)
(* datagram follows a shorter or an empty one, and comes again after an    *)
(* error.                                                                  *)
StaleTail ==
  program = "subscriber" =>
    \A k \in DOMAIN printed :
      LET line == printed[k]
          With(p) == {q \in 1 .. line.after : Len(received[q]) >= p}
      IN  \A p \in 1 .. BufSize : With(p) # {} =>
            p <= Len(line.text) /\ line.text[p] = received[Max(With(p))][p]

(* The socket's queue is emptied again and again: one datagram a turn is   *)
(* enough, and so is a wait that reports a level.  It ends otherwise only  *)
(* when the set-up fails, run_loop's recvfrom, or the wait of the other    *)
(* two; a single interrupted wait is enough for them.                      *)
Fatal == CASE program = "run_loop" -> {"setup", "recv"}
           [] program = "subscriber" -> {"setup"}
           [] OTHER -> {"setup", "wait"}

TakesAll == queue # <<>> ~> (queue = <<>> \/ cause \in Fatal)

=============================================================================

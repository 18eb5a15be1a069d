---------------------------- MODULE SocketPrograms ----------------------------
(***************************************************************************)
(* The two ways sockets are made and used without a TCPServer: one call of *)
(* createSocket(), or one of the programs of UDP_sockets.                  *)
(***************************************************************************)
EXTENDS CreateSocket, UdpPrograms

VARIABLE uses

vars == <<createVars, udpVars, uses>>

TypeOK ==
  /\ CreateTypeOK
  /\ UdpTypeOK
  /\ uses \in {"createSocket", "UDP_sockets"}

Init ==
  /\ CreateInit
  /\ UdpInit
  /\ \/ uses = "createSocket" /\ program = "run_loop" /\ buffer = [p \in 1 .. BufSize + 1 |-> Nul]
     \/ uses = "UDP_sockets" /\ arg = CHOOSE a \in Args : TRUE

createSocket == uses = "createSocket" /\ CreateNext /\ UNCHANGED <<udpVars, uses>>

UDP_sockets(action) == uses = "UDP_sockets" /\ action /\ UNCHANGED <<createVars, uses>>

Next == createSocket \/ UDP_sockets(UdpNext)

Spec == Init /\ [][Next]_vars

(* A program's process runs. *)
FairSpec == Spec /\ WF_vars(UDP_sockets(SetUp)) /\ WF_vars(UDP_sockets(Loop))

=============================================================================

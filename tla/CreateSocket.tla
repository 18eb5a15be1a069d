----------------------------- MODULE CreateSocket -----------------------------
(***************************************************************************)
(* createSocket() of sockets/socket_utils.cpp: the calls it makes for each *)
(* address, what it does when one fails, and what it leaves behind.        *)
(***************************************************************************)
EXTENDS Integers, FiniteSets, SequencesExt

CONSTANTS MaxAddrs   (* bound on the addresses getaddrinfo finds *)

ASSUME MaxAddrsAssumption == MaxAddrs \in Nat \ {0}

VARIABLES
  arg,         (* the arguments                                             *)
  cpc,         (* where createSocket() is                                   *)
  left,        (* addresses from rp on                                      *)
  step,        (* the place in Order of rp's next call, 0 before socket()   *)
  fd, ret,
  open,        (* descriptors open, numbered as they are made               *)
  calls,       (* what was done to each descriptor, in order                *)
  connected,   (* what connect() came to, per descriptor                    *)
  result       (* the address list is allocated                             *)

createVars == <<arg, cpc, left, step, fd, ret, open, calls, connected, result>>

Args == [is_udp : BOOLEAN, is_blocking : BOOLEAN, is_listening : BOOLEAN,
         ttl : BOOLEAN, needs_so_timestamp : BOOLEAN, octet : {10, 127, 224}]

Call == {"setNonBlocking", "setNoDelay", "connect", "SO_REUSEADDR", "bind",
         "listen", "setMcastTTL", "setTTL", "setSOTimestamp"}

CreateInit ==
  /\ arg \in Args
  /\ cpc = "getaddrinfo"
  /\ left = 0 /\ step = 0
  /\ fd = -1 /\ ret = -1
  /\ open = {}
  /\ calls = [d \in 1 .. MaxAddrs |-> <<>>]
  /\ connected = [d \in 1 .. MaxAddrs |-> "no"]
  /\ result = FALSE

-----------------------------------------------------------------------------
(* Plausible bug: the options after the endpoint, as for a UDP socket. *)
OrderLate ==
  <<"connect", "bind", "listen", "setNonBlocking", "setNoDelay", "SO_REUSEADDR",
    "setMcastTTL", "setTTL", "setSOTimestamp">>

(* The first octet of the address has one of the bits 0xe0. *)
IsMulticast == (arg.octet \div 32) % 8 # 0

Order ==
  <<"setNonBlocking", "setNoDelay", "connect", "SO_REUSEADDR", "bind", "listen",
    "setMcastTTL", "setTTL", "setSOTimestamp">>

Needed(c) ==
  CASE c = "setNonBlocking" -> ~arg.is_blocking
    [] c = "setNoDelay"     -> ~arg.is_blocking /\ ~arg.is_udp
    [] c = "connect"        -> ~arg.is_listening
    [] c \in {"SO_REUSEADDR", "bind"} -> arg.is_listening
    [] c = "listen"         -> ~arg.is_udp /\ arg.is_listening
    [] c = "setMcastTTL"    -> arg.is_udp /\ arg.ttl /\ IsMulticast
    [] c = "setTTL"         -> arg.is_udp /\ arg.ttl /\ ~IsMulticast
    [] c = "setSOTimestamp" -> arg.needs_so_timestamp

(* The place of the next call that is asked for, behind Order if none is.  *)
After(k) ==
  Min({j \in k + 1 .. Len(Order) + 1 : j \in DOMAIN Order => Needed(Order[j])})

CreateTypeOK ==
  /\ arg \in Args
  /\ cpc \in {"getaddrinfo", "loop", "returned"}
  /\ left \in 0 .. MaxAddrs
  /\ step \in 0 .. Len(Order) + 1
  /\ fd \in -1 .. MaxAddrs /\ ret \in -1 .. MaxAddrs
  /\ open \subseteq 1 .. MaxAddrs
  /\ calls \in [1 .. MaxAddrs -> Seq(Call)]
  /\ connected \in [1 .. MaxAddrs -> {"no", "yes", "pending", "failed"}]
  /\ result \in BOOLEAN

(* Every error is answered with -1, whatever is open and allocated. *)
Fail ==
  /\ cpc' = "returned"
  /\ ret' = -1
  /\ UNCHANGED <<arg, left, step, fd, open, calls, connected, result>>

GetAddrInfo ==
  /\ cpc = "getaddrinfo"
  /\ \/ Fail
     \/ /\ left' \in 1 .. MaxAddrs
        /\ result' = TRUE
        /\ cpc' = "loop"
        /\ UNCHANGED <<arg, step, fd, ret, open, calls, connected>>

(* fd = socket(...): the descriptor of the address before stays open. *)
Socket ==
  /\ cpc = "loop" /\ left > 0 /\ step = 0
  /\ \/ LET new == Cardinality(open) + 1
        IN  /\ fd' = new
            /\ open' = open \cup {new}
            /\ step' = After(0)
            /\ UNCHANGED <<arg, cpc, left, ret, calls, connected, result>>
     \/ /\ cpc' = "returned" /\ fd' = -1 /\ ret' = -1
        /\ UNCHANGED <<arg, left, step, open, calls, connected, result>>

(* Plausible bug: rp stays where it is. *)
NextStepSame == IF After(step) > Len(Order) THEN 0 ELSE After(step)

NextStep == After(step)

Done(c) ==
  /\ calls' = [calls EXCEPT ![fd] = Append(@, c)]
  /\ step' = NextStep
  /\ UNCHANGED <<arg, cpc, left, fd, ret, open, result>>

(* connect() == 1 is never true: a connection refused goes on like a made  *)
(* one.  It can only be in progress on a stream that does not block.       *)
Connect ==
  /\ cpc = "loop" /\ step \in DOMAIN Order
  /\ Order[step] = "connect"
  /\ \E how \in {"yes", "failed"}
           \cup (IF arg.is_blocking \/ arg.is_udp THEN {} ELSE {"pending"}) :
       connected' = [connected EXCEPT ![fd] = how]
  /\ Done("connect")

(* A datagram socket knows no options of the level IPPROTO_TCP. *)
NoSuchLevel(c) == c \in {"setTTL", "setMcastTTL"}

(* Any other call: it succeeds, or createSocket() returns. *)
Configure ==
  /\ cpc = "loop" /\ step \in DOMAIN Order
  /\ Order[step] # "connect"
  /\ \/ Fail
     \/ ~NoSuchLevel(Order[step]) /\ Done(Order[step]) /\ UNCHANGED connected

NextAddress ==
  /\ cpc = "loop" /\ left > 0 /\ step > Len(Order)
  /\ left' = left - 1
  /\ step' = 0
  /\ UNCHANGED <<arg, cpc, fd, ret, open, calls, connected, result>>

(* freeaddrinfo(result); return fd *)
Return ==
  /\ cpc = "loop" /\ left = 0
  /\ cpc' = "returned"
  /\ ret' = fd
  /\ result' = FALSE
  /\ UNCHANGED <<arg, left, step, fd, open, calls, connected>>

CreateNext == GetAddrInfo \/ Socket \/ Connect \/ Configure \/ NextAddress \/ Return

-----------------------------------------------------------------------------
(* Properties. *)

Had(d, c) == \E i \in 1 .. Len(calls[d]) : calls[d][i] = c

(* Call c comes to descriptor d only after call first. *)
OnlyAfter(d, first, c) ==
  \A k \in 1 .. Len(calls[d]) :
    calls[d][k] = c => \E i \in 1 .. Len(calls[d]) : i < k /\ calls[d][i] = first

(* No descriptor made, returned or left behind, meets a call too early:    *)
(* "We have to set non-blocking and delay before connect() !"              *)
(* (socket_utils.cpp:120), "We need to set it before bind()" (139), and    *)
(* listen() takes a bound socket.  And one that is returned does what it   *)
(* was asked to: it does not block, does not wait for Nagle's algorithm,   *)
(* is bound, listens, takes time stamps.  Nothing is said of the TTL.      *)
PreparedInTime ==
  \A d \in open :
    /\ ~arg.is_blocking => OnlyAfter(d, "setNonBlocking", "connect")
    /\ ~arg.is_blocking /\ ~arg.is_udp => OnlyAfter(d, "setNoDelay", "connect")
    /\ OnlyAfter(d, "SO_REUSEADDR", "bind") /\ OnlyAfter(d, "bind", "listen")
    /\ cpc = "returned" /\ d = ret =>
         /\ ~arg.is_blocking => Had(d, "setNonBlocking")
         /\ ~arg.is_blocking /\ ~arg.is_udp => Had(d, "setNoDelay")
         /\ arg.is_listening => Had(d, "bind")
         /\ arg.is_listening /\ ~arg.is_udp => Had(d, "listen")
         /\ arg.needs_so_timestamp => Had(d, "setSOTimestamp")

(* socket_utils.cpp:133: "Is not server and was able to connect = ok".     *)
ConnectedIfReturned ==
  cpc = "returned" /\ ret # -1 /\ ~arg.is_listening => connected[ret] # "failed"

=============================================================================

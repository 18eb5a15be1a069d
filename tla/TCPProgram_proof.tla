--------------------------- MODULE TCPProgram_proof ---------------------------
(***************************************************************************)
(* Proofs about the TCP server and the programs it runs in: for every      *)
(* number of clients, of bytes they ask, of descriptors and of rounds, and *)
(* every buffer size.                                                      *)
(***************************************************************************)
EXTENDS TCPProgram, SequenceTheorems, FiniteSetTheorems, Lemmas

USE BufferAssumption, SendCapAssumption, ServerAssumption, ProgramAssumption

LEMMA MinOfTwo ==
  ASSUME NEW a \in Int, NEW b \in Int
  PROVE  Min({a, b}) = IF a <= b THEN a ELSE b
BY DEF Min

-----------------------------------------------------------------------------
(* The server's lists, none of which has a socket twice. *)

Once(s, S) == s \in Seq(S) /\ IsInjective(s)

LEMMA OnceEmpty == ASSUME NEW S PROVE Once(<<>>, S)
<1>1. <<>> \in Seq(S) /\ DOMAIN <<>> = {}
  OBVIOUS
<1> QED
  BY <1>1 DEF Once, IsInjective

LEMMA OnceInto ==
  ASSUME NEW S, NEW R, NEW s, Once(s, S), \A k \in 1 .. Len(s) : s[k] \in R
  PROVE  Once(s, R)
<1>1. s \in Seq(R)
  <2>1. PICK n \in Nat : n = Len(s) /\ s = [k \in 1 .. n |-> s[k]]
    <3>1. Len(s) \in Nat /\ s \in [1 .. Len(s) -> S]
      BY LenProperties DEF Once
    <3> QED
      BY <3>1
  <2>2. s \in [1 .. n -> R]
    BY <2>1
  <2> QED
    BY ONLY <2>2, n \in Nat, SeqDef
<1> QED
  BY <1>1 DEF Once

LEMMA OnceAppend ==
  ASSUME NEW S, NEW s, Once(s, S), NEW x \in S, ~Contains(s, x)
  PROVE  /\ Once(Append(s, x), S)
         /\ Len(Append(s, x)) = Len(s) + 1
         /\ \A k \in 1 .. Len(s) : Append(s, x)[k] = s[k]
         /\ Append(s, x)[Len(s) + 1] = x
         /\ \A y : Contains(Append(s, x), y) <=> Contains(s, y) \/ y = x
<1> DEFINE t == Append(s, x)
<1>1. s \in Seq(S) /\ Len(s) \in Nat /\ DOMAIN s = 1 .. Len(s)
  BY DEF Once
<1>2. /\ t \in Seq(S) /\ Len(t) = Len(s) + 1 /\ DOMAIN t = 1 .. Len(s) + 1
      /\ \A k \in 1 .. Len(s) : t[k] = s[k]
      /\ t[Len(s) + 1] = x
  BY <1>1, AppendProperties
<1> HIDE DEF t
<1>3. \A k \in 1 .. Len(s) + 1 : k = Len(s) + 1 \/ k \in 1 .. Len(s)
  BY <1>1
<1>4. IsInjective(t)
  <2> SUFFICES ASSUME NEW a \in 1 .. Len(s) + 1, NEW b \in 1 .. Len(s) + 1, t[a] = t[b]
               PROVE  a = b
    BY <1>2 DEF IsInjective
  <2>1. \A k \in 1 .. Len(s) : s[k] # x
    BY DEF Contains
  <2>2. \A j, k \in 1 .. Len(s) : s[j] = s[k] => j = k
    BY <1>1 DEF Once, IsInjective
  <2> QED
    BY <1>2, <1>3, <2>1, <2>2
<1>5. \A y : Contains(t, y) <=> Contains(s, y) \/ y = x
  <2> SUFFICES ASSUME NEW y PROVE Contains(t, y) <=> Contains(s, y) \/ y = x
    OBVIOUS
  <2>1. ASSUME Contains(t, y) PROVE Contains(s, y) \/ y = x
    BY <1>2, <1>3, <2>1 DEF Contains
  <2>2. ASSUME Contains(s, y) PROVE Contains(t, y)
    BY <1>1, <1>2, <2>2 DEF Contains
  <2>3. ASSUME y = x PROVE Contains(t, y)
    BY <1>1, <1>2, <2>3 DEF Contains
  <2> QED
    BY <2>1, <2>2, <2>3
<1> QED
  BY <1>2, <1>4, <1>5 DEF Once, t

(* The list from its element number k on. *)
LEMMA OnceFrom ==
  ASSUME NEW S, NEW s, Once(s, S), NEW k \in 1 .. Len(s)
  PROVE  LET t == SubSeq(s, k + 1, Len(s))
         IN  /\ Once(t, S)
             /\ \A y : Contains(t, y) => Contains(s, y) /\ y # s[k]
<1> DEFINE n == Len(s)
           t == SubSeq(s, k + 1, n)
<1>1. s \in Seq(S) /\ n \in Nat /\ DOMAIN s = 1 .. n /\ \A j \in 1 .. n : s[j] \in S
  BY DEF Once
<1>2. t \in Seq(S) /\ Len(t) = n - k /\ \A j \in 1 .. n - k : t[j] = s[k + j]
  <2>1. /\ k + 1 \in Int /\ n \in Int /\ \A j \in k + 1 .. n : s[j] \in S
        /\ n - (k + 1) + 1 = n - k
    BY <1>1
  <2>2. /\ t \in Seq(S)
        /\ Len(t) = IF k + 1 <= n THEN n - (k + 1) + 1 ELSE 0
        /\ \A j \in 1 .. n - (k + 1) + 1 : t[j] = s[k + 1 + j - 1]
    BY ONLY <2>1, SubSeqProperties, SMTT(30)
  <2> HIDE DEF t, n
  <2>3. Len(t) = n - k
    <3>1. k \in 1 .. n
      BY DEF n
    <3>2. ~(k + 1 <= n) => n - k = 0
      BY <1>1, <3>1
    <3> QED
      BY ONLY <2>1, <2>2, <3>2
  <2>4. \A j \in 1 .. n - k : k + 1 + j - 1 = k + j
    BY <1>1
  <2> QED
    BY <2>1, <2>2, <2>3, <2>4
<1>3. \A j, i1 \in 1 .. n : s[j] = s[i1] => j = i1
  BY <1>1 DEF Once, IsInjective
<1>4. DOMAIN t = 1 .. n - k
  BY <1>2
<1> HIDE DEF n, t
<1>5. \A j \in 1 .. n - k : k + j \in 1 .. n /\ k + j # k
  BY <1>1 DEF n
<1>6. IsInjective(t)
  <2> SUFFICES ASSUME NEW a \in 1 .. n - k, NEW b \in 1 .. n - k, t[a] = t[b] PROVE a = b
    BY <1>4 DEF IsInjective
  <2>1. k + a = k + b
    BY <1>2, <1>3, <1>5
  <2> QED
    BY <2>1
<1>7. ASSUME NEW y, Contains(t, y) PROVE Contains(s, y) /\ y # s[k]
  <2>1. PICK j \in 1 .. n - k : t[j] = y
    BY <1>2, <1>7 DEF Contains
  <2>2. s[k + j] = y /\ k + j \in 1 .. n /\ k + j # k
    BY <1>2, <1>5, <2>1
  <2>3. k \in 1 .. n
    BY DEF n
  <2> QED
    BY <1>3, <2>2, <2>3 DEF Contains, n
<1> QED
  BY <1>2, <1>6, <1>7 DEF Once, n, t

LEMMA OnceTail ==
  ASSUME NEW S, NEW s, Once(s, S), s # <<>>
  PROVE  /\ Head(s) \in S /\ Contains(s, Head(s))
         /\ Once(Tail(s), S)
         /\ \A y : Contains(Tail(s), y) => Contains(s, y) /\ y # Head(s)
<1>1. s \in Seq(S) /\ Len(s) \in Nat /\ DOMAIN s = 1 .. Len(s)
  BY DEF Once
<1>2. Len(s) # 0
  BY <1>1, EmptySeq
<1>3. 1 \in 1 .. Len(s) /\ Head(s) = s[1]
  BY <1>1, <1>2
<1>4. Tail(s) = SubSeq(s, 1 + 1, Len(s))
  BY <1>1
<1>5. /\ Once(Tail(s), S)
      /\ \A y : Contains(Tail(s), y) => Contains(s, y) /\ y # s[1]
  BY ONLY Once(s, S), <1>3, <1>4, OnceFrom
<1>6. Contains(s, s[1]) /\ s[1] \in S
  BY <1>1, <1>3 DEF Contains
<1> QED
  BY <1>3, <1>5, <1>6

(* What erase-remove leaves, by induction along the list.                  *)
WithoutBody(list, gone, kept, n) ==
  IF n = 0 THEN <<>>
  ELSE IF list[n] \in gone THEN kept[n - 1]
  ELSE Append(kept[n - 1], list[n])

Kept(list, gone) ==
  CHOOSE kept : kept = [n \in 0 .. Len(list) |-> WithoutBody(list, gone, kept, n)]

LEMMA WithoutKept == \A list, gone : Without(list, gone) = Kept(list, gone)[Len(list)]
BY Zenon DEF Without, Kept, WithoutBody

LEMMA KeptExists ==
  ASSUME NEW list, NEW gone, Len(list) \in Nat
  PROVE  \E kept : kept = [n \in 0 .. Len(list) |-> WithoutBody(list, gone, kept, n)]
<1> DEFINE L == Len(list)
           Right(kept, m) == \A n \in 0 .. L : n <= m => kept[n] = WithoutBody(list, gone, kept, n)
           T == {m \in Nat : \E kept : kept = [n \in 0 .. L |-> kept[n]] /\ Right(kept, m)}
<1> HIDE DEF L
<1>0. L \in Nat
  BY DEF L
<1>1. 0 \in T
  <2> DEFINE kept == [n \in 0 .. L |-> <<>>]
  <2>1. Right(kept, 0)
    BY DEF WithoutBody
  <2> QED
    BY <2>1
<1>2. ASSUME NEW m \in T PROVE m + 1 \in T
  <2>0. m \in Nat /\ m + 1 \in Nat
    OBVIOUS
  <2>1. PICK kept : kept = [n \in 0 .. L |-> kept[n]] /\ Right(kept, m)
    OBVIOUS
  <2> DEFINE more == [n \in 0 .. L |->
                        IF n = m + 1 THEN WithoutBody(list, gone, kept, m + 1) ELSE kept[n]]
  <2>2. ASSUME NEW n \in 0 .. L, n <= m + 1
        PROVE  WithoutBody(list, gone, more, n) = WithoutBody(list, gone, kept, n)
    <3>1. n = 0 \/ more[n - 1] = kept[n - 1]
      <4>1. n # 0 => n - 1 \in 0 .. L /\ n - 1 # m + 1
        BY ONLY <1>0, <2>0, n \in 0 .. L, n <= m + 1
      <4> QED
        BY <4>1
    <3> HIDE DEF more
    <3> QED
      BY <3>1 DEF WithoutBody
  <2>3. Right(more, m + 1)
    <3> SUFFICES ASSUME NEW n \in 0 .. L, n <= m + 1
                 PROVE  more[n] = WithoutBody(list, gone, more, n)
      OBVIOUS
    <3>1. WithoutBody(list, gone, more, n) = WithoutBody(list, gone, kept, n)
      BY <2>2
    <3>2. CASE n = m + 1
      BY <3>1, <3>2
    <3>3. CASE n # m + 1
      <4>1. n <= m
        BY <2>0, <3>3
      <4> QED
        BY <2>1, <3>1, <3>3, <4>1
    <3> QED
      BY <3>2, <3>3
  <2>4. more = [n \in 0 .. L |-> more[n]]
    OBVIOUS
  <2> HIDE DEF more
  <2>5. \E g : g = [n \in 0 .. L |-> g[n]] /\ Right(g, m + 1)
    BY <2>3, <2>4, Zenon
  <2> QED
    BY <2>0, <2>5
<1>3. L \in T
  <2> HIDE DEF T
  <2>1. T \subseteq Nat
    BY DEF T
  <2> QED
    BY <1>0, <1>1, <1>2, <2>1, SetInduction
<1>4. PICK kept : kept = [n \in 0 .. L |-> kept[n]] /\ Right(kept, L)
  BY <1>3
<1>5. kept = [n \in 0 .. L |-> WithoutBody(list, gone, kept, n)]
  BY <1>0, <1>4
<1> QED
  BY <1>5 DEF L

LEMMA OnceWithout ==
  ASSUME NEW S, NEW list, Once(list, S), NEW gone
  PROVE  /\ Once(Without(list, gone), S)
         /\ \A y : Contains(Without(list, gone), y) <=> Contains(list, y) /\ y \notin gone
<1> DEFINE L == Len(list)
           kept == Kept(list, gone)
           T == {m \in Nat : m <= L =>
                   /\ Once(kept[m], S)
                   /\ \A y : Contains(kept[m], y) <=> y \notin gone /\ \E k \in 1 .. m : list[k] = y}
<1>1. L \in Nat /\ DOMAIN list = 1 .. L /\ \A k \in 1 .. L : list[k] \in S
  BY DEF Once
<1>2. kept = [n \in 0 .. L |-> WithoutBody(list, gone, kept, n)]
  BY <1>1, KeptExists DEF Kept
<1>3. \A j, k \in 1 .. L : list[j] = list[k] => j = k
  BY <1>1 DEF Once, IsInjective
<1> HIDE DEF L, kept
<1>4. 0 \in T
  <2>1. kept[0] = <<>>
    BY <1>1, <1>2 DEF WithoutBody
  <2>2. \A y : ~Contains(kept[0], y)
    BY <2>1 DEF Contains
  <2> QED
    BY <2>1, <2>2, OnceEmpty
<1>5. ASSUME NEW m \in T PROVE m + 1 \in T
  <2>0. m \in Nat /\ m + 1 \in Nat
    OBVIOUS
  <2> SUFFICES ASSUME m + 1 <= L
               PROVE  /\ Once(kept[m + 1], S)
                      /\ \A y : Contains(kept[m + 1], y)
                                <=> y \notin gone /\ \E k \in 1 .. m + 1 : list[k] = y
    BY <2>0
  <2>1. /\ m <= L
        /\ Once(kept[m], S)
        /\ \A y : Contains(kept[m], y) <=> y \notin gone /\ \E k \in 1 .. m : list[k] = y
    BY <1>1, <2>0
  <2> HIDE DEF T
  <2> DEFINE x == list[m + 1]
  <2>2. x \in S /\ m + 1 \in 1 .. L
    BY <1>1, <2>0
  <2>3. kept[m + 1] = IF x \in gone THEN kept[m] ELSE Append(kept[m], x)
    <3>1. kept[m + 1] = WithoutBody(list, gone, kept, m + 1)
      <4>1. m + 1 \in 0 .. L
        BY <2>2
      <4>2. \A n \in 0 .. L : kept[n] = WithoutBody(list, gone, kept, n)
        BY ONLY <1>2, Zenon
      <4> QED
        BY <4>1, <4>2
    <3>2. m + 1 # 0 /\ (m + 1) - 1 = m
      BY <2>0
    <3> QED
      BY <3>1, <3>2 DEF WithoutBody
  <2>4. \A y : (\E k \in 1 .. m + 1 : list[k] = y) <=> (\E k \in 1 .. m : list[k] = y) \/ y = x
    <3>1. \A k \in 1 .. m + 1 : k \in 1 .. m \/ k = m + 1
      BY <2>0
    <3>2. m + 1 \in 1 .. m + 1 /\ 1 .. m \subseteq 1 .. m + 1
      BY <2>0
    <3> QED
      BY <3>1, <3>2
  <2>5. CASE x \in gone
    BY <2>1, <2>3, <2>4, <2>5
  <2>6. CASE x \notin gone
    <3>1. ~Contains(kept[m], x)
      <4>1. ASSUME NEW k \in 1 .. m, list[k] = x PROVE FALSE
        <5>1. k \in 1 .. L /\ k # m + 1
          BY <1>1, <2>0, <2>1
        <5> QED
          BY <1>3, <2>2, <4>1, <5>1
      <4> QED
        BY <2>1, <4>1
    <3>2. /\ Once(Append(kept[m], x), S)
          /\ \A y : Contains(Append(kept[m], x), y) <=> Contains(kept[m], y) \/ y = x
      BY <2>1, <2>2, <3>1, OnceAppend
    <3> QED
      BY <2>1, <2>3, <2>4, <2>6, <3>2
  <2> QED
    BY <2>5, <2>6
<1>6. L \in T
  <2> HIDE DEF T
  <2>1. T \subseteq Nat
    BY DEF T
  <2> QED
    BY <1>1, <1>4, <1>5, <2>1, SetInduction
<1>7. /\ Once(kept[L], S)
      /\ \A y : Contains(kept[L], y) <=> y \notin gone /\ \E k \in 1 .. L : list[k] = y
  BY <1>1, <1>6
<1>8. kept[L] = Without(list, gone)
  BY WithoutKept, Zenon DEF kept, L
<1> QED
  BY <1>7, <1>8 DEF Contains, L

LEMMA OnceAdded ==
  ASSUME NEW S, NEW list, Once(list, S), NEW x \in S
  PROVE  /\ Once(Added(list, x), S)
         /\ \A y : Contains(Added(list, x), y) <=> Contains(list, y) \/ y = x
BY OnceAppend DEF Added

(* There are finitely many clients, and so no list is longer than they are *)
(* many.                                                                   *)
LEMMA ClientsFinite == IsFiniteSet(Conn) /\ Len(Order) \in Nat \ {0}
<1>1. Len(Order) \in Nat /\ DOMAIN Order = 1 .. Len(Order)
  OBVIOUS
<1>2. Len(Order) # 0
  BY <1>1, EmptySeq
<1>3. IsFiniteSet(1 .. Len(Order))
  BY <1>1, FS_Interval
<1>4. Order \in Surjection(1 .. Len(Order), Conn)
  BY <1>1 DEF Surjection, ToSet
<1> QED
  BY <1>1, <1>2, <1>3, <1>4, FS_Surjection

LEMMA OnceShort ==
  ASSUME NEW s, Once(s, Conn)
  PROVE  Len(s) \in Nat /\ Cardinality(Conn) \in Nat /\ Len(s) <= Cardinality(Conn)
<1>1. Len(s) \in Nat /\ s \in [1 .. Len(s) -> Conn] /\ DOMAIN s = 1 .. Len(s)
  BY LenProperties DEF Once
<1>2. IsFiniteSet(1 .. Len(s)) /\ Cardinality(1 .. Len(s)) = Len(s)
  <2>1. PICK n \in Nat : n = Len(s)
    BY <1>1
  <2>2. IsFiniteSet(1 .. n) /\ Cardinality(1 .. n) = IF 1 > n THEN 0 ELSE n - 1 + 1
    <3>1. 1 \in Int /\ n \in Int
      OBVIOUS
    <3> QED
      BY ONLY <3>1, FS_Interval, Zenon
  <2> QED
    BY <2>1, <2>2
<1>3. s \in Injection(1 .. Len(s), Conn)
  BY <1>1 DEF Once, IsInjective, Injection
<1> QED
  BY <1>1, <1>2, <1>3, ClientsFinite, FS_Injection, FS_CardinalityType

-----------------------------------------------------------------------------
(* The server's invariant.                                                 *)

InSend(c) == spc = "send" /\ Current = c

Lists ==
  /\ spc \in {"down", "idle", "accept", "recv", "send", "exit"}
  /\ Once(recv_sockets_, Conn) /\ Once(ready, interest) /\ Once(backlog, Conn)
  /\ disconnected_sockets_ \subseteq Conn /\ accepted \subseteq Conn
  /\ interest \subseteq accepted \cup {Listener} /\ (spc = "down" => interest = {})
  /\ asked \in [Conn -> Nat] /\ fds \in 0 .. MaxFds
  /\ \A c \in accepted : peer[c] # "none"
  /\ \A c \in Conn : Contains(backlog, c) => peer[c] # "none" /\ c \notin accepted

(* sendAndRecv() stays on its list. *)
Place ==
  /\ spc = "send" => at \in 1 .. Len(recv_sockets_)
  /\ spc = "recv" => at \in 1 .. Len(recv_sockets_) + 1
  /\ spc \notin {"recv", "send"} => at = 1

(* Only the socket that is being served has something in its buffer: the   *)
(* last bytes of its answers.                                              *)
Buffers ==
  \A c \in Conn :
    /\ ~InSend(c) => next_send_valid_index_[c] = 0
    /\ next_send_valid_index_[c] <= answered[c]
    /\ \A j \in 1 .. next_send_valid_index_[c] :
         send_buffer_[c][j] = answered[c] - next_send_valid_index_[c] + j

(* As long as nothing failed, all of the buffer is sent or none of it.     *)
Streams ==
  \A c \in Conn : clean[c] =>
    /\ \A j \in 1 .. Len(out[c]) : out[c][j] = j
    /\ IF InSend(c)
         THEN \/ n_send = next_send_valid_index_[c]
                   /\ Len(out[c]) = answered[c] - next_send_valid_index_[c]
              \/ n_send = 0 /\ Len(out[c]) = answered[c]
         ELSE Len(out[c]) = answered[c]

ServerInv == SocketTypeOK /\ Lists /\ Place /\ Buffers /\ Streams

(* A client of main() finds no room, or there is room again. *)
RoomChanges ==
  /\ full' \in BOOLEAN
  /\ drained' = drained \/ (drained < MaxDrained /\ drained' = drained + 1)
  /\ UNCHANGED <<memberVars, n_send, peer, inq, out, clean, spc, at, listVars,
                 ready, backlog, asked>>

Moves ==
  \/ Poll \/ StartSendAndRecv \/ Inside
  \/ (\E c \in Conn : Connect(c) \/ Arrive(c) \/ \E how \in {"closed", "reset"} : Close(c, how))
  \/ RoomChanges
  \/ UNCHANGED serverVars

LEMMA StepMoves ==
  ASSUME [Next]_vars, i \in 1 .. Len(Order)
  PROVE  Moves
<1>1. Client \in Conn
  BY DEF Client
<1>2. CASE main
  <2>1. CASE ClientSendFails
    BY <2>1 DEF ClientSendFails, Moves, RoomChanges
  <2> QED
    BY <1>1, <1>2, <2>1 DEF main, MainListen, ClientConnect, MainPoll, ServerCall, AfterPoll, ClientReceive,
         ClientSendTakes, ClientSent, MainServe, AfterServe, Inside, Moves
<1>3. ASSUME Room PROVE Moves
  BY <1>3 DEF Room, Drain, RoomChanges, Moves
<1>3a. CASE Served(ServerStep)
  BY <1>3, <1>3a DEF Served, ServerStep, Moves, Clients, Ask
<1>3b. CASE Network
  BY <1>3, <1>3b DEF Network, Settle, Moves
<1>4. CASE UNCHANGED vars
  BY <1>4 DEF vars, Moves
<1> QED
  BY <1>2, <1>3a, <1>3b, <1>4 DEF Next

LEMMA ServerTypes == ServerInv => ServerTypeOK
<1> SUFFICES ASSUME ServerInv PROVE ServerTypeOK
  OBVIOUS
<1>1. at \in 1 .. Cardinality(Conn) + 1
  <2>1. /\ Len(recv_sockets_) \in Nat /\ Cardinality(Conn) \in Nat
        /\ Len(recv_sockets_) <= Cardinality(Conn)
    BY OnceShort DEF ServerInv, Lists
  <2> QED
    BY <2>1 DEF ServerInv, Lists, Place
<1> QED
  BY <1>1 DEF ServerInv, ServerTypeOK, Lists, Once

LEMMA ServerStart == ServerInit => ServerInv
<1> SUFFICES ASSUME ServerInit PROVE ServerInv
  OBVIOUS
<1> USE DEF ServerInit, SocketInit
<1>1. SocketTypeOK
  <2>1. full \in BOOLEAN
    BY Zenon
  <2> QED
    BY <2>1, EmptySeq DEF SocketTypeOK
<1>2. Lists
  BY OnceEmpty DEF Lists, Contains
<1>3. Place /\ Buffers
  BY DEF Place, Buffers
<1>4. Streams
  <2>1. \A c \in Conn : out[c] = <<>> /\ answered[c] = 0
    OBVIOUS
  <2>2. \A c \in Conn : Len(out[c]) = 0
    BY <2>1, EmptyLen
  <2> QED
    BY <2>1, <2>2 DEF Streams, InSend
<1> QED
  BY <1>1, <1>2, <1>3, <1>4 DEF ServerInv

-----------------------------------------------------------------------------
(* The invariant holds after every step. *)

sendVars == <<memberVars, n_send, out, clean>>

(* A step outside of the send loop leaves the buffers and the streams.     *)
LEMMA SendFrame ==
  ASSUME Buffers, Streams, UNCHANGED sendVars, \A c \in Conn : InSend(c)' <=> InSend(c)
  PROVE  Buffers' /\ Streams'
BY DEF Buffers, Streams, sendVars, memberVars

LEMMA QuietStep ==
  ASSUME ServerInv, UNCHANGED socketVars, spc # "send", spc' # "send", Place', Lists'
  PROVE  ServerInv'
<1>1. SocketTypeOK'
  BY DEF ServerInv, SocketTypeOK, socketVars, memberVars
<1>2. Buffers' /\ Streams'
  BY SendFrame DEF ServerInv, socketVars, memberVars, sendVars, InSend
<1> QED
  BY <1>1, <1>2 DEF ServerInv

LEMMA ListenStep == ServerInv /\ Listen => ServerInv'
<1> SUFFICES ASSUME ServerInv, Listen PROVE ServerInv'
  OBVIOUS
<1>1. Place'
  BY DEF ServerInv, Place, Listen
<1>2. Once(ready, interest')
  <2>1. Once(ready, {}) /\ Len(ready) \in Nat
    BY DEF ServerInv, Lists, Listen, Once
  <2>2. \A k \in 1 .. Len(ready) : ready[k] \in {}
    BY <2>1 DEF Once
  <2> QED
    BY <2>1, <2>2, OnceInto
<1>3. Lists'
  BY <1>2 DEF ServerInv, Lists, Listen, socketVars, Contains
<1> QED
  BY <1>1, <1>3, QuietStep DEF Listen

LEMMA PollStep == ServerInv /\ Poll => ServerInv'
<1> SUFFICES ASSUME ServerInv, Poll PROVE ServerInv'
  OBVIOUS
<1> DEFINE recv    == Without(recv_sockets_, disconnected_sockets_)
           waiting == Without(ready, disconnected_sockets_)
<1>0. /\ spc = "idle" /\ interest' = interest \ disconnected_sockets_
      /\ UNCHANGED <<socketVars, at, accepted, fds, backlog, asked>>
  BY DEF Poll
<1>1. Lists /\ at = 1
  BY <1>0 DEF ServerInv, Place
<1>2. Once(recv, Conn)
  BY <1>1, OnceWithout DEF Lists
<1>3. Once(waiting, interest')
  <2>1. Once(waiting, interest) /\ \A y : Contains(waiting, y) => y \notin disconnected_sockets_
    BY <1>1, OnceWithout DEF Lists
  <2>2. \A k \in 1 .. Len(waiting) : waiting[k] \in interest'
    BY <1>0, <2>1 DEF Once, Contains
  <2> QED
    BY <2>1, <2>2, OnceInto
<1>4. \/ ready' = <<>> /\ recv_sockets_' = recv /\ UNCHANGED <<spc, disconnected_sockets_>>
      \/ \E k \in 1 .. Len(waiting) :
           ready' = SubSeq(waiting, k + 1, Len(waiting)) /\ Report(waiting[k], recv)
  BY DEF Poll, Due
<1> HIDE DEF recv, waiting
<1>5. /\ Once(ready', interest') /\ Once(recv_sockets_', Conn)
      /\ disconnected_sockets_' \subseteq Conn
      /\ spc' \in {"idle", "accept"}
  <2>1. CASE ready' = <<>> /\ recv_sockets_' = recv /\ UNCHANGED <<spc, disconnected_sockets_>>
    BY <1>0, <1>1, <1>2, <2>1, OnceEmpty DEF Lists
  <2>2. ASSUME NEW k \in 1 .. Len(waiting), Report(waiting[k], recv),
               ready' = SubSeq(waiting, k + 1, Len(waiting))
        PROVE  /\ Once(ready', interest') /\ Once(recv_sockets_', Conn)
               /\ disconnected_sockets_' \subseteq Conn
               /\ spc' \in {"idle", "accept"}
    <3>1. Once(ready', interest')
      BY <1>3, <2>2, OnceFrom
    <3>2. waiting[k] \in Conn \cup {Listener}
      BY <1>0, <1>1, <1>3 DEF Lists, Once
    <3>3. CASE waiting[k] = Listener
      BY <1>1, <1>2, <2>2, <3>1, <3>3 DEF Report, Lists
    <3>4. CASE waiting[k] # Listener
      <4>1. Once(Added(recv, waiting[k]), Conn)
        BY <1>2, <3>2, <3>4, OnceAdded
      <4> QED
        BY <1>0, <1>1, <2>2, <3>1, <3>2, <3>4, <4>1 DEF Report, Lists
    <3> QED
      BY <3>3, <3>4
  <2> QED
    BY <1>4, <2>1, <2>2
<1>6. Lists'
  BY <1>0, <1>1, <1>5 DEF Lists, socketVars, Contains
<1>7. Place'
  BY <1>0, <1>1, <1>5 DEF Place
<1> QED
  BY <1>0, <1>5, <1>6, <1>7, QuietStep

LEMMA AcceptStep == ServerInv /\ Accept => ServerInv'
<1> SUFFICES ASSUME ServerInv, Accept PROVE ServerInv'
  OBVIOUS
<1> DEFINE s == Head(backlog)
<1>0. /\ spc = "accept" /\ backlog # <<>> /\ fds > 0
      /\ accepted' = accepted \cup {s} /\ interest' = interest \cup {s}
      /\ ready' = (IF Events(s) = {} THEN ready ELSE Append(ready, s))
      /\ recv_sockets_' = Added(recv_sockets_, s)
      /\ backlog' = Tail(backlog) /\ fds' = fds - 1
      /\ spc' \in {"accept", "idle"}
      /\ UNCHANGED <<socketVars, at, disconnected_sockets_, asked>>
  BY DEF Accept
<1>1. Lists /\ at = 1
  BY <1>0 DEF ServerInv, Place
<1>2. /\ s \in Conn /\ Contains(backlog, s) /\ Once(Tail(backlog), Conn)
      /\ \A y : Contains(Tail(backlog), y) => Contains(backlog, y) /\ y # s
  BY <1>0, <1>1, OnceTail DEF Lists
<1> HIDE DEF s
<1>3. peer[s] # "none" /\ s \notin accepted /\ s \notin interest
  BY <1>1, <1>2 DEF Lists
<1>4. Once(ready', interest')
  <2>1. Once(ready, interest')
    <3>1. \A k \in 1 .. Len(ready) : ready[k] \in interest'
      BY <1>0, <1>1 DEF Lists, Once
    <3> QED
      BY <1>1, <3>1, OnceInto DEF Lists
  <2>2. ~Contains(ready, s)
    BY <1>1, <1>3 DEF Lists, Once, Contains
  <2>3. Once(Append(ready, s), interest')
    BY <1>0, <2>1, <2>2, OnceAppend
  <2> QED
    BY <1>0, <2>1, <2>3
<1>5. Once(recv_sockets_', Conn)
  BY <1>0, <1>1, <1>2, OnceAdded DEF Lists
<1>6. Lists'
  <2>1. /\ spc' \in {"accept", "idle"} /\ fds' \in 0 .. MaxFds /\ peer' = peer /\ asked' = asked
        /\ disconnected_sockets_' = disconnected_sockets_
    BY <1>0, <1>1 DEF Lists, socketVars
  <2>2. accepted' \subseteq Conn /\ interest' \subseteq accepted' \cup {Listener}
    BY <1>0, <1>1, <1>2 DEF Lists
  <2>3. \A c \in accepted' : peer'[c] # "none"
    BY <1>0, <1>1, <1>3, <2>1 DEF Lists
  <2>4. \A c \in Conn : Contains(backlog', c) => peer'[c] # "none" /\ c \notin accepted'
    BY <1>0, <1>1, <1>2, <2>1 DEF Lists
  <2>5. Once(backlog', Conn)
    BY <1>0, <1>2
  <2> QED
    BY <1>1, <1>4, <1>5, <2>1, <2>2, <2>3, <2>4, <2>5 DEF Lists, Contains
<1>7. Place'
  BY <1>0, <1>1 DEF Place
<1> QED
  BY <1>0, <1>6, <1>7, QuietStep

(* The steps that change no list. *)
LEMMA ListsStay == ServerInv /\ (AcceptDies \/ AcceptEnds \/ StartSendAndRecv \/ EndSendAndRecv) => ServerInv'
<1> SUFFICES ASSUME ServerInv, AcceptDies \/ AcceptEnds \/ StartSendAndRecv \/ EndSendAndRecv
             PROVE  ServerInv'
  OBVIOUS
<1>0. /\ spc \in {"accept", "idle", "recv"} /\ spc' \in {"exit", "idle", "recv"}
      /\ UNCHANGED <<socketVars, listVars, ready, backlog, asked>>
      /\ (spc' = "recv" => spc = "idle") /\ at' \in {at, 1} /\ (spc = "recv" => at' = 1)
  BY DEF AcceptDies, AcceptEnds, StartSendAndRecv, EndSendAndRecv
<1>1. Lists'
  BY <1>0 DEF ServerInv, Lists, listVars, socketVars, Contains
<1>2. Place'
  <2>1. at' = 1
    BY <1>0 DEF ServerInv, Place
  <2>2. Len(recv_sockets_') \in Nat
    BY <1>1 DEF Lists, Once
  <2> QED
    BY <1>0, <2>1, <2>2 DEF Place
<1> QED
  BY <1>0, <1>1, <1>2, QuietStep

LEMMA ConnectStep == \A c \in Conn : ServerInv /\ Connect(c) => ServerInv'
<1> SUFFICES ASSUME NEW c \in Conn, ServerInv, Connect(c) PROVE ServerInv'
  OBVIOUS
<1>0. /\ peer[c] = "none" /\ Listener \in interest
      /\ peer' = [peer EXCEPT ![c] = "open"]
      /\ backlog' = Append(backlog, c) /\ ready' = Woken(Listener)
      /\ UNCHANGED <<memberVars, n_send, inq, out, clean, full, drained, spc, at, listVars, asked>>
  BY DEF Connect
<1>1. Lists /\ SocketTypeOK
  BY DEF ServerInv
<1>2. c \notin accepted /\ ~Contains(backlog, c)
  BY <1>0, <1>1 DEF Lists
<1>3. /\ Once(backlog', Conn)
      /\ \A y : Contains(backlog', y) <=> Contains(backlog, y) \/ y = c
  BY <1>0, <1>1, <1>2, OnceAppend DEF Lists
<1>4. Once(ready', interest)
  BY <1>0, <1>1, OnceAppend DEF Lists, Woken
<1>5. peer' \in [Conn -> {"none", "open", "closed", "reset"}] /\ peer'[c] = "open"
      /\ \A d \in Conn : d # c => peer'[d] = peer[d]
  BY <1>0, <1>1 DEF SocketTypeOK
<1>6. SocketTypeOK'
  BY <1>0, <1>1, <1>5 DEF SocketTypeOK, memberVars
<1>7. Lists'
  <2>1. /\ \A d \in accepted : peer'[d] # "none"
        /\ \A d \in Conn : Contains(backlog', d) => peer'[d] # "none" /\ d \notin accepted
    BY <1>1, <1>2, <1>3, <1>5 DEF Lists
  <2>2. UNCHANGED <<spc, recv_sockets_, disconnected_sockets_, accepted, interest, asked, fds>>
    BY <1>0 DEF listVars
  <2> QED
    BY <1>1, <1>3, <1>4, <2>1, <2>2 DEF Lists
<1>8. Place'
  BY <1>0 DEF ServerInv, Place, listVars
<1>9. Buffers' /\ Streams'
  <2>1. \A d \in Conn : InSend(d)' <=> InSend(d)
    BY <1>0 DEF InSend, Current, listVars
  <2>2. UNCHANGED sendVars
    BY <1>0 DEF sendVars
  <2> QED
    BY <2>1, <2>2, SendFrame DEF ServerInv
<1> QED
  BY <1>6, <1>7, <1>8, <1>9 DEF ServerInv

(* What the clients do to connections that are made. *)
LEMMA ClientStep ==
  \A c \in Conn, how \in {"closed", "reset"} : ServerInv /\ (Arrive(c) \/ Close(c, how)) => ServerInv'
<1> SUFFICES ASSUME NEW c \in Conn, NEW how \in {"closed", "reset"}, ServerInv,
                    Arrive(c) \/ Close(c, how)
             PROVE  ServerInv'
  OBVIOUS
<1>1. Lists /\ SocketTypeOK
  BY DEF ServerInv
<1>2. /\ peer' = peer \/ peer' = [peer EXCEPT ![c] = how]
      /\ inq' = inq \/ (inq[c] < RcvLimit /\ inq' = [inq EXCEPT ![c] = @ + 1])
      /\ asked' = asked \/ asked' = [asked EXCEPT ![c] = @ + 1]
      /\ ready' = Woken(c)
      /\ UNCHANGED <<memberVars, n_send, out, clean, full, drained, spc, at, listVars, backlog>>
  BY DEF Arrive, Close
<1>3. /\ peer' \in [Conn -> {"none", "open", "closed", "reset"}]
      /\ \A d \in Conn : peer[d] # "none" => peer'[d] # "none"
  BY <1>1, <1>2 DEF SocketTypeOK
<1>4. inq' \in [Conn -> 0 .. RcvLimit]
  <2>1. inq[c] < RcvLimit => inq[c] + 1 \in 0 .. RcvLimit
    <3>1. inq[c] \in 0 .. RcvLimit /\ RcvLimit \in Nat
      BY <1>1 DEF SocketTypeOK
    <3> QED
      BY ONLY <3>1
  <2> QED
    BY <1>1, <1>2, <2>1 DEF SocketTypeOK
<1>5. SocketTypeOK'
  BY <1>1, <1>2, <1>3, <1>4 DEF SocketTypeOK, memberVars
<1>6. Once(ready', interest)
  BY <1>1, <1>2, OnceAppend DEF Lists, Woken
<1>7. Lists'
  <2>1. UNCHANGED <<spc, recv_sockets_, disconnected_sockets_, accepted, interest, fds, backlog>>
    BY <1>2 DEF listVars
  <2>2. asked' \in [Conn -> Nat]
    <3>1. asked \in [Conn -> Nat]
      BY <1>1 DEF Lists
    <3>2. asked' = asked \/ asked' = [asked EXCEPT ![c] = asked[c] + 1]
      BY <1>2, <3>1
    <3> QED
      BY ONLY <3>1, <3>2
  <2>3. /\ \A d \in accepted : peer'[d] # "none"
        /\ \A d \in Conn : Contains(backlog, d) => peer'[d] # "none" /\ d \notin accepted
    BY <1>1, <1>3 DEF Lists
  <2> QED
    BY <1>1, <1>6, <2>1, <2>2, <2>3 DEF Lists
<1>8. Place'
  BY <1>2 DEF ServerInv, Place, listVars
<1>9. Buffers' /\ Streams'
  <2>1. \A d \in Conn : InSend(d)' <=> InSend(d)
    BY <1>2 DEF InSend, Current, listVars
  <2>2. UNCHANGED sendVars
    BY <1>2 DEF sendVars
  <2> QED
    BY <2>1, <2>2, SendFrame DEF ServerInv
<1> QED
  BY <1>5, <1>7, <1>8, <1>9 DEF ServerInv

LEMMA RestStep == ServerInv /\ (RoomChanges \/ UNCHANGED serverVars) => ServerInv'
<1> SUFFICES ASSUME ServerInv, RoomChanges \/ UNCHANGED serverVars PROVE ServerInv'
  OBVIOUS
<1>1. /\ UNCHANGED <<memberVars, n_send, peer, inq, out, clean, spc, at, listVars, ready, backlog, asked>>
      /\ full' \in BOOLEAN /\ drained' \in 0 .. MaxDrained
  <2>1. drained \in 0 .. MaxDrained /\ MaxDrained \in Nat
    BY DEF ServerInv, SocketTypeOK
  <2>1a. full \in BOOLEAN
    BY DEF ServerInv, SocketTypeOK
  <2>2. CASE RoomChanges
    <3>1. drained' = drained \/ (drained < MaxDrained /\ drained' = drained + 1)
      BY <2>2 DEF RoomChanges
    <3>2. drained' \in 0 .. MaxDrained
      BY ONLY <2>1, <3>1
    <3> QED
      BY <2>2, <3>2 DEF RoomChanges
  <2>3. CASE UNCHANGED serverVars
    <3>1. full' = full /\ drained' = drained
      BY <2>3 DEF serverVars, socketVars
    <3>2. full' \in BOOLEAN
      BY <2>1a, <3>1, Zenon
    <3> QED
      BY <2>1, <2>3, <3>1, <3>2 DEF serverVars, socketVars
  <2> QED
    BY <2>2, <2>3
<1>2. SocketTypeOK'
  BY <1>1 DEF ServerInv, SocketTypeOK, memberVars
<1>3. Lists' /\ Place'
  BY <1>1 DEF ServerInv, Lists, Place, listVars
<1>4. Buffers' /\ Streams'
  <2>1. \A d \in Conn : InSend(d)' <=> InSend(d)
    BY <1>1 DEF InSend, Current, listVars
  <2>2. UNCHANGED sendVars
    BY <1>1 DEF sendVars
  <2> QED
    BY <2>1, <2>2, SendFrame DEF ServerInv
<1> QED
  BY <1>2, <1>3, <1>4 DEF ServerInv

(* sendAndRecv() of a socket. *)
LEMMA ListsKept ==
  ASSUME Lists, UNCHANGED <<peer, listVars, ready, backlog, asked>>,
         spc' \in {"recv", "send"}
  PROVE  Lists'
BY DEF Lists, listVars

LEMMA RecvStep == ServerInv /\ RecvNext => ServerInv'
<1> SUFFICES ASSUME ServerInv, RecvNext PROVE ServerInv'
  OBVIOUS
<1> DEFINE c == Current
<1>0. /\ spc = "recv" /\ spc' = "send" /\ at <= Len(recv_sockets_) /\ Receive(c)
      /\ UNCHANGED <<at, listVars, ready, backlog, asked>>
  BY DEF RecvNext
<1>1. SocketTypeOK /\ Lists /\ Buffers /\ Streams
  BY DEF ServerInv
<1>2. at \in 1 .. Len(recv_sockets_) /\ c \in Conn
  <2>1. at \in 1 .. Len(recv_sockets_) + 1 /\ Len(recv_sockets_) \in Nat
    BY <1>0, <1>1 DEF ServerInv, Place, Lists, Once
  <2>2. at \in 1 .. Len(recv_sockets_)
    BY ONLY <1>0, <2>1
  <2> QED
    BY <1>1, <2>2 DEF Lists, Once, Current
<1>3. \A d \in Conn : ~InSend(d) /\ (InSend(d)' <=> d = c)
  BY <1>0 DEF InSend, Current, listVars
<1> HIDE DEF c
<1>4. next_send_valid_index_[c] = 0 /\ answered[c] \in Nat /\ inq[c] \in 0 .. RcvLimit
  BY <1>1, <1>2, <1>3 DEF Buffers, SocketTypeOK
<1> DEFINE len == Header + inq[c]
<1>5. UNCHANGED <<peer, out, clean, full, drained, send_disconnected_>>
  BY <1>0 DEF Receive, Send, memberVars
<1>6. \/ /\ send_buffer_' = [send_buffer_ EXCEPT ![c] = [j \in 1 .. BufferSize |->
               IF j \in 1 .. len THEN answered[c] + j ELSE send_buffer_[c][j]]]
         /\ next_send_valid_index_' = [next_send_valid_index_ EXCEPT ![c] = len]
         /\ answered' = [answered EXCEPT ![c] = answered[c] + len]
         /\ inq' = [inq EXCEPT ![c] = 0]
      \/ UNCHANGED <<send_buffer_, next_send_valid_index_, answered, inq>>
  <2>1. CASE inq[c] > 0 /\ Send(c, len) /\ inq' = [inq EXCEPT ![c] = 0]
    <3>1. /\ send_buffer_' = [send_buffer_ EXCEPT ![c] = [j \in 1 .. BufferSize |->
               IF j \in 0 + 1 .. 0 + len THEN answered[c] + j - 0 ELSE send_buffer_[c][j]]]
          /\ next_send_valid_index_' = [next_send_valid_index_ EXCEPT ![c] = 0 + len]
          /\ answered' = [answered EXCEPT ![c] = answered[c] + len]
      BY <1>1, <1>2, <1>4, <2>1 DEF Send, SocketTypeOK
    <3>2. 0 + 1 = 1 /\ 0 + len = len /\ \A j \in 1 .. BufferSize : answered[c] + j - 0 = answered[c] + j
      BY <1>4
    <3> QED
      BY <2>1, <3>1, <3>2
  <2>2. CASE UNCHANGED <<memberVars, inq>>
    BY <2>2 DEF memberVars
  <2> QED
    BY <1>0, <2>1, <2>2 DEF Receive
<1>7. len \in 0 .. BufferSize /\ len \in Nat
  BY <1>4
<1> HIDE DEF len
<1>8. /\ next_send_valid_index_' \in [Conn -> 0 .. BufferSize]
      /\ answered' \in [Conn -> Nat]
      /\ send_buffer_' \in [Conn -> [1 .. BufferSize -> Nat]]
      /\ inq' \in [Conn -> 0 .. RcvLimit]
  <2>1. \A j \in 1 .. BufferSize :
          (IF j \in 1 .. len THEN answered[c] + j ELSE send_buffer_[c][j]) \in Nat
    <3>1. send_buffer_[c] \in [1 .. BufferSize -> Nat]
      BY <1>1, <1>2 DEF SocketTypeOK
    <3>2. \A j \in 1 .. BufferSize : send_buffer_[c][j] \in Nat
      BY ONLY <3>1
    <3>3. \A j \in 1 .. BufferSize : answered[c] + j \in Nat
      BY ONLY <1>4
    <3> QED
      BY ONLY <3>2, <3>3
  <2>2. 0 \in 0 .. RcvLimit /\ answered[c] + len \in Nat
    BY <1>4, <1>7
  <2>3. /\ send_buffer_ \in [Conn -> [1 .. BufferSize -> Nat]] /\ inq \in [Conn -> 0 .. RcvLimit]
        /\ next_send_valid_index_ \in [Conn -> 0 .. BufferSize] /\ answered \in [Conn -> Nat]
    BY <1>1 DEF SocketTypeOK
  <2>4. [j \in 1 .. BufferSize |-> IF j \in 1 .. len THEN answered[c] + j ELSE send_buffer_[c][j]]
          \in [1 .. BufferSize -> Nat]
    BY <2>1
  <2>5. send_buffer_' \in [Conn -> [1 .. BufferSize -> Nat]]
    BY ONLY <1>2, <1>6, <2>3, <2>4
  <2> QED
    BY ONLY <1>2, <1>6, <1>7, <2>2, <2>3, <2>5
<1>9. n_send' = next_send_valid_index_'[c] /\ n_send' \in 0 .. SendCap
  <2>1. n_send' = Min({BufferSize, next_send_valid_index_'[c]})
    BY <1>0 DEF Receive
  <2>2. next_send_valid_index_'[c] \in 0 .. BufferSize
    BY <1>2, <1>8
  <2> QED
    BY <2>1, <2>2, MinOfTwo
<1>10. \A d \in Conn : d # c => /\ next_send_valid_index_'[d] = next_send_valid_index_[d]
                                /\ answered'[d] = answered[d]
                                /\ send_buffer_'[d] = send_buffer_[d]
  BY <1>1, <1>6 DEF SocketTypeOK
<1>11. \/ UNCHANGED <<next_send_valid_index_, answered>>
       \/ /\ next_send_valid_index_'[c] = len /\ answered'[c] = answered[c] + len
          /\ \A j \in 1 .. len : send_buffer_'[c][j] = answered[c] + j
  <2>1. \A j \in 1 .. len : j \in 1 .. BufferSize
    BY <1>7
  <2>2. /\ send_buffer_ \in [Conn -> [1 .. BufferSize -> Nat]]
        /\ next_send_valid_index_ \in [Conn -> 0 .. BufferSize] /\ answered \in [Conn -> Nat]
    BY <1>1 DEF SocketTypeOK
  <2>3. CASE /\ send_buffer_' = [send_buffer_ EXCEPT ![c] = [j \in 1 .. BufferSize |->
                  IF j \in 1 .. len THEN answered[c] + j ELSE send_buffer_[c][j]]]
             /\ next_send_valid_index_' = [next_send_valid_index_ EXCEPT ![c] = len]
             /\ answered' = [answered EXCEPT ![c] = answered[c] + len]
    <3>1. send_buffer_'[c] = [j \in 1 .. BufferSize |->
                  IF j \in 1 .. len THEN answered[c] + j ELSE send_buffer_[c][j]]
      BY ONLY <1>2, <2>2, <2>3
    <3> QED
      BY ONLY <1>2, <2>1, <2>2, <2>3, <3>1
  <2> QED
    BY <1>6, <2>3
<1>12. SocketTypeOK'
  BY <1>1, <1>5, <1>8, <1>9 DEF SocketTypeOK
<1>13. Lists'
  BY <1>0, <1>1, <1>5, ListsKept
<1>14. Place'
  BY <1>0, <1>2 DEF Place, listVars
<1>15. Buffers'
  <2> SUFFICES ASSUME NEW d \in Conn
               PROVE  /\ ~InSend(d)' => next_send_valid_index_'[d] = 0
                      /\ next_send_valid_index_'[d] <= answered'[d]
                      /\ \A j \in 1 .. next_send_valid_index_'[d] :
                           send_buffer_'[d][j] = answered'[d] - next_send_valid_index_'[d] + j
    BY DEF Buffers
  <2>1. next_send_valid_index_[d] = 0 /\ answered[d] \in Nat
    BY <1>1, <1>3 DEF Buffers, SocketTypeOK
  <2>2. CASE d # c
    BY <1>10, <2>1, <2>2
  <2>3. CASE d = c
    <3>1. CASE UNCHANGED <<next_send_valid_index_, answered>>
      BY <1>3, <2>1, <2>3, <3>1
    <3>2. CASE /\ next_send_valid_index_'[c] = len /\ answered'[c] = answered[c] + len
               /\ \A j \in 1 .. len : send_buffer_'[c][j] = answered[c] + j
      <4>1. \A j \in 1 .. len : answered[c] + len - len + j = answered[c] + j
        BY <1>4, <1>7
      <4> QED
        BY <1>3, <1>4, <1>7, <2>3, <3>2, <4>1
    <3> QED
      BY <1>11, <3>1, <3>2
  <2> QED
    BY <2>2, <2>3
<1>16. Streams'
  <2> SUFFICES ASSUME NEW d \in Conn, clean'[d]
               PROVE  /\ \A j \in 1 .. Len(out'[d]) : out'[d][j] = j
                      /\ IF InSend(d)'
                           THEN \/ n_send' = next_send_valid_index_'[d]
                                     /\ Len(out'[d]) = answered'[d] - next_send_valid_index_'[d]
                                \/ n_send' = 0 /\ Len(out'[d]) = answered'[d]
                           ELSE Len(out'[d]) = answered'[d]
    BY DEF Streams
  <2>1. /\ \A j \in 1 .. Len(out[d]) : out[d][j] = j
        /\ Len(out[d]) = answered[d]
    BY <1>1, <1>3, <1>5 DEF Streams
  <2>2. CASE d # c
    BY <1>3, <1>5, <1>10, <2>1, <2>2
  <2>3. CASE d = c
    <3>1. Len(out'[c]) = answered'[c] - next_send_valid_index_'[c]
      BY <1>4, <1>5, <1>7, <1>11, <2>1, <2>3
    <3> QED
      BY <1>3, <1>5, <1>9, <2>1, <2>3, <3>1
  <2> QED
    BY <2>2, <2>3
<1> QED
  BY <1>12, <1>13, <1>14, <1>15, <1>16 DEF ServerInv

LEMMA NextStep == ServerInv /\ NextSocket => ServerInv'
<1> SUFFICES ASSUME ServerInv, NextSocket PROVE ServerInv'
  OBVIOUS
<1> DEFINE c == Current
<1>0. /\ spc = "send" /\ spc' = "recv" /\ n_send = 0 /\ at' = at + 1
      /\ next_send_valid_index_' = [next_send_valid_index_ EXCEPT ![c] = 0]
      /\ UNCHANGED <<send_buffer_, send_disconnected_, answered, n_send, peer, inq, out, clean, full, drained>>
      /\ UNCHANGED <<listVars, ready, backlog, asked>>
  BY DEF NextSocket, SendDone, Following, Emptied
<1>1. SocketTypeOK /\ Lists /\ Buffers /\ Streams
  BY DEF ServerInv
<1>2. at \in 1 .. Len(recv_sockets_) /\ Len(recv_sockets_) \in Nat /\ c \in Conn
  BY <1>0 DEF ServerInv, Place, Lists, Once, Current
<1>3. \A d \in Conn : (InSend(d) <=> d = c) /\ ~InSend(d)'
  BY <1>0 DEF InSend
<1> HIDE DEF c
<1>4. /\ next_send_valid_index_' \in [Conn -> 0 .. BufferSize] /\ next_send_valid_index_'[c] = 0
      /\ \A d \in Conn : d # c => next_send_valid_index_'[d] = next_send_valid_index_[d]
  BY <1>0, <1>1, <1>2 DEF SocketTypeOK
<1>5. SocketTypeOK'
  BY <1>0, <1>1, <1>4 DEF SocketTypeOK
<1>6. Lists'
  BY <1>0, <1>1, ListsKept
<1>7. Place'
  BY <1>0, <1>2 DEF Place, listVars
<1>8. \A d \in Conn : next_send_valid_index_'[d] = 0 /\ answered[d] \in Nat
  BY <1>1, <1>3, <1>4 DEF Buffers, SocketTypeOK
<1>9. Buffers'
  BY <1>0, <1>8 DEF Buffers
<1>10. Streams'
  <2>1. ASSUME NEW d \in Conn, clean[d]
        PROVE  (\A j \in 1 .. Len(out[d]) : out[d][j] = j) /\ Len(out[d]) = answered[d]
    <3>1. n_send = next_send_valid_index_[d] /\ InSend(d) => answered[d] - next_send_valid_index_[d] = answered[d]
      BY <1>0, <1>8
    <3> QED
      BY <1>1, <2>1, <3>1 DEF Streams
  <2> QED
    BY <1>0, <1>3, <2>1 DEF Streams
<1> QED
  BY <1>5, <1>6, <1>7, <1>9, <1>10 DEF ServerInv

(* What ::send takes are the last bytes of the answers. *)
LEMMA TakesBytes ==
  ASSUME ServerInv, spc = "send", NEW n \in 1 .. ThisMsg(Current), SendTakes(Current, n)
  PROVE  LET c == Current
             last == answered[c] - next_send_valid_index_[c]
         IN  /\ c \in Conn /\ last \in Nat /\ n_send \in Nat
             /\ next_send_valid_index_[c] \in Nat /\ answered[c] = last + next_send_valid_index_[c]
             /\ n \in Nat \ {0} /\ n <= next_send_valid_index_[c] /\ n <= n_send
             /\ n = ThisMsg(c) => n = next_send_valid_index_[c] \/ n = n_send
             /\ out' \in [Conn -> Seq(Nat)]
             /\ \A d \in Conn : d # c => out'[d] = out[d]
             /\ Len(out[c]) \in Nat /\ Len(out'[c]) = Len(out[c]) + n
             /\ \A j \in 1 .. Len(out[c]) : out'[c][j] = out[c][j]
             /\ \A j \in 1 .. n : out'[c][Len(out[c]) + j] = last + j
<1> DEFINE c == Current
           last == answered[c] - next_send_valid_index_[c]
           bytes == FirstBytes(c, n)
<1>1. SocketTypeOK /\ Lists /\ Buffers
  BY DEF ServerInv
<1>2. c \in Conn
  <2>1. at \in 1 .. Len(recv_sockets_)
    BY DEF ServerInv, Place
  <2> QED
    BY <1>1, <2>1 DEF Lists, Once, Current
<1>3. n \in 1 .. Min({next_send_valid_index_[c], n_send})
      /\ out' = [out EXCEPT ![c] = out[c] \o bytes]
  <2>1. out' = [out EXCEPT ![c] = out[c] \o bytes]
    BY <1>1, <1>2 DEF SendTakes, SocketTypeOK
  <2> QED
    BY <2>1 DEF ThisMsg
<1> HIDE DEF c
<1>4. /\ next_send_valid_index_[c] \in 0 .. BufferSize /\ answered[c] \in Nat /\ n_send \in Nat
      /\ next_send_valid_index_[c] <= answered[c] /\ send_buffer_[c] \in [1 .. BufferSize -> Nat]
      /\ out[c] \in Seq(Nat)
  <2>1. next_send_valid_index_[c] <= answered[c]
    BY <1>1, <1>2 DEF Buffers
  <2>2. n_send \in Nat
    BY <1>1 DEF SocketTypeOK
  <2> QED
    BY <1>1, <1>2, <2>1, <2>2 DEF SocketTypeOK
<1> DEFINE valid == next_send_valid_index_[c]
<1>4a. valid \in Nat /\ valid \in Int /\ n_send \in Int
  BY <1>4
<1>4b. Min({valid, n_send}) = IF valid <= n_send THEN valid ELSE n_send
  <2> HIDE DEF valid
  <2> QED
    BY ONLY <1>4a, MinOfTwo
<1>5. n \in Nat \ {0} /\ n <= next_send_valid_index_[c] /\ n <= n_send
  <2>1. n \in 1 .. Min({valid, n_send})
    BY <1>3
  <2> HIDE DEF valid
  <2>2. n \in Nat \ {0} /\ n <= valid /\ n <= n_send
    BY ONLY <1>4a, <1>4b, <2>1, n_send \in Nat
  <2> QED
    BY <2>2 DEF valid
<1>6. n = ThisMsg(c) => n = next_send_valid_index_[c] \/ n = n_send
  BY <1>4b DEF ThisMsg
<1>7. \A j \in 1 .. n : j \in 1 .. next_send_valid_index_[c] /\ j \in 1 .. BufferSize /\ j <= BufferSize
  BY <1>4, <1>5
<1>8. bytes \in Seq(Nat) /\ Len(bytes) = n /\ \A j \in 1 .. n : bytes[j] = send_buffer_[c][j]
  <2>1. bytes = [j \in 1 .. n |-> send_buffer_[c][j]]
    BY <1>7 DEF FirstBytes
  <2>2. \A j \in 1 .. n : send_buffer_[c][j] \in Nat
    BY <1>4, <1>7
  <2> QED
    BY <1>5, <2>1, <2>2
<1> HIDE DEF bytes
<1>9. \A j \in 1 .. n : bytes[j] = last + j
  BY <1>1, <1>2, <1>7, <1>8 DEF Buffers
<1>10. /\ out[c] \o bytes \in Seq(Nat) /\ Len(out[c] \o bytes) = Len(out[c]) + n
       /\ \A j \in 1 .. Len(out[c]) : (out[c] \o bytes)[j] = out[c][j]
       /\ \A j \in 1 .. n : (out[c] \o bytes)[Len(out[c]) + j] = bytes[j]
       /\ Len(out[c]) \in Nat
  <2>1. PICK s \in Seq(Nat) : s = out[c]
    BY <1>4
  <2>2. Len(s) \in Nat /\ n \in Nat /\ bytes \in Seq(Nat) /\ Len(bytes) = n
    BY <1>5, <1>8
  <2>3. /\ s \o bytes \in Seq(Nat) /\ Len(s \o bytes) = Len(s) + n
        /\ \A j \in 1 .. Len(s) + n :
             (s \o bytes)[j] = IF j <= Len(s) THEN s[j] ELSE bytes[j - Len(s)]
    <3>1. s \in Seq(Nat) /\ bytes \in Seq(Nat)
      BY <2>1, <2>2
    <3>2. /\ s \o bytes \in Seq(Nat) /\ Len(s \o bytes) = Len(s) + Len(bytes)
          /\ \A j \in 1 .. Len(s) + Len(bytes) :
               (s \o bytes)[j] = IF j <= Len(s) THEN s[j] ELSE bytes[j - Len(s)]
      BY ONLY <3>1, ConcatProperties, Zenon
    <3> QED
      BY <2>2, <3>2
  <2>4. \A j \in 1 .. Len(s) : j \in 1 .. Len(s) + n /\ j <= Len(s)
    BY <2>2
  <2>5. \A j \in 1 .. n : /\ Len(s) + j \in 1 .. Len(s) + n /\ ~(Len(s) + j <= Len(s))
                          /\ Len(s) + j - Len(s) = j
    BY <2>2
  <2>6. \A j \in 1 .. n : (s \o bytes)[Len(s) + j] = bytes[j]
    BY <2>3, <2>5
  <2> QED
    BY <2>1, <2>2, <2>3, <2>4, <2>6
<1>11. /\ out' \in [Conn -> Seq(Nat)] /\ out'[c] = out[c] \o bytes
       /\ \A d \in Conn : d # c => out'[d] = out[d]
  BY <1>1, <1>2, <1>3, <1>10 DEF SocketTypeOK
<1>12. last \in Nat /\ answered[c] = last + next_send_valid_index_[c]
       /\ next_send_valid_index_[c] \in Nat
  BY <1>4
<1> HIDE DEF last
<1>13. \A j \in 1 .. n : out'[c][Len(out[c]) + j] = last + j
  BY <1>9, <1>10, <1>11
<1>14. /\ Len(out[c]) \in Nat /\ Len(out'[c]) = Len(out[c]) + n
       /\ \A j \in 1 .. Len(out[c]) : out'[c][j] = out[c][j]
  BY <1>10, <1>11
<1> QED
  BY <1>2, <1>4, <1>5, <1>6, <1>11, <1>12, <1>13, <1>14 DEF c, last

LEMMA TakesStep ==
  \A n : ServerInv /\ spc = "send" /\ n \in 1 .. ThisMsg(Current) /\ SendTakes(Current, n)
           /\ UNCHANGED <<spc, at, listVars, ready, backlog, asked>> => ServerInv'
<1> SUFFICES ASSUME NEW n \in 1 .. ThisMsg(Current), ServerInv, spc = "send",
                    SendTakes(Current, n), UNCHANGED <<spc, at, listVars, ready, backlog, asked>>
             PROVE  ServerInv'
  OBVIOUS
<1> DEFINE c == Current
           last == answered[c] - next_send_valid_index_[c]
<1>0. UNCHANGED <<memberVars, peer, inq, full, drained>>
      /\ n_send' = n_send - n
      /\ clean' = [clean EXCEPT ![c] = clean[c] /\ n = ThisMsg(c)]
  BY DEF SendTakes
<1>1. SocketTypeOK /\ Lists /\ Buffers /\ Streams
  BY DEF ServerInv
<1>2. /\ c \in Conn /\ last \in Nat /\ n_send \in Nat
      /\ next_send_valid_index_[c] \in Nat /\ answered[c] = last + next_send_valid_index_[c]
      /\ n \in Nat \ {0} /\ n <= next_send_valid_index_[c] /\ n <= n_send
      /\ n = ThisMsg(c) => n = next_send_valid_index_[c] \/ n = n_send
      /\ out' \in [Conn -> Seq(Nat)]
      /\ \A d \in Conn : d # c => out'[d] = out[d]
      /\ Len(out[c]) \in Nat /\ Len(out'[c]) = Len(out[c]) + n
      /\ \A j \in 1 .. Len(out[c]) : out'[c][j] = out[c][j]
      /\ \A j \in 1 .. n : out'[c][Len(out[c]) + j] = last + j
  BY TakesBytes
<1>3. \A d \in Conn : (InSend(d) <=> d = c) /\ (InSend(d)' <=> d = c)
  BY DEF InSend, Current, listVars
<1> HIDE DEF c, last
<1>4. clean' \in [Conn -> BOOLEAN]
      /\ \A d \in Conn : clean'[d] => clean[d] /\ (d = c => n = ThisMsg(c))
  <2>1. clean \in [Conn -> BOOLEAN] /\ (clean[c] /\ n = ThisMsg(c)) \in BOOLEAN
    BY <1>1, <1>2 DEF SocketTypeOK
  <2> QED
    BY ONLY <1>0, <1>2, <2>1, Zenon
<1>5. n_send' \in 0 .. SendCap
  <2>1. n_send \in 0 .. SendCap
    BY <1>1 DEF SocketTypeOK
  <2> QED
    BY ONLY <1>0, <1>2, <2>1, SendCapAssumption
<1>6. SocketTypeOK'
  BY <1>0, <1>1, <1>2, <1>4, <1>5 DEF SocketTypeOK, memberVars
<1>7. Lists'
  BY <1>0, <1>1, ListsKept
<1>8. Place'
  BY DEF ServerInv, Place, listVars
<1>9. Buffers'
  BY <1>0, <1>1, <1>3 DEF Buffers, memberVars
<1>10. Streams'
  <2> SUFFICES ASSUME NEW d \in Conn, clean'[d]
               PROVE  /\ \A j \in 1 .. Len(out'[d]) : out'[d][j] = j
                      /\ IF InSend(d)'
                           THEN \/ n_send' = next_send_valid_index_'[d]
                                     /\ Len(out'[d]) = answered'[d] - next_send_valid_index_'[d]
                                \/ n_send' = 0 /\ Len(out'[d]) = answered'[d]
                           ELSE Len(out'[d]) = answered'[d]
    BY DEF Streams
  <2>1. clean[d] /\ (d = c => n = ThisMsg(c))
    BY <1>4
  <2>2. CASE d # c
    <3>1. (\A j \in 1 .. Len(out[d]) : out[d][j] = j) /\ Len(out[d]) = answered[d]
      BY <1>1, <1>3, <2>1, <2>2 DEF Streams
    <3> QED
      BY <1>0, <1>2, <1>3, <2>2, <3>1 DEF memberVars
  <2>3. CASE d = c
    <3>1. /\ \A j \in 1 .. Len(out[c]) : out[c][j] = j
          /\ \/ n_send = next_send_valid_index_[c] /\ Len(out[c]) = answered[c] - next_send_valid_index_[c]
             \/ n_send = 0 /\ Len(out[c]) = answered[c]
      BY <1>1, <1>3, <2>1, <2>3 DEF Streams
    <3>2. /\ n_send = next_send_valid_index_[c] /\ Len(out[c]) = last /\ n = n_send
      <4>1. n_send # 0 /\ answered[c] - next_send_valid_index_[c] = last
        BY ONLY <1>2
      <4>2. n = ThisMsg(c)
        BY <2>1, <2>3
      <4> QED
        BY ONLY <1>2, <3>1, <4>1, <4>2
    <3>3. n_send' = 0 /\ Len(out'[c]) = answered[c]
      BY <1>0, <1>2, <3>2
    <3>4. ASSUME NEW j \in 1 .. Len(out'[c]) PROVE out'[c][j] = j
      <4>1. CASE j <= last
        <5>1. j \in 1 .. Len(out[c])
          BY <1>2, <3>2, <4>1
        <5> QED
          BY <1>2, <3>1, <5>1
      <4>2. CASE ~(j <= last)
        <5>1. j - last \in 1 .. n /\ last + (j - last) = j
          BY <1>2, <3>2, <4>2
        <5> QED
          BY <1>2, <3>2, <5>1
      <4> QED
        BY <4>1, <4>2
    <3> QED
      BY <1>0, <1>2, <1>3, <2>3, <3>3, <3>4 DEF memberVars
  <2> QED
    BY <2>2, <2>3
<1> QED
  BY <1>6, <1>7, <1>8, <1>9, <1>10 DEF ServerInv

LEMMA FailsStep ==
  ServerInv /\ spc = "send" /\ SendFails(Current)
    /\ UNCHANGED <<spc, at, listVars, ready, backlog, asked>> => ServerInv'
<1> SUFFICES ASSUME ServerInv, spc = "send", SendFails(Current),
                    UNCHANGED <<spc, at, listVars, ready, backlog, asked>>
             PROVE  ServerInv'
  OBVIOUS
<1> DEFINE c == Current
<1>0. /\ UNCHANGED <<send_buffer_, next_send_valid_index_, answered, peer, inq, out, drained>>
      /\ n_send > 0 /\ n_send' = Min({n_send + 1, SendCap})
      /\ clean' = [clean EXCEPT ![c] = FALSE]
      /\ send_disconnected_' = send_disconnected_
           \/ send_disconnected_' = [send_disconnected_ EXCEPT ![c] = TRUE]
  BY DEF SendFails, AfterError
<1>1. SocketTypeOK /\ Lists /\ Buffers /\ Streams
  BY DEF ServerInv
<1>2. c \in Conn
  <2>1. at \in 1 .. Len(recv_sockets_)
    BY DEF ServerInv, Place
  <2> QED
    BY <1>1, <2>1 DEF Lists, Once, Current
<1>3. \A d \in Conn : (InSend(d) <=> d = c) /\ (InSend(d)' <=> d = c)
  BY DEF InSend, Current, listVars
<1> HIDE DEF c
<1>4. n_send' \in 0 .. SendCap
  <2>1. n_send \in 0 .. SendCap /\ n_send + 1 \in Int /\ SendCap \in Int /\ SendCap \in Nat
    BY <1>1 DEF SocketTypeOK
  <2>2. Min({n_send + 1, SendCap}) = IF n_send + 1 <= SendCap THEN n_send + 1 ELSE SendCap
    BY ONLY <2>1, MinOfTwo
  <2> QED
    BY ONLY <1>0, <2>1, <2>2
<1>5. full' \in BOOLEAN
  <2>1. full \in BOOLEAN
    BY <1>1 DEF SocketTypeOK
  <2>2. full' = full \/ full' = TRUE
    BY DEF SendFails
  <2> QED
    BY ONLY <2>1, <2>2, Zenon
<1>6. /\ clean' \in [Conn -> BOOLEAN] /\ ~clean'[c]
      /\ \A d \in Conn : d # c => clean'[d] = clean[d]
  BY <1>0, <1>1, <1>2 DEF SocketTypeOK
<1>7. SocketTypeOK'
  BY <1>0, <1>1, <1>2, <1>4, <1>5, <1>6 DEF SocketTypeOK
<1>8. Lists' /\ Place'
  BY <1>0, <1>1, ListsKept DEF ServerInv, Place, listVars
<1>9. Buffers'
  BY <1>0, <1>1, <1>3 DEF Buffers
<1>10. Streams'
  <2>1. \A d \in Conn : clean'[d] => d # c /\ clean[d]
    BY <1>6
  <2> QED
    BY <1>0, <1>1, <1>3, <2>1 DEF Streams
<1> QED
  BY <1>7, <1>8, <1>9, <1>10 DEF ServerInv

LEMMA ServerSteps == ServerInv /\ Moves => ServerInv'
<1> SUFFICES ASSUME ServerInv, Moves PROVE ServerInv'
  OBVIOUS
<1>1. ASSUME SendLoop PROVE ServerInv'
  BY <1>1, TakesStep, FailsStep DEF SendLoop
<1>2. ASSUME Inside \/ StartSendAndRecv PROVE ServerInv'
  BY <1>1, <1>2, ListenStep, AcceptStep, ListsStay, RecvStep, NextStep DEF Inside
<1> QED
  BY <1>2, PollStep, ConnectStep, ClientStep, RestStep DEF Moves

-----------------------------------------------------------------------------
(* main() of the program. *)

MainTypes ==
  /\ mpc \in {"none", "listen", "connect", "poll", "polled", "recv", "send",
              "serve", "served", "done"}
  /\ i \in 1 .. Len(Order)
  /\ itr \in 0 .. Rounds
  /\ link \in [Conn -> {"none", "pending", "made", "failed", "elsewhere"}]
  /\ rest \in 0 .. SendCap
  /\ taken \in [Conn -> Nat]

ProgramInv == ServerInv /\ MainTypes

LEMMA NextTurnTypes ==
  ASSUME MainTypes, NEW first \in {"connect", "recv"}, NextTurn(first)
  PROVE  /\ i' \in 1 .. Len(Order) /\ itr' \in 0 .. Rounds
         /\ mpc' \in {first, "recv", "done"}
<1>1. Len(Order) \in Nat \ {0} /\ i \in 1 .. Len(Order) /\ itr \in 0 .. Rounds /\ Rounds \in Nat
  BY ClientsFinite DEF MainTypes
<1>2. CASE i < Len(Order)
  <2>1. i' = i + 1 /\ mpc' = first /\ itr' = itr
    BY <1>2 DEF NextTurn
  <2>2. i' \in 1 .. Len(Order)
    BY ONLY <1>1, <1>2, <2>1
  <2> QED
    BY <1>1, <2>1, <2>2
<1>3. CASE ~(i < Len(Order))
  <2>1. i' = 1 /\ itr' = (IF itr < Rounds THEN itr + 1 ELSE itr)
        /\ mpc' = (IF itr < Rounds THEN "recv" ELSE "done")
    BY <1>3 DEF NextTurn
  <2>2. itr' \in 0 .. Rounds /\ i' \in 1 .. Len(Order)
    BY ONLY <1>1, <2>1
  <2> QED
    BY <2>1, <2>2
<1> QED
  BY <1>2, <1>3

LEMMA MainStep == ProgramInv /\ [Next]_vars => MainTypes'
<1> SUFFICES ASSUME ProgramInv, [Next]_vars PROVE MainTypes'
  OBVIOUS
<1>0. MainTypes /\ SocketTypeOK /\ Client \in Conn
  BY DEF ProgramInv, ServerInv, MainTypes, Client
<1>1. ASSUME UNCHANGED <<i, itr, rest, taken>>, UNCHANGED link \/ \E c \in Conn, how \in {"pending", "made", "failed", "elsewhere"} :
               link' = [link EXCEPT ![c] = how],
             mpc' \in {"none", "connect", "poll", "polled", "send", "serve", "served", "recv", mpc}
      PROVE  MainTypes'
  BY <1>0, <1>1 DEF MainTypes
<1>2. CASE MainListen \/ ClientConnect \/ MainPoll \/ ClientSent \/ MainServe
  <2>1. CASE ClientConnect
    BY <1>0, <1>1, <2>1 DEF ClientConnect
  <2> QED
    BY <1>1, <1>2, <2>1 DEF MainListen, MainPoll, ClientSent, MainServe
<1>3. CASE ServerCall
  BY <1>0, <1>3 DEF ServerCall, mainVars, MainTypes
<1>4. CASE AfterPoll
  <2>1. CASE NextTurn("connect")
    BY <1>0, <1>4, <2>1, NextTurnTypes DEF AfterPoll, MainTypes
  <2>2. CASE mpc' = "serve" /\ UNCHANGED <<i, itr>>
    BY <1>1, <1>4, <2>2 DEF AfterPoll
  <2> QED
    BY <1>4, <2>1, <2>2 DEF AfterPoll
<1>5. CASE AfterServe
  BY <1>0, <1>5, NextTurnTypes DEF AfterServe, MainTypes
<1>6. CASE ClientReceive
  <2>1. AllTaken \in Nat
    BY <1>0 DEF AllTaken, MainTypes, SocketTypeOK
  <2>2. 1 \in 0 .. SendCap
    OBVIOUS
  <2> QED
    BY <1>0, <1>6, <2>1, <2>2 DEF ClientReceive, MainTypes
<1>7. CASE ClientSendTakes
  <2>1. rest \in 0 .. SendCap /\ rest > 0 /\ rest' = rest - 1 /\ SendCap \in Nat
    BY <1>0, <1>7 DEF ClientSendTakes, Remaining, MainTypes
  <2>2. rest' \in 0 .. SendCap
    BY ONLY <2>1
  <2> QED
    BY <1>0, <1>7, <2>2 DEF ClientSendTakes, MainTypes
<1>8. CASE ClientSendFails
  <2>1. rest \in 0 .. SendCap /\ rest + 1 \in Int /\ SendCap \in Int /\ SendCap \in Nat
    BY <1>0 DEF MainTypes
  <2>2. Min({rest + 1, SendCap}) = IF rest + 1 <= SendCap THEN rest + 1 ELSE SendCap
    BY ONLY <2>1, MinOfTwo
  <2>3. rest' = Min({rest + 1, SendCap})
    BY <1>8 DEF ClientSendFails
  <2>4. rest' \in 0 .. SendCap
    BY ONLY <2>1, <2>2, <2>3
  <2> QED
    BY <1>0, <1>8, <2>4 DEF ClientSendFails, MainTypes
<1>9. CASE Served(ServerStep) \/ UNCHANGED vars
  BY <1>0, <1>9 DEF Served, vars, mainVars, MainTypes
<1>10. CASE Network
  <2>1. ASSUME NEW c \in Conn, Settle(c) PROVE MainTypes'
    BY <1>1, <2>1 DEF Settle
  <2> QED
    BY <1>0, <1>10, <2>1 DEF Network, mainVars, MainTypes
<1> QED
  BY <1>2, <1>3, <1>4, <1>5, <1>6, <1>7, <1>8, <1>9, <1>10 DEF Next, main

LEMMA ProgramStart == Init => ProgramInv
<1>1. Init => ServerInv
  BY ServerStart DEF Init
<1>2. Init => MainTypes
  <2>1. 1 \in 1 .. Len(Order)
    BY ClientsFinite
  <2> QED
    BY <2>1 DEF Init, MainTypes
<1> QED
  BY <1>1, <1>2 DEF ProgramInv

LEMMA ProgramStep == ProgramInv /\ [Next]_vars => ProgramInv'
<1>1. ProgramInv /\ [Next]_vars => ServerInv'
  BY StepMoves, ServerSteps DEF ProgramInv, MainTypes
<1> QED
  BY <1>1, MainStep DEF ProgramInv

LEMMA ProgramInvariant == Spec => []ProgramInv
BY ProgramStart, ProgramStep, PTL DEF Spec

(* The variables stay in their types; no list of the server has a socket   *)
(* twice, no send buffer runs over and no list is left while it is walked. *)
THEOREM TypeCorrect == Spec => []TypeOK
<1>1. ProgramInv => TypeOK
  BY ServerTypes DEF ProgramInv, MainTypes, TypeOK
<1> QED
  BY <1>1, ProgramInvariant, PTL

(* While no send failed or took a part only, every client gets the bytes   *)
(* of its answers in order and once each, however sendAndRecv() of the     *)
(* sockets, poll() and the clients interleave.                             *)
THEOREM StreamsIntact == Spec => []StreamIntact
<1>1. ProgramInv => StreamIntact
  <2> SUFFICES ASSUME ProgramInv, NEW c \in Conn, clean[c]
               PROVE  /\ out[c] = [j \in 1 .. Len(out[c]) |-> j]
                      /\ \/ Len(out[c]) = answered[c]
                         \/ spc = "send" /\ Current = c /\ Len(out[c]) < answered[c]
    BY DEF StreamIntact
  <2>1. out[c] \in Seq(Nat) /\ answered[c] \in Nat /\ next_send_valid_index_[c] \in 0 .. BufferSize
    BY DEF ProgramInv, ServerInv, SocketTypeOK
  <2>2. /\ \A j \in 1 .. Len(out[c]) : out[c][j] = j
        /\ \/ Len(out[c]) = answered[c]
           \/ InSend(c) /\ Len(out[c]) = answered[c] - next_send_valid_index_[c]
    BY DEF ProgramInv, ServerInv, Streams
  <2>3. out[c] = [j \in 1 .. Len(out[c]) |-> j]
    <3>1. Len(out[c]) \in Nat /\ out[c] \in [1 .. Len(out[c]) -> Nat]
      BY <2>1, LenProperties
    <3>2. PICK n \in Nat : n = Len(out[c])
      BY <3>1
    <3>3. out[c] \in [1 .. n -> Nat] /\ \A j \in 1 .. n : out[c][j] = j
      BY <2>2, <3>1, <3>2
    <3>4. out[c] = [j \in 1 .. n |-> j]
      BY ONLY <3>3
    <3> QED
      BY <3>2, <3>4
  <2>4. Len(out[c]) = answered[c] \/ (InSend(c) /\ Len(out[c]) < answered[c])
    BY <2>1, <2>2
  <2> QED
    BY <2>3, <2>4 DEF InSend
<1> QED
  BY <1>1, ProgramInvariant, PTL

(* Only the send loop adds to what went out. *)
LEMMA OutGrows ==
  ASSUME ServerInv, Moves
  PROVE  \/ out' = out
         \/ UNCHANGED <<answered, next_send_valid_index_>> /\ spc = "send"
              /\ \E n \in 1 .. ThisMsg(Current) : SendTakes(Current, n)
<1>1. Inside => \/ out' = out
                \/ UNCHANGED <<answered, next_send_valid_index_>> /\ spc = "send"
                     /\ \E n \in 1 .. ThisMsg(Current) : SendTakes(Current, n)
  BY DEF Inside, Listen, Accept, AcceptDies, AcceptEnds, RecvNext, Receive, SendLoop, SendTakes,
         SendFails, NextSocket, SendDone, EndSendAndRecv, socketVars, memberVars
<1> QED
  BY <1>1 DEF Moves, Poll, StartSendAndRecv, Connect, Arrive, Close, RoomChanges, serverVars, socketVars

(* Whatever fails, what goes out is of the answer that is being sent, and  *)
(* never an earlier one or a cell that was not written.                    *)
THEOREM NothingStale == Spec => NeverStale
<1>1. ASSUME ServerInv, Moves PROVE Fresh
  <2>1. \A c \in Conn : Len(out[c]) \in Nat /\ Len(out[c]) + 1 .. Len(out[c]) = {}
    <3>1. \A m \in Nat : m + 1 .. m = {}
      OBVIOUS
    <3>2. \A c \in Conn : Len(out[c]) \in Nat
      BY <1>1 DEF ServerInv, SocketTypeOK
    <3> QED
      BY <3>1, <3>2
  <2>2. CASE out' = out
    BY <2>1, <2>2 DEF Fresh
  <2>3. ASSUME NEW n \in 1 .. ThisMsg(Current), spc = "send", SendTakes(Current, n)
        PROVE  Fresh
    <3> DEFINE d == Current
               last == answered[d] - next_send_valid_index_[d]
    <3>1. /\ last \in Nat /\ next_send_valid_index_[d] \in Nat
          /\ answered[d] = last + next_send_valid_index_[d]
          /\ n \in Nat \ {0} /\ n <= next_send_valid_index_[d]
          /\ \A c \in Conn : c # d => out'[c] = out[c]
          /\ Len(out[d]) \in Nat /\ Len(out'[d]) = Len(out[d]) + n
          /\ \A j \in 1 .. n : out'[d][Len(out[d]) + j] = last + j
      BY <1>1, <2>3, TakesBytes
    <3> HIDE DEF last, d
    <3>2. ASSUME NEW j \in Len(out[d]) + 1 .. Len(out'[d])
          PROVE  out'[d][j] \in last + 1 .. answered[d]
      <4>1. PICK k \in 1 .. n : j = Len(out[d]) + k
        <5>1. j - Len(out[d]) \in 1 .. n /\ j = Len(out[d]) + (j - Len(out[d]))
          BY ONLY <3>1, <3>2
        <5> QED
          BY <5>1
      <4>2. last + k \in last + 1 .. answered[d]
        BY ONLY <3>1, k \in 1 .. n
      <4> QED
        BY <3>1, <4>1, <4>2
    <3> QED
      BY <2>1, <3>1, <3>2 DEF last, d, Fresh
  <2> QED
    BY <1>1, <2>2, <2>3, OutGrows
<1>2. ProgramInv /\ [Next]_vars => [Fresh]_serverVars
  BY <1>1, StepMoves DEF ProgramInv, MainTypes
<1> QED
  BY <1>2, ProgramInvariant, PTL DEF Spec, NeverStale

-----------------------------------------------------------------------------
(* Who waits for a later turn of main().                                   *)

Settled == backlog = <<>> \/ fds = 0

(* The clients of main() keep their connections, and what is accepted is   *)
(* received from.                                                          *)
Peaceful ==
  /\ disconnected_sockets_ = {}
  /\ \A c \in accepted : Contains(recv_sockets_, c)
  /\ \A c \in Conn : /\ peer[c] \in {"none", "open"}
                     /\ link[c] = "made" => c \in accepted \/ Contains(backlog, c)

(* Where the server is when main() is at mpc.                              *)
Phases ==
  /\ mpc \in {"listen", "connect"} => itr = 0
  /\ mpc \in {"recv", "send", "serve", "served", "done"} => itr > 0
  /\ spc = "down" => mpc = "listen"
  /\ spc \in {"accept", "exit"} => mpc = "polled"
  /\ spc \in {"recv", "send"} => mpc = "served"

(* The listener's event is not lost while a connection waits.              *)
Heard == Settled \/ spc \in {"accept", "exit"} \/ Contains(ready, Listener)

(* Before the first poll() that has a sleep before it, only the first      *)
(* client has sent something.                                              *)
First == itr = 0 \/ (itr = 1 /\ i = 1 /\ mpc \in {"recv", "send", "poll"})

Early ==
  /\ itr = 0 => \A k \in 1 .. Len(ready) : ready[k] = Listener
  /\ First => \A k \in 1 .. Len(ready) : ready[k] \in {Listener, Order[1]}

(* After it no connection is pending.  Who still waits to be accepted is   *)
(* next: the first client's event was the one before the listener's.       *)
IsNext ==
  /\ itr = 1
  /\ (i = 1 /\ mpc \in {"polled", "serve", "served"}) \/ (i = 2 /\ mpc \in {"recv", "send", "poll"})
  /\ ready # <<>> /\ ready[1] = Listener

Later ==
  ~First => /\ \A c \in Conn : link[c] # "pending"
            /\ Settled \/ spc \in {"accept", "exit"} \/ IsNext

(* A request waits only until the sendAndRecv() that follows.              *)
TakesUp ==
  /\ itr = 0 => \A c \in Conn : inq[c] = 0
  /\ mpc \in {"recv", "done"} => \A c \in accepted : inq[c] = 0
  /\ mpc = "served" => \A k \in 1 .. Len(recv_sockets_) :
       k < at \/ (k = at /\ spc = "send") \/ spc = "idle" => inq[recv_sockets_[k]] = 0

Turn == Peaceful /\ Phases /\ Heard /\ Early /\ Later /\ TakesUp

TurnInv == mpc # "none" => Turn

(* Nobody is dropped in main(), so poll() looks at the ready list itself.  *)
LEMMA WithoutNone ==
  ASSUME NEW S, NEW list, Once(list, S)
  PROVE  Without(list, {}) = list
<1> DEFINE L == Len(list)
           kept == Kept(list, {})
           T == {m \in Nat : m <= L => /\ kept[m] \in Seq(S) /\ Len(kept[m]) = m
                                       /\ \A k \in 1 .. m : kept[m][k] = list[k]}
<1>1. L \in Nat /\ list \in Seq(S) /\ \A k \in 1 .. L : list[k] \in S
  BY DEF Once
<1>2. kept = [n \in 0 .. L |-> WithoutBody(list, {}, kept, n)]
  BY <1>1, KeptExists DEF Kept
<1> HIDE DEF L, kept
<1>3. 0 \in T
  <2>1. kept[0] = <<>>
    BY <1>1, <1>2 DEF WithoutBody
  <2>2. kept[0] \in Seq(S) /\ Len(kept[0]) = 0
    BY <2>1, EmptyLen
  <2>3. \A k \in 1 .. 0 : kept[0][k] = list[k]
    OBVIOUS
  <2> QED
    BY <2>2, <2>3
<1>4. ASSUME NEW m \in T PROVE m + 1 \in T
  <2>0. m \in Nat /\ m + 1 \in Nat
    OBVIOUS
  <2> SUFFICES ASSUME m + 1 <= L
               PROVE  /\ kept[m + 1] \in Seq(S) /\ Len(kept[m + 1]) = m + 1
                      /\ \A k \in 1 .. m + 1 : kept[m + 1][k] = list[k]
    BY <2>0
  <2>1. /\ kept[m] \in Seq(S) /\ Len(kept[m]) = m
        /\ \A k \in 1 .. m : kept[m][k] = list[k]
    BY <1>1, <2>0
  <2> HIDE DEF T
  <2>2. list[m + 1] \in S /\ m + 1 \in 0 .. L
    BY <1>1, <2>0
  <2>3. kept[m + 1] = Append(kept[m], list[m + 1])
    <3>1. \A n \in 0 .. L : kept[n] = WithoutBody(list, {}, kept, n)
      BY ONLY <1>2, Zenon
    <3>2. kept[m + 1] = WithoutBody(list, {}, kept, m + 1)
      BY <2>2, <3>1
    <3>3. m + 1 # 0 /\ (m + 1) - 1 = m
      BY <2>0
    <3> QED
      BY <3>2, <3>3 DEF WithoutBody
  <2>4. PICK s \in Seq(S) : s = kept[m]
    BY <2>1
  <2>5. /\ Append(s, list[m + 1]) \in Seq(S) /\ Len(Append(s, list[m + 1])) = Len(s) + 1
        /\ \A k \in 1 .. Len(s) : Append(s, list[m + 1])[k] = s[k]
        /\ Append(s, list[m + 1])[Len(s) + 1] = list[m + 1]
    BY <2>2, <2>4, AppendProperties
  <2>6. \A k \in 1 .. m + 1 : k \in 1 .. m \/ k = m + 1
    BY <2>0
  <2> QED
    BY <2>1, <2>3, <2>4, <2>5, <2>6
<1>5. L \in T
  <2> HIDE DEF T
  <2>1. T \subseteq Nat
    BY DEF T
  <2> QED
    BY <1>1, <1>3, <1>4, <2>1, SetInduction
<1>6. /\ kept[L] \in Seq(S) /\ Len(kept[L]) = L
      /\ \A k \in 1 .. L : kept[L][k] = list[k]
  BY <1>1, <1>5
<1>7. kept[L] = list
  <2>1. PICK s \in Seq(S) : s = kept[L]
    BY <1>6
  <2>2. s \in [1 .. L -> S] /\ list \in [1 .. L -> S]
    BY <1>1, <1>6, <2>1, LenProperties DEF L
  <2>3. s = list
    BY ONLY <1>6, <2>1, <2>2
  <2> QED
    BY <2>1, <2>3
<1> QED
  BY <1>7, WithoutKept, Zenon DEF kept, L

(* A descriptor that is woken comes last.                                  *)
LEMMA WokenLast ==
  ASSUME Lists, NEW s \in interest
  PROVE  LET woken == Woken(s)
         IN  /\ Contains(woken, s)
             /\ \A y : Contains(ready, y) => Contains(woken, y)
             /\ ready # <<>> => woken # <<>> /\ woken[1] = ready[1]
             /\ \A R : s \in R /\ (\A k \in 1 .. Len(ready) : ready[k] \in R)
                         => \A k \in 1 .. Len(woken) : woken[k] \in R
<1>1. Once(ready, interest) /\ Len(ready) \in Nat /\ (ready # <<>> => 1 \in 1 .. Len(ready))
  <2>1. Once(ready, interest) /\ Len(ready) \in Nat
    BY DEF Lists, Once
  <2>2. ready # <<>> => Len(ready) # 0
    BY <2>1, EmptySeq DEF Once
  <2> QED
    BY <2>1, <2>2
<1>2. CASE Contains(ready, s)
  BY <1>2 DEF Woken
<1>3. CASE ~Contains(ready, s)
  <2> DEFINE t == Append(ready, s)
  <2>1. Woken(s) = t
    BY <1>3 DEF Woken
  <2>2. /\ Once(t, interest)
        /\ Len(t) = Len(ready) + 1
        /\ \A k \in 1 .. Len(ready) : t[k] = ready[k]
        /\ t[Len(ready) + 1] = s
        /\ \A y : Contains(t, y) <=> Contains(ready, y) \/ y = s
    BY <1>1, <1>3, OnceAppend
  <2> HIDE DEF t
  <2>3. t # <<>>
    BY <1>1, <2>2, EmptySeq
  <2>4. \A k \in 1 .. Len(t) : k \in 1 .. Len(ready) \/ k = Len(ready) + 1
    BY <1>1, <2>2
  <2>5. ASSUME NEW R, s \in R, \A k \in 1 .. Len(ready) : ready[k] \in R
        PROVE  \A k \in 1 .. Len(t) : t[k] \in R
    BY <2>2, <2>4, <2>5
  <2> QED
    BY <1>1, <2>1, <2>2, <2>3, <2>5
<1> QED
  BY <1>2, <1>3

(* Nothing that Turn speaks of but spc, at and where main() is changes.    *)
restVars == <<link, peer, inq, recv_sockets_, disconnected_sockets_, accepted, fds, ready, backlog>>

LEMMA ListenTurn == ProgramInv /\ Turn /\ MainListen => Turn'
<1> SUFFICES ASSUME ProgramInv, Turn, MainListen PROVE Turn'
  OBVIOUS
<1>1. /\ mpc = "listen" /\ mpc' = "connect" /\ spc = "down" /\ spc' = "idle" /\ UNCHANGED <<i, itr>>
      /\ UNCHANGED restVars /\ UNCHANGED at
  BY DEF MainListen, Listen, socketVars, restVars
<1>2. Peaceful'
  BY <1>1 DEF Turn, Peaceful, restVars, Contains
<1>3. Phases' /\ Heard' /\ Early' /\ Later'
  BY <1>1 DEF Turn, Phases, Heard, Early, Later, First, Settled, restVars, Contains
<1>4. TakesUp'
  BY <1>1 DEF Turn, TakesUp, restVars
<1> QED
  BY <1>2, <1>3, <1>4 DEF Turn

LEMMA ConnectTurn == ProgramInv /\ Turn /\ ClientConnect => Turn'
<1> SUFFICES ASSUME ProgramInv, Turn, ClientConnect PROVE Turn'
  OBVIOUS
<1>1. /\ mpc = "connect" /\ mpc' = "poll" /\ UNCHANGED <<i, itr, spc, at>> /\ itr = 0
      /\ UNCHANGED <<peer, inq, recv_sockets_, disconnected_sockets_, accepted, fds, ready, backlog>>
  BY DEF ClientConnect, Turn, Phases, serverVars, socketVars, listVars
<1>2. \A c \in Conn : link'[c] = "made" => link[c] = "made"
  BY DEF ClientConnect, ProgramInv, MainTypes
<1>3. Peaceful'
  BY <1>1, <1>2 DEF Turn, Peaceful, Contains
<1>4. Phases' /\ Heard' /\ Early' /\ Later'
  BY <1>1 DEF Turn, Phases, Heard, Early, Later, First, Settled, Contains
<1>5. TakesUp'
  BY <1>1 DEF Turn, TakesUp
<1> QED
  BY <1>3, <1>4, <1>5 DEF Turn

(* A connection is made at any time before the first poll() that has a     *)
(* sleep before it.                                                        *)
LEMMA SettleTurn == \A d \in Conn : ProgramInv /\ Turn /\ Settle(d) => Turn'
<1> SUFFICES ASSUME NEW d \in Conn, ProgramInv, Turn, Settle(d) PROVE Turn'
  OBVIOUS
<1>1. link[d] = "pending" /\ UNCHANGED <<mpc, i, itr>> /\ First
  BY DEF Settle, Turn, Later
<1>2. Lists /\ SocketTypeOK /\ link \in [Conn -> {"none", "pending", "made", "failed", "elsewhere"}]
  BY DEF ProgramInv, ServerInv, MainTypes
<1>3. CASE Connect(d) /\ link' = [link EXCEPT ![d] = "made"]
  <2>1. /\ peer' = [peer EXCEPT ![d] = "open"] /\ Listener \in interest
        /\ backlog' = Append(backlog, d) /\ ready' = Woken(Listener)
        /\ UNCHANGED <<inq, spc, at, recv_sockets_, disconnected_sockets_, accepted, fds>>
    BY <1>3 DEF Connect, listVars
  <2>2. ~Contains(backlog, d)
    BY <1>2, <1>3 DEF Connect, Lists
  <2>3. \A y : Contains(backlog', y) <=> Contains(backlog, y) \/ y = d
    BY <1>2, <2>1, <2>2, OnceAppend DEF Lists
  <2>4. /\ Contains(ready', Listener)
        /\ \A R : Listener \in R /\ (\A k \in 1 .. Len(ready) : ready[k] \in R)
                    => \A k \in 1 .. Len(ready') : ready'[k] \in R
    BY <1>2, <2>1, WokenLast
  <2>5. Peaceful'
    <3>1. \A c \in Conn : peer'[c] \in {"none", "open"}
      BY <1>2, <2>1 DEF Turn, Peaceful, SocketTypeOK
    <3>2. \A c \in Conn : link'[c] = "made" => c \in accepted \/ Contains(backlog', c)
      BY <1>2, <1>3, <2>3 DEF Turn, Peaceful
    <3> QED
      BY <2>1, <3>1, <3>2 DEF Turn, Peaceful, Contains
  <2>6. Early'
    <3>1. itr = 0 => \A k \in 1 .. Len(ready') : ready'[k] = Listener
      <4>1. itr = 0 => \A k \in 1 .. Len(ready) : ready[k] \in {Listener}
        BY DEF Turn, Early
      <4>2. itr = 0 => \A k \in 1 .. Len(ready') : ready'[k] \in {Listener}
        BY <2>4, <4>1
      <4> QED
        BY <4>2
    <3>2. \A k \in 1 .. Len(ready') : ready'[k] \in {Listener, Order[1]}
      <4>1. \A k \in 1 .. Len(ready) : ready[k] \in {Listener, Order[1]}
        BY <1>1 DEF Turn, Early
      <4> QED
        BY <2>4, <4>1
    <3> QED
      BY <1>1, <3>1, <3>2 DEF Early
  <2>7. Phases' /\ Heard' /\ Later'
    BY <1>1, <2>1, <2>4 DEF Turn, Phases, Heard, Later, First
  <2>8. TakesUp'
    BY <1>1, <2>1 DEF Turn, TakesUp
  <2> QED
    BY <2>5, <2>6, <2>7, <2>8 DEF Turn
<1>4. ASSUME NEW how \in {"failed", "elsewhere"}, link' = [link EXCEPT ![d] = how], UNCHANGED serverVars
      PROVE  Turn'
  <2>1. \A c \in Conn : link'[c] = "made" => link[c] = "made"
    BY <1>2, <1>4
  <2>2. UNCHANGED <<peer, inq, spc, at, recv_sockets_, disconnected_sockets_, accepted, fds, ready, backlog>>
    BY <1>4 DEF serverVars, socketVars, listVars
  <2>3. Peaceful'
    BY <2>1, <2>2 DEF Turn, Peaceful, Contains
  <2>4. Phases' /\ Heard' /\ Early' /\ Later'
    BY <1>1, <2>2 DEF Turn, Phases, Heard, Early, Later, First, Settled, Contains
  <2>5. TakesUp'
    BY <1>1, <2>2 DEF Turn, TakesUp
  <2> QED
    BY <2>3, <2>4, <2>5 DEF Turn
<1> QED
  BY <1>3, <1>4 DEF Settle

(* What poll() reports while a connection waits: the listener, or before   *)
(* it the first client.                                                    *)
LEMMA PollTurn == ProgramInv /\ Turn /\ MainPoll => Turn'
<1> SUFFICES ASSUME ProgramInv, Turn, MainPoll PROVE Turn'
  OBVIOUS
<1>1. /\ mpc = "poll" /\ mpc' = "polled" /\ spc = "idle" /\ UNCHANGED <<i, itr, link>>
      /\ UNCHANGED <<peer, inq, at, accepted, fds, backlog>>
      /\ itr > 0 => \A c \in Conn : link[c] # "pending"
  BY DEF MainPoll, Poll, socketVars
<1>2. Lists /\ SocketTypeOK /\ itr \in Nat
  BY DEF ProgramInv, ServerInv, MainTypes
<1>3. disconnected_sockets_ = {}
  BY DEF Turn, Peaceful
<1>4. Without(recv_sockets_, disconnected_sockets_) = recv_sockets_
      /\ Without(ready, disconnected_sockets_) = ready
  BY <1>2, <1>3, WithoutNone DEF Lists
<1>5. /\ Once(ready, interest) /\ Len(ready) \in Nat
      /\ \A k \in 1 .. Len(ready) : ready[k] \in accepted \cup {Listener} /\ ready[k] \in Conn \cup {Listener}
  BY <1>2 DEF Lists, Once
<1>6. \/ /\ Due(ready) = {} /\ ready' = <<>> /\ recv_sockets_' = recv_sockets_
         /\ UNCHANGED <<spc, disconnected_sockets_>>
      \/ \E k \in Due(ready) : /\ \A j \in Due(ready) : k <= j
                               /\ ready' = SubSeq(ready, k + 1, Len(ready))
                               /\ Report(ready[k], recv_sockets_)
  BY <1>4 DEF MainPoll, Poll
<1>7. \A k \in Due(ready) : k \in 1 .. Len(ready)
  BY DEF Due
<1>8. \A c \in Conn : ~HangsUp(Events(c))
  BY DEF Turn, Peaceful, HangsUp, Events
<1>9. /\ disconnected_sockets_' = {}
      /\ \A y : Contains(recv_sockets_, y) => Contains(recv_sockets_', y)
      /\ spc' \in {"idle", "accept"}
  <2>1. ASSUME NEW k \in Due(ready), Report(ready[k], recv_sockets_) PROVE <1>9
    <3>1. CASE ready[k] = Listener
      BY <1>3, <2>1, <3>1 DEF Report
    <3>2. CASE ready[k] # Listener
      <4>1. \A y : Contains(Added(recv_sockets_, ready[k]), y) <=> Contains(recv_sockets_, y) \/ y = ready[k]
        BY <1>2, <1>5, <1>7, <3>2, OnceAdded DEF Lists
      <4> QED
        BY <1>1, <1>3, <1>5, <1>7, <1>8, <2>1, <3>2, <4>1 DEF Report
    <3> QED
      BY <3>1, <3>2
  <2> QED
    BY <1>1, <1>3, <1>6, <2>1
<1>10. \A k \in 1 .. Len(ready') : \E j \in 1 .. Len(ready) : ready'[k] = ready[j]
  <2>1. ASSUME NEW k \in Due(ready), ready' = SubSeq(ready, k + 1, Len(ready)) PROVE <1>10
    <3>1. /\ Once(SubSeq(ready, k + 1, Len(ready)), interest)
          /\ \A y : Contains(SubSeq(ready, k + 1, Len(ready)), y) => Contains(ready, y)
      BY <1>5, <1>7, OnceFrom
    <3>2. Once(ready', interest) /\ \A y : Contains(ready', y) => Contains(ready, y)
      BY <2>1, <3>1
    <3> QED
      BY <3>2 DEF Contains
  <2>2. CASE ready' = <<>>
    BY <2>2
  <2> QED
    BY <1>6, <2>1, <2>2
<1>11. CASE Settled
  <2>1. Heard' /\ Later'
    BY <1>1, <1>2, <1>11 DEF Heard, Later, First, Settled
  <2>2. Peaceful'
    BY <1>1, <1>9 DEF Turn, Peaceful, Contains
  <2>3. Early'
    BY <1>1, <1>10 DEF Turn, Early, First
  <2>4. Phases' /\ TakesUp'
    BY <1>1, <1>9 DEF Turn, Phases, TakesUp
  <2> QED
    BY <2>1, <2>2, <2>3, <2>4 DEF Turn
<1>12. CASE ~Settled
  <2>1. PICK j \in 1 .. Len(ready) : ready[j] = Listener
    BY <1>1, <1>12 DEF Turn, Heard, Contains
  <2>2. j \in Due(ready)
    BY <1>12, <2>1 DEF Due, Events, Settled
  <2>3. PICK k \in Due(ready) : /\ \A j1 \in Due(ready) : k <= j1
                                /\ ready' = SubSeq(ready, k + 1, Len(ready))
                                /\ Report(ready[k], recv_sockets_)
    BY <1>6, <2>2
  <2>4. k \in 1 .. Len(ready) /\ k <= j
    BY <1>7, <2>2, <2>3
  <2>5. ready[k] = Listener => spc' = "accept"
    BY <2>3 DEF Report
  <2>6. ASSUME ready[k] # Listener
        PROVE  itr = 1 /\ i = 1 /\ First /\ ready' # <<>> /\ ready'[1] = Listener
    <3>1. First
      <4>1. ~First => ready[1] = Listener
        BY <1>1, <1>12 DEF Turn, Later, IsNext
      <4>2. ready[1] = Listener => 1 \in Due(ready)
        BY <1>5, <1>12, <2>1 DEF Due, Events, Settled
      <4>3. ready[1] = Listener => k = 1
        BY <2>3, <2>4, <4>2
      <4> QED
        BY <2>6, <4>1, <4>3
    <3>2. itr # 0 /\ ready[k] = Order[1]
      BY <2>4, <2>6, <3>1 DEF Turn, Early
    <3>3. itr = 1 /\ i = 1
      BY <3>1, <3>2 DEF First
    <3>4. /\ Once(SubSeq(ready, k + 1, Len(ready)), interest)
          /\ \A y : Contains(SubSeq(ready, k + 1, Len(ready)), y) => Contains(ready, y) /\ y # ready[k]
      BY <1>5, <2>4, OnceFrom
    <3>5. /\ Once(ready', interest)
          /\ \A y : Contains(ready', y) => Contains(ready, y) /\ y # ready[k]
      BY <2>3, <3>4
    <3>6. ready' # <<>>
      <4>1. k < j /\ Len(ready) \in Nat
        BY <1>5, <2>1, <2>4, <2>6
      <4>2. Len(SubSeq(ready, k + 1, Len(ready))) = IF k + 1 <= Len(ready) THEN Len(ready) - (k + 1) + 1 ELSE 0
        <5>1. k + 1 \in Int /\ Len(ready) \in Int /\ \A j1 \in k + 1 .. Len(ready) : ready[j1] \in interest
          BY <1>5, <2>4 DEF Once
        <5> QED
          BY ONLY <5>1, SubSeqProperties, SMTT(30)
      <4>3. Len(ready') # 0
        BY <2>1, <2>3, <2>4, <4>1, <4>2
      <4> QED
        BY <4>3, EmptySeq
    <3>7. 1 \in 1 .. Len(ready')
      <4>1. Len(ready') \in Nat /\ Len(ready') # 0
        BY <3>5, <3>6, EmptySeq DEF Once
      <4> QED
        BY <4>1
    <3>8. Contains(ready', ready'[1])
      BY <3>7 DEF Contains
    <3>9. Contains(ready, ready'[1]) /\ ready'[1] # Order[1]
      BY <3>2, <3>5, <3>8
    <3>10. ready'[1] \in {Listener, Order[1]}
      BY <3>1, <3>9 DEF Turn, Early, Contains
    <3> QED
      BY <3>1, <3>3, <3>6, <3>9, <3>10
  <2>7. Heard' /\ Later'
    <3>1. CASE ready[k] = Listener
      BY <1>1, <1>2, <2>5, <3>1 DEF Heard, Later, First
    <3>2. CASE ready[k] # Listener
      <4>1. itr = 1 /\ i = 1 /\ First /\ ready' # <<>> /\ ready'[1] = Listener
        BY <2>6, <3>2
      <4>2. IsNext' /\ \A c \in Conn : link'[c] # "pending"
        BY <1>1, <4>1 DEF IsNext
      <4>3. Contains(ready', Listener)
        <5>1. /\ Once(SubSeq(ready, k + 1, Len(ready)), interest)
          BY <1>5, <2>4, OnceFrom
        <5>2. Len(ready') \in Nat /\ Len(ready') # 0
          BY <2>3, <4>1, <5>1, EmptySeq DEF Once
        <5>3. 1 \in 1 .. Len(ready')
          BY <5>2
        <5> QED
          BY <4>1, <5>3 DEF Contains
      <4> QED
        BY <4>2, <4>3 DEF Heard, Later
    <3> QED
      BY <3>1, <3>2
  <2>8. Peaceful'
    BY <1>1, <1>9 DEF Turn, Peaceful, Contains
  <2>9. Early'
    BY <1>1, <1>10 DEF Turn, Early, First
  <2>10. Phases' /\ TakesUp'
    BY <1>1, <1>9 DEF Turn, Phases, TakesUp
  <2> QED
    BY <2>7, <2>8, <2>9, <2>10 DEF Turn
<1> QED
  BY <1>11, <1>12

(* The server's steps inside of poll() and sendAndRecv().                  *)
LEMMA CallTurn == ProgramInv /\ Turn /\ ServerCall => Turn'
<1> SUFFICES ASSUME ProgramInv, Turn, ServerCall PROVE Turn'
  OBVIOUS
<1>1. mpc \in {"polled", "served"} /\ Inside /\ UNCHANGED <<mpc, i, itr, link>>
  BY DEF ServerCall, InCall, mainVars
<1>2. Lists /\ SocketTypeOK /\ itr \in 0 .. Rounds
  BY DEF ProgramInv, ServerInv, MainTypes
<1>3. Peaceful /\ Phases /\ Heard /\ Early /\ Later /\ TakesUp
  BY DEF Turn
<1>4. CASE Listen
  BY <1>1, <1>3, <1>4 DEF Listen, Phases
<1>5. CASE Accept
  <2> DEFINE s == Head(backlog)
  <2>1. /\ spc = "accept" /\ backlog # <<>> /\ fds > 0 /\ mpc = "polled"
        /\ accepted' = accepted \cup {s} /\ recv_sockets_' = Added(recv_sockets_, s)
        /\ backlog' = Tail(backlog) /\ spc' = "accept"
        /\ UNCHANGED <<peer, inq, at, disconnected_sockets_>>
    BY <1>3, <1>5 DEF Accept, GoOn, socketVars, Phases
  <2>2. s \in Conn /\ \A y : Contains(recv_sockets_', y) <=> Contains(recv_sockets_, y) \/ y = s
    <3>1. Once(backlog, Conn) /\ Once(recv_sockets_, Conn)
      BY <1>2 DEF Lists
    <3>2. s \in Conn
      BY <2>1, <3>1, OnceTail
    <3>3. \A y : Contains(Added(recv_sockets_, s), y) <=> Contains(recv_sockets_, y) \/ y = s
      BY ONLY <3>1, <3>2, OnceAdded
    <3> QED
      BY <2>1, <3>2, <3>3
  <2>3. itr = 0 => ready' = ready
    <3>1. itr = 0 => inq[s] = 0 /\ peer[s] \in {"none", "open"}
      BY <1>3, <2>2 DEF TakesUp, Peaceful
    <3>2. s # Listener
      BY <2>2, ServerAssumption
    <3> QED
      BY <1>5, <3>1, <3>2 DEF Accept, Events
  <2>4. \A c \in Conn : Contains(backlog, c) => c = s \/ Contains(backlog', c)
    <3> SUFFICES ASSUME NEW c \in Conn, Contains(backlog, c), c # s PROVE Contains(Tail(backlog), c)
      BY <2>1
    <3>1. backlog \in Seq(Conn) /\ Len(backlog) \in Nat /\ s = backlog[1]
      BY <1>2, <2>1 DEF Lists, Once
    <3>2. PICK k \in 1 .. Len(backlog) : backlog[k] = c
      BY <3>1 DEF Contains
    <3>3. k - 1 \in 1 .. Len(backlog) - 1 /\ k - 1 + 1 = k
      BY <3>1, <3>2
    <3>4. Len(Tail(backlog)) = Len(backlog) - 1 /\ Tail(backlog)[k - 1] = backlog[k]
      BY <2>1, <3>1, <3>3
    <3> QED
      BY <3>2, <3>3, <3>4 DEF Contains
  <2> HIDE DEF s
  <2>5. Peaceful'
    BY <1>1, <1>3, <2>1, <2>2, <2>4 DEF Peaceful, Contains
  <2>6. Phases' /\ Heard' /\ Later'
    BY <1>1, <1>3, <2>1 DEF Phases, Heard, Later, First
  <2>6a. Early'
    BY <1>1, <1>3, <2>1, <2>3 DEF Early, First
  <2>7. TakesUp'
    BY <1>1, <1>3, <2>1 DEF TakesUp
  <2> QED
    BY <2>5, <2>6, <2>6a, <2>7 DEF Turn
<1>6. CASE AcceptDies \/ AcceptEnds
  <2>1. /\ mpc = "polled"
        /\ spc' = "exit" \/ (spc' = "idle" /\ Settled)
        /\ UNCHANGED <<peer, inq, at, recv_sockets_, disconnected_sockets_, accepted, fds, ready, backlog>>
    BY <1>3, <1>6 DEF AcceptDies, AcceptEnds, Phases, socketVars, listVars, Settled
  <2>2. Peaceful' /\ Phases'
    BY <1>1, <1>3, <1>6, <2>1 DEF Peaceful, Phases, Contains, AcceptDies, AcceptEnds
  <2>3. Heard' /\ Later' /\ Early'
    BY <1>1, <1>3, <2>1 DEF Heard, Later, Early, First, Settled, Contains
  <2>4. TakesUp'
    BY <1>1, <1>3, <2>1 DEF TakesUp
  <2> QED
    BY <2>2, <2>3, <2>4 DEF Turn
<1>7. ASSUME UNCHANGED <<peer, recv_sockets_, disconnected_sockets_, accepted, fds, ready, backlog>>,
             spc \in {"recv", "send"}, spc' \in {"recv", "send", "idle"}, TakesUp'
      PROVE  Turn'
  <2>1. mpc = "served"
    BY <1>3, <1>7 DEF Phases
  <2>2. Peaceful' /\ Phases'
    BY <1>1, <1>3, <1>7, <2>1 DEF Peaceful, Phases, Contains
  <2>3. Heard' /\ Early' /\ Later'
    BY <1>1, <1>3, <1>7, <2>1 DEF Heard, Early, Later, First, IsNext, Settled, Contains
  <2> QED
    BY <1>7, <2>2, <2>3 DEF Turn
<1>8. Len(recv_sockets_) \in Nat /\ (spc \in {"recv", "send"} => at \in Nat)
  BY DEF ProgramInv, ServerInv, Place, Lists, Once
<1>9. CASE RecvNext
  <2> DEFINE c == Current
  <2>1. /\ spc = "recv" /\ spc' = "send" /\ mpc = "served"
        /\ UNCHANGED <<at, peer, listVars, ready, backlog>>
        /\ Receive(c)
    BY <1>3, <1>9 DEF RecvNext, Receive, Phases
  <2>2. at \in 1 .. Len(recv_sockets_) /\ c \in Conn
    <3>1. at \in 1 .. Len(recv_sockets_) + 1 /\ at <= Len(recv_sockets_)
      BY <1>9, <2>1 DEF ProgramInv, ServerInv, Place, RecvNext
    <3>2. at \in 1 .. Len(recv_sockets_)
      BY ONLY <1>8, <3>1
    <3> QED
      BY <1>2, <3>2 DEF Lists, Once, Current
  <2>3. inq'[c] = 0 /\ \A d \in Conn : inq'[d] = inq[d] \/ inq'[d] = 0
    BY <1>2, <1>3, <2>1, <2>2 DEF Receive, Peaceful, SocketTypeOK
  <2>4. ASSUME NEW k \in 1 .. Len(recv_sockets_), k < at \/ k = at PROVE inq'[recv_sockets_[k]] = 0
    <3>1. recv_sockets_[k] \in Conn
      BY <1>2 DEF Lists, Once
    <3>2. CASE k < at
      BY <1>3, <2>1, <2>3, <3>1, <3>2 DEF TakesUp
    <3>3. CASE k = at
      BY <2>3, <3>3 DEF Current
    <3> QED
      BY <2>4, <3>2, <3>3
  <2>5. TakesUp'
    BY <1>1, <1>3, <2>1, <2>3, <2>4 DEF TakesUp, listVars
  <2> QED
    BY <1>7, <2>1, <2>5 DEF listVars
<1>10. CASE SendLoop
  <2>1. spc = "send" /\ UNCHANGED <<spc, at, peer, inq, listVars, ready, backlog>>
    BY <1>10 DEF SendLoop, SendTakes, SendFails
  <2>2. TakesUp'
    BY <1>1, <1>3, <2>1 DEF TakesUp, listVars
  <2> QED
    BY <1>7, <2>1, <2>2 DEF listVars
<1>11. CASE NextSocket
  <2>1. /\ spc = "send" /\ spc' = "recv" /\ at' = at + 1 /\ mpc = "served"
        /\ UNCHANGED <<peer, inq, listVars, ready, backlog>>
    BY <1>3, <1>11 DEF NextSocket, SendDone, Following, Phases
  <2>2. \A k \in 1 .. Len(recv_sockets_) : k < at + 1 => k < at \/ k = at
    BY <1>8, <2>1
  <2>3. TakesUp'
    BY <1>1, <1>3, <2>1, <2>2 DEF TakesUp, listVars
  <2> QED
    BY <1>7, <2>1, <2>3 DEF listVars
<1>12. CASE EndSendAndRecv
  <2>1. /\ spc = "recv" /\ spc' = "idle" /\ at > Len(recv_sockets_) /\ mpc = "served"
        /\ UNCHANGED <<peer, inq, listVars, ready, backlog>>
    BY <1>3, <1>12 DEF EndSendAndRecv, Phases, socketVars
  <2>2. \A k \in 1 .. Len(recv_sockets_) : k < at
    BY <1>8, <2>1
  <2>3. TakesUp'
    BY <1>1, <1>3, <2>1, <2>2 DEF TakesUp, listVars
  <2> QED
    BY <1>7, <2>1, <2>3 DEF listVars
<1> QED
  BY <1>1, <1>4, <1>5, <1>6, <1>9, <1>10, <1>11, <1>12 DEF Inside

(* The steps of main() itself.                                             *)
LEMMA GoOnTurn == ProgramInv /\ Turn /\ (AfterPoll \/ AfterServe) => Turn'
<1> SUFFICES ASSUME ProgramInv, Turn, AfterPoll \/ AfterServe PROVE Turn'
  OBVIOUS
<1>1. /\ mpc \in {"polled", "served"} /\ spc = "idle"
      /\ UNCHANGED <<link, peer, inq, spc, at, recv_sockets_, disconnected_sockets_, accepted, fds, ready, backlog>>
  BY DEF AfterPoll, AfterServe, serverVars, socketVars, listVars
<1>2. /\ Lists /\ itr \in 0 .. Rounds /\ Rounds \in Nat /\ Rounds > 0
      /\ i \in Nat /\ i > 0 /\ Len(Order) \in Nat /\ Len(Order) > 1
  BY ClientsFinite DEF ProgramInv, ServerInv, MainTypes
<1>3. \/ mpc = "polled" /\ itr = 0 /\ mpc' = "connect" /\ itr' = 0
      \/ mpc = "polled" /\ itr = 0 /\ mpc' = "recv" /\ itr' = 1 /\ i' = 1
      \/ mpc = "polled" /\ itr > 0 /\ mpc' = "serve" /\ itr' = itr /\ i' = i
      \/ mpc = "served" /\ mpc' = "recv" /\ itr' = itr /\ i < Len(Order) /\ i' = i + 1
      \/ mpc = "served" /\ mpc' = "recv" /\ itr' = itr + 1 /\ i' = 1 /\ ~(i < Len(Order))
      \/ mpc = "served" /\ mpc' = "done" /\ itr' = itr /\ ~(i < Len(Order))
  BY <1>2 DEF AfterPoll, AfterServe, NextTurn
<1>4. mpc = "served" => itr > 0 /\ \A c \in accepted : inq[c] = 0
  <2> SUFFICES ASSUME mpc = "served", NEW c \in accepted PROVE inq[c] = 0
    BY DEF Turn, Phases
  <2>1. Contains(recv_sockets_, c) /\ DOMAIN recv_sockets_ = 1 .. Len(recv_sockets_)
    BY <1>2 DEF Turn, Peaceful, Lists, Once
  <2> QED
    BY <1>1, <2>1 DEF Turn, TakesUp, Contains
<1>5. Peaceful'
  BY <1>1 DEF Turn, Peaceful, Contains
<1>6. Phases'
  BY <1>1, <1>2, <1>3, <1>4 DEF Turn, Phases
<1>7. Heard'
  BY <1>1 DEF Turn, Heard, Settled, Contains
<1>8. Early'
  <2>1. First' => itr = 0
    BY <1>2, <1>3, <1>4 DEF First
  <2>2. itr' = 0 => itr = 0
    BY <1>2, <1>3
  <2>3. First' => \A k \in 1 .. Len(ready) : ready[k] \in {Listener, Order[1]}
    BY <2>1 DEF Turn, Early
  <2> QED
    BY <1>1, <2>1, <2>2, <2>3 DEF Turn, Early
<1>9. Later'
  <2> SUFFICES ASSUME ~First' PROVE Later'
    BY DEF Later
  <2>1. ~First
    BY <1>1, <1>2, <1>3 DEF First
  <2>2. (\A c \in Conn : link[c] # "pending") /\ (Settled \/ IsNext)
    BY <1>1, <2>1 DEF Turn, Later
  <2>3. CASE Settled
    BY <1>1, <2>2, <2>3 DEF Later, Settled
  <2>4. CASE IsNext
    <3>1. itr = 1 /\ i = 1 /\ mpc \in {"polled", "served"} /\ ready # <<>> /\ ready[1] = Listener
      BY <1>1, <2>4 DEF IsNext
    <3>2. itr' = 1 /\ ((i' = 1 /\ mpc' = "serve") \/ (i' = 2 /\ mpc' = "recv"))
      BY <1>2, <1>3, <3>1
    <3> QED
      BY <1>1, <2>2, <3>1, <3>2 DEF Later, IsNext
  <2> QED
    BY <2>2, <2>3, <2>4
<1>10. TakesUp'
  BY <1>1, <1>2, <1>3, <1>4 DEF Turn, TakesUp, Phases, Lists
<1> QED
  BY <1>5, <1>6, <1>7, <1>8, <1>9, <1>10 DEF Turn

LEMMA ClientTurn ==
  ProgramInv /\ Turn /\ (ClientReceive \/ ClientSendTakes \/ ClientSendFails \/ ClientSent \/ MainServe) => Turn'
<1> SUFFICES ASSUME ProgramInv, Turn,
                    ClientReceive \/ ClientSendTakes \/ ClientSendFails \/ ClientSent \/ MainServe
             PROVE  Turn'
  OBVIOUS
<1>1. /\ mpc \in {"recv", "send", "serve"} /\ mpc' \in {"send", "poll", "served"} /\ UNCHANGED <<i, itr, link>>
      /\ (mpc = "serve" <=> mpc' = "served") /\ spc' = (IF mpc = "serve" THEN "recv" ELSE spc)
      /\ UNCHANGED <<peer, at, recv_sockets_, disconnected_sockets_, accepted, fds, backlog>>
      /\ ready' = ready \/ (mpc = "send" /\ ready' = Woken(Client))
  BY DEF ClientReceive, ClientSendTakes, ClientSendFails, ClientSent, MainServe, StartSendAndRecv,
         Arrive, serverVars, socketVars, listVars
<1>2. itr > 0 /\ itr \in Nat /\ spc \notin {"down", "accept", "exit", "recv", "send"} /\ Lists
  <2>1. itr > 0 /\ spc \notin {"down", "accept", "exit", "recv", "send"}
    BY <1>1 DEF Turn, Phases
  <2>2. itr \in Nat /\ Lists
    BY DEF ProgramInv, MainTypes, ServerInv
  <2> QED
    BY <2>1, <2>2
<1>3. mpc' = "served" => at = 1 /\ spc' = "recv"
  BY <1>1, <1>2 DEF ProgramInv, ServerInv, Place
<1>4. Peaceful'
  BY <1>1 DEF Turn, Peaceful, Contains
<1>5. /\ \A y : Contains(ready, y) => Contains(ready', y)
      /\ ready # <<>> => ready' # <<>> /\ ready'[1] = ready[1]
      /\ First => \A k \in 1 .. Len(ready') : ready'[k] \in {Listener, Order[1]}
  <2>1. First => \A k \in 1 .. Len(ready) : ready[k] \in {Listener, Order[1]}
    BY DEF Turn, Early
  <2>2. CASE ready' = ready
    BY <2>1, <2>2
  <2>3. CASE mpc = "send" /\ ready' = Woken(Client) /\ Client \in interest
    <3>1. /\ \A y : Contains(ready, y) => Contains(ready', y)
          /\ ready # <<>> => ready' # <<>> /\ ready'[1] = ready[1]
          /\ \A R : Client \in R /\ (\A k \in 1 .. Len(ready) : ready[k] \in R)
                      => \A k \in 1 .. Len(ready') : ready'[k] \in R
      BY <1>2, <2>3, WokenLast
    <3>2. First => Client \in {Listener, Order[1]}
      BY <1>2 DEF First, Client
    <3> QED
      BY <2>1, <3>1, <3>2
  <2>4. CASE ready' = Woken(Client) /\ Client \notin interest
    BY <2>2, <2>4 DEF Woken
  <2> QED
    BY <1>1, <2>2, <2>3, <2>4
<1>6. Phases'
  BY <1>1, <1>2 DEF Phases
<1>7. Heard'
  BY <1>1, <1>2, <1>5 DEF Turn, Heard, Settled
<1>8. First' <=> First
  BY <1>1, <1>2 DEF First
<1>9. Early'
  BY <1>1, <1>2, <1>5, <1>8 DEF Early
<1>10. Later'
  BY <1>1, <1>2, <1>5, <1>8 DEF Turn, Later, IsNext, Settled
<1>11. TakesUp'
  <2>1. \A k \in 1 .. Len(recv_sockets_) : ~(k < 1)
    OBVIOUS
  <2> QED
    BY <1>1, <1>2, <1>3, <2>1 DEF TakesUp
<1> QED
  BY <1>4, <1>6, <1>7, <1>9, <1>10, <1>11 DEF Turn

LEMMA TurnStart == Init => TurnInv
BY DEF Init, ServerInit, SocketInit, TurnInv, Turn, Peaceful, Phases, Heard, Early, Later, First, Settled,
       TakesUp, Contains

LEMMA TurnInvStep == ProgramInv /\ TurnInv /\ [Next]_vars => TurnInv'
<1> SUFFICES ASSUME ProgramInv, TurnInv, [Next]_vars, mpc' # "none" PROVE Turn'
  BY DEF TurnInv
<1>0. ASSUME mpc # "none", UNCHANGED <<mpc, i, itr, link, peer, inq, spc, at, recv_sockets_,
               disconnected_sockets_, accepted, fds, ready, backlog>>
      PROVE  Turn'
  <2>1. Peaceful'
    BY <1>0 DEF TurnInv, Turn, Peaceful, Contains
  <2>2. Phases' /\ TakesUp'
    BY <1>0 DEF TurnInv, Turn, Phases, TakesUp
  <2>3. Heard' /\ Early' /\ Later'
    BY <1>0 DEF TurnInv, Turn, Heard, Early, Later, First, IsNext, Settled, Contains
  <2> QED
    BY <2>1, <2>2, <2>3 DEF Turn
<1>1. CASE main
  <2>1. mpc # "none"
    BY <1>1 DEF main, MainListen, ClientConnect, MainPoll, ServerCall, InCall, AfterPoll, ClientReceive,
         ClientSendTakes, ClientSendFails, ClientSent, MainServe, AfterServe
  <2> QED
    BY <1>1, <2>1, ListenTurn, ConnectTurn, PollTurn, CallTurn, GoOnTurn, ClientTurn DEF TurnInv, main
<1>2. CASE Network
  <2>1. CASE Room /\ UNCHANGED mainVars
    BY <1>0, <1>2, <2>1 DEF Network, Room, Drain, mainVars, listVars
  <2> QED
    BY <1>2, <2>1, SettleTurn DEF Network, TurnInv
<1>3. CASE Served(ServerStep)
  BY <1>3 DEF Served, mainVars
<1>4. CASE UNCHANGED vars
  BY <1>0, <1>4 DEF vars, mainVars, serverVars, socketVars, listVars
<1> QED
  BY <1>1, <1>2, <1>3, <1>4 DEF Next

(* When main() goes on to the next client, each request on an accepted     *)
(* connection has been taken up, and each connection made is accepted if   *)
(* there was a descriptor for it, although poll() reports one event and    *)
(* the listener's edge is not repeated: only one that was pending at the   *)
(* poll() behind its connect() may wait, until the second poll() of the    *)
(* first round, and its event is not lost.                                 *)
THEOREM NobodyLeftWaiting == Spec => []NobodyWaits
<1>1. ProgramInv /\ TurnInv => NobodyWaits
  <2> SUFFICES ASSUME ProgramInv, Turn, mpc \in {"connect", "recv", "done"}, NEW c \in Conn, link[c] = "made"
               PROVE  IF c \in accepted THEN inq[c] = 0
                      ELSE \/ fds = 0
                           \/ (itr = 0 \/ (itr = 1 /\ i <= 2)) /\ Contains(ready, Listener)
    BY DEF TurnInv, NobodyWaits
  <2>1. CASE c \in accepted
    BY <2>1 DEF Turn, Phases, TakesUp
  <2>2. CASE c \notin accepted
    <3>1. Contains(backlog, c)
      BY <2>2 DEF Turn, Peaceful
    <3>2. backlog # <<>>
      BY <3>1 DEF Contains
    <3>3. fds = 0 \/ Contains(ready, Listener)
      BY <3>2 DEF Turn, Phases, Heard, Settled
    <3>4. fds = 0 \/ First \/ (itr = 1 /\ i = 2)
      BY <3>2 DEF Turn, Phases, Later, IsNext, Settled
    <3> QED
      BY <2>2, <3>3, <3>4 DEF First
  <2> QED
    BY <2>1, <2>2
<1>2. Spec => []TurnInv
  BY ProgramInvariant, TurnStart, TurnInvStep, PTL DEF Spec
<1> QED
  BY <1>1, <1>2, ProgramInvariant, PTL

=============================================================================

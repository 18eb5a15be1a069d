------------------------- MODULE SocketPrograms_proof -------------------------
(***************************************************************************)
(* Proofs about createSocket() and the programs that receive datagrams:    *)
(* for every number of addresses, and every size of the buffers, the       *)
(* datagrams and the queue.                                                *)
(***************************************************************************)
EXTENDS SocketPrograms, SequenceTheorems, FiniteSetTheorems, Lemmas

USE MaxAddrsAssumption, UdpAssumption

-----------------------------------------------------------------------------
(* The order of createSocket()'s calls. *)

LEMMA OrderIs ==
  /\ Len(Order) = 9 /\ DOMAIN Order = 1 .. 9
  /\ Order[1] = "setNonBlocking" /\ Order[2] = "setNoDelay" /\ Order[3] = "connect"
  /\ Order[4] = "SO_REUSEADDR" /\ Order[5] = "bind" /\ Order[6] = "listen"
  /\ Order[7] = "setMcastTTL" /\ Order[8] = "setTTL" /\ Order[9] = "setSOTimestamp"
BY DEF Order

LEMMA OrderCalls ==
  /\ \A j \in 1 .. 9 : Order[j] \in Call
  /\ \A j, k \in 1 .. 9 : Order[j] = Order[k] => j = k
  /\ \A c \in Call : \E j \in 1 .. 9 : Order[j] = c
<1>1. \A j \in 1 .. 9 : j = 1 \/ j = 2 \/ j = 3 \/ j = 4 \/ j = 5 \/ j = 6 \/ j = 7 \/ j = 8 \/ j = 9
  OBVIOUS
<1>2. \A j \in 1 .. 9 : Order[j] \in Call
  BY <1>1, OrderIs DEF Call
<1>3. \A j, k \in 1 .. 9 : Order[j] = Order[k] => j = k
  BY <1>1, OrderIs
<1>4. \A c \in Call : \E j \in 1 .. 9 : Order[j] = c
  <2>1. \A j \in {1, 2, 3, 4, 5, 6, 7, 8, 9} : j \in 1 .. 9
    OBVIOUS
  <2> QED
    BY <2>1, OrderIs DEF Call
<1> QED
  BY <1>2, <1>3, <1>4

(* The places of those that the arguments ask for. *)
Asked == {j \in 1 .. 9 : Needed(Order[j])}

LEMMA AfterIs ==
  ASSUME NEW k \in 0 .. 9
  PROVE  /\ After(k) \in k + 1 .. 10
         /\ After(k) \in 1 .. 9 => After(k) \in Asked
         /\ \A j \in k + 1 .. After(k) - 1 : j \notin Asked
<1> DEFINE T == {j \in k + 1 .. 10 : j \in 1 .. 9 => Needed(Order[j])}
<1>1. After(k) = Min(T)
  <2>1. k + 1 .. Len(Order) + 1 = k + 1 .. 10 /\ DOMAIN Order = 1 .. 9
    BY OrderIs
  <2> QED
    BY <2>1 DEF After
<1>2. T \in SUBSET Nat /\ T # {}
  <2>1. 10 \in k + 1 .. 10 /\ ~(10 \in 1 .. 9)
    OBVIOUS
  <2>2. 10 \in T
    BY <2>1
  <2> QED
    BY <2>2
<1>3. Min(T) \in T /\ \A y \in T : Min(T) <= y
  <2>1. \E x \in T : \A y \in T : x <= y
    <3> HIDE DEF T
    <3> QED
      BY <1>2, LeastNatural
  <2> HIDE DEF T
  <2> QED
    BY <2>1 DEF Min
<1>4. \A j \in k + 1 .. Min(T) - 1 : j \in 1 .. 9 /\ j \in k + 1 .. 10 /\ ~(Min(T) <= j)
  <2>1. Min(T) \in k + 1 .. 10
    BY <1>3
  <2> HIDE DEF T
  <2> QED
    BY <2>1
<1> QED
  BY <1>1, <1>3, <1>4 DEF Asked

-----------------------------------------------------------------------------
(* Before its call number m a descriptor has had those of the first m - 1  *)
(* calls that the arguments ask for, and no others, in their order.        *)
Prepared(N, s, m) ==
  /\ \A a \in 1 .. Len(s) : \E j \in 1 .. 9 :
       j < m /\ s[a] = Order[j] /\ j \in N /\ ~NoSuchLevel(Order[j])
  /\ \A j \in 1 .. 9 : j < m /\ j \in N => \E a \in 1 .. Len(s) : s[a] = Order[j]
  /\ \A a, b \in 1 .. Len(s) : \A j, k \in 1 .. 9 :
       s[a] = Order[j] /\ s[b] = Order[k] /\ j < k => a < b

(* The descriptors are numbered as they are made. *)
Opened(n) ==
  /\ open = 1 .. n
  /\ \A d \in 1 .. MaxAddrs : d > n => calls[d] = <<>>
  /\ cpc = "getaddrinfo" => n = 0 /\ step = 0
  /\ cpc = "loop" /\ step = 0 =>
       /\ n + left <= MaxAddrs
       /\ left = 0 => n > 0
       /\ n > 0 => fd = n /\ Prepared(Asked, calls[n], 10)
  /\ cpc = "loop" /\ step > 0 =>
       /\ n + left <= MaxAddrs + 1 /\ left > 0 /\ n > 0
       /\ fd = n /\ Prepared(Asked, calls[n], step)
       /\ step \in 1 .. 9 => step \in Asked

(* Each one that is open has got as far as some place of the order. *)
Begun == \A d \in open : \E m \in 1 .. 10 : Prepared(Asked, calls[d], m)

(* All but result. *)
Fields ==
  /\ arg \in Args
  /\ cpc \in {"getaddrinfo", "loop", "returned"}
  /\ left \in 0 .. MaxAddrs
  /\ step \in 0 .. 10
  /\ fd \in -1 .. MaxAddrs /\ ret \in -1 .. MaxAddrs
  /\ open \subseteq 1 .. MaxAddrs
  /\ calls \in [1 .. MaxAddrs -> Seq(Call)]
  /\ connected \in [1 .. MaxAddrs -> {"no", "yes", "pending", "failed"}]

CreateInv ==
  /\ Fields
  /\ result \in BOOLEAN
  /\ Begun
  /\ \E n \in 0 .. MaxAddrs : Opened(n)
  /\ cpc = "returned" /\ ret # -1 => ret \in open /\ Prepared(Asked, calls[ret], 10)

LEMMA PreparedFirst ==
  ASSUME NEW s, s = <<>> PROVE Prepared(Asked, s, After(0))
<1>1. \A a \in 1 .. Len(s) : FALSE
  BY EmptyLen
<1>2. \A j \in 1 .. 9 : j < After(0) => j \notin Asked
  <2>1. After(0) \in 1 .. 10 /\ \A j \in 1 .. After(0) - 1 : j \notin Asked
    <3>1. 0 \in 0 .. 9 /\ 0 + 1 = 1
      OBVIOUS
    <3> QED
      BY <3>1, AfterIs
  <2>2. \A j \in 1 .. 9 : j < After(0) => j \in 1 .. After(0) - 1
    BY <2>1
  <2> QED
    BY <2>1, <2>2
<1> QED
  BY <1>1, <1>2 DEF Prepared

LEMMA PreparedMore ==
  ASSUME NEW s \in Seq(Call), NEW m \in 1 .. 9, Prepared(Asked, s, m),
         m \in Asked, ~NoSuchLevel(Order[m])
  PROVE  Prepared(Asked, Append(s, Order[m]), After(m))
<1> DEFINE t == Append(s, Order[m])
           x == Order[m]
           N == Asked
<1>1. /\ Len(s) \in Nat /\ Len(t) = Len(s) + 1
      /\ \A a \in 1 .. Len(s) : t[a] = s[a]
      /\ t[Len(s) + 1] = x
  BY OrderCalls, AppendProperties
<1> HIDE DEF t, x, N
<1>2. \A a \in 1 .. Len(t) : a = Len(s) + 1 \/ a \in 1 .. Len(s)
  BY <1>1
<1>3. /\ After(m) \in m + 1 .. 10
      /\ \A j \in m + 1 .. After(m) - 1 : j \notin N
  <2>1. m \in 0 .. 9
    OBVIOUS
  <2> QED
    BY <2>1, AfterIs DEF N
<1>4. PICK next \in m + 1 .. 10 : next = After(m)
  BY <1>3
<1>5. /\ \A j \in 1 .. 9 : j < m => j < next
      /\ \A j \in 1 .. 9 : j < next => j < m \/ j = m \/ j \in m + 1 .. next - 1
      /\ m < next
  OBVIOUS
<1>0. /\ \A a \in 1 .. Len(s) : \E j \in 1 .. 9 :
           j < m /\ s[a] = Order[j] /\ j \in N /\ ~NoSuchLevel(Order[j])
      /\ \A j \in 1 .. 9 : j < m /\ j \in N => \E a \in 1 .. Len(s) : s[a] = Order[j]
      /\ \A a, b \in 1 .. Len(s) : \A j, k \in 1 .. 9 :
           s[a] = Order[j] /\ s[b] = Order[k] /\ j < k => a < b
  BY DEF Prepared, N
<1>6. m < next /\ 1 .. Len(s) \subseteq 1 .. Len(t) /\ Len(s) + 1 \in 1 .. Len(t)
  BY <1>1, <1>5
<1>7. ASSUME NEW a \in 1 .. Len(t)
      PROVE  \E j \in 1 .. 9 : j < next /\ t[a] = Order[j] /\ j \in N /\ ~NoSuchLevel(Order[j])
  <2>1. CASE a = Len(s) + 1
    BY <1>1, <1>5, <1>6, <2>1 DEF x, N
  <2>2. CASE a \in 1 .. Len(s)
    <3>1. PICK j \in 1 .. 9 : j < m /\ s[a] = Order[j] /\ j \in N /\ ~NoSuchLevel(Order[j])
      BY <1>0, <2>2
    <3>2. t[a] = s[a] /\ j < next
      BY <1>1, <1>5, <2>2, <3>1
    <3> QED
      BY <3>1, <3>2
  <2> QED
    BY <1>2, <2>1, <2>2
<1>8. ASSUME NEW j \in 1 .. 9, j < next, j \in N
      PROVE  \E a \in 1 .. Len(t) : t[a] = Order[j]
  <2>1. CASE j = m
    BY <1>1, <1>5, <1>6, <2>1 DEF x, N
  <2>2. CASE j < m
    <3>1. PICK a \in 1 .. Len(s) : s[a] = Order[j]
      BY <1>0, <1>8, <2>2
    <3> QED
      BY <1>1, <1>6, <3>1
  <2> QED
    BY <1>3, <1>4, <1>5, <1>8, <2>1, <2>2
<1>9. ASSUME NEW a \in 1 .. Len(t), NEW b \in 1 .. Len(t), NEW j \in 1 .. 9, NEW k \in 1 .. 9,
             t[a] = Order[j], t[b] = Order[k], j < k
      PROVE  a < b
  <2>1. \A e \in 1 .. Len(s), l \in 1 .. 9 : t[e] = Order[l] => l < m
    <3> SUFFICES ASSUME NEW e \in 1 .. Len(s), NEW l \in 1 .. 9, t[e] = Order[l] PROVE l < m
      OBVIOUS
    <3>1. PICK j0 \in 1 .. 9 : j0 < m /\ s[e] = Order[j0]
      BY <1>0
    <3> QED
      BY <1>1, <3>1, OrderCalls
  <2>2. \A l \in 1 .. 9 : t[Len(s) + 1] = Order[l] => l = m
    BY <1>1, OrderCalls DEF x
  <2>3. CASE a \in 1 .. Len(s) /\ b \in 1 .. Len(s)
    <3>1. s[a] = Order[j] /\ s[b] = Order[k]
      BY <1>1, <1>9, <2>3
    <3> QED
      BY <1>0, <1>9, <2>3, <3>1
  <2>4. CASE a \in 1 .. Len(s) /\ b = Len(s) + 1
    BY <1>1, <2>4
  <2>5. CASE a = Len(s) + 1
    <3>1. j = m
      BY <1>9, <2>2, <2>5
    <3>2. k < m \/ k = m
      BY <1>2, <1>9, <2>1, <2>2
    <3> QED
      BY <1>9, <3>1, <3>2
  <2> QED
    BY <1>2, <2>3, <2>4, <2>5
<1> QED
  BY <1>4, <1>7, <1>8, <1>9 DEF Prepared, t, x, N

LEMMA CreateStart == CreateInit => CreateInv
<1> SUFFICES ASSUME CreateInit PROVE CreateInv
  OBVIOUS
<1> USE DEF CreateInit
<1>0. result \in BOOLEAN
  BY ONLY CreateInit, Zenon DEF CreateInit
<1>1. Fields
  BY DEF Fields
<1>2. Opened(0)
  BY DEF Opened
<1>3. Begun
  BY DEF Begun
<1> QED
  BY <1>0, <1>1, <1>2, <1>3 DEF CreateInv

(* A return of -1 leaves everything as it is. *)
LEMMA FailStep == CreateInv /\ Fail => CreateInv'
<1> SUFFICES ASSUME CreateInv, Fail PROVE CreateInv'
  OBVIOUS
<1>0. result' \in BOOLEAN
  BY ONLY CreateInv, Fail, Zenon DEF CreateInv, Fail
<1>1. Fields'
  BY DEF CreateInv, Fields, Fail
<1>2. PICK n \in 0 .. MaxAddrs : Opened(n)
  BY DEF CreateInv
<1>3. Opened(n)'
  BY <1>2 DEF Opened, Fail
<1>4. Begun'
  <2>1. UNCHANGED <<arg, open, calls>>
    BY DEF Fail
  <2>2. Asked' = Asked
    BY <2>1 DEF Asked, Needed, IsMulticast
  <2> QED
    BY <2>1, <2>2 DEF CreateInv, Begun
<1> QED
  BY <1>0, <1>1, <1>3, <1>4 DEF CreateInv, Fail

LEMMA CreateStep == CreateInv /\ CreateNext => CreateInv'
<1> SUFFICES ASSUME CreateInv, CreateNext PROVE CreateInv'
  OBVIOUS
<1>1. Fields
  BY DEF CreateInv
<1>2. PICK n \in 0 .. MaxAddrs : Opened(n)
  BY DEF CreateInv
<1>3. arg' = arg /\ Asked' = Asked
  <2>1. arg' = arg
    BY DEF CreateNext, GetAddrInfo, Fail, Socket, Connect, Configure, Done, NextAddress, Return
  <2> QED
    BY <2>1 DEF Asked, Needed, IsMulticast
<1>0. result' \in BOOLEAN
  BY ONLY CreateInv, CreateNext, Zenon
     DEF CreateInv, CreateNext, GetAddrInfo, Fail, Socket, Connect, Configure, Done, NextAddress, Return
<1>12. UNCHANGED <<open, calls>> => Begun'
  BY <1>3 DEF CreateInv, Begun
<1>4. CASE Fail
  BY <1>4, FailStep
<1>5. CASE GetAddrInfo /\ ~Fail
  <2>1. /\ cpc = "getaddrinfo" /\ cpc' = "loop" /\ left' \in 1 .. MaxAddrs /\ result' = TRUE
        /\ UNCHANGED <<arg, step, fd, ret, open, calls, connected>>
    BY <1>5 DEF GetAddrInfo
  <2>2. Fields'
    BY <1>1, <2>1 DEF Fields
  <2>3. Opened(n)'
    BY <1>2, <2>1 DEF Opened
  <2> QED
    BY <1>0, <1>12, <2>1, <2>2, <2>3 DEF CreateInv
<1>6. CASE Socket
  <2>1. cpc = "loop" /\ left > 0 /\ step = 0
    BY <1>6 DEF Socket
  <2>2. open = 1 .. n /\ n + left <= MaxAddrs /\ left \in 0 .. MaxAddrs
    BY <1>1, <1>2, <2>1 DEF Opened, Fields
  <2>3. CASE cpc' = "returned"
    <3>1. fd' = -1 /\ ret' = -1 /\ UNCHANGED <<arg, left, step, open, calls, connected, result>>
      BY <1>6, <2>1, <2>3 DEF Socket
    <3>2. Fields'
      BY <1>1, <2>3, <3>1 DEF Fields
    <3>3. Opened(n)'
      BY <1>2, <2>3, <3>1 DEF Opened
    <3> QED
      BY <1>0, <1>12, <2>3, <3>1, <3>2, <3>3 DEF CreateInv
  <2>4. CASE cpc' # "returned"
    <3>1. Cardinality(open) + 1 = n + 1
      <4>1. IsFiniteSet(1 .. n) /\ Cardinality(1 .. n) = IF 1 > n THEN 0 ELSE n - 1 + 1
        <5>1. 1 \in Int /\ n \in Int
          OBVIOUS
        <5> QED
          BY ONLY <5>1, FS_Interval, Zenon
      <4>2. Cardinality(1 .. n) = n
        BY <4>1
      <4> QED
        BY <2>2, <4>2
    <3>2. /\ fd' = n + 1 /\ open' = open \cup {n + 1} /\ step' = After(0)
          /\ UNCHANGED <<arg, cpc, left, ret, calls, connected, result>>
      BY <1>6, <2>4, <3>1 DEF Socket
    <3>3. n + 1 \in 1 .. MaxAddrs /\ open' = 1 .. n + 1 /\ n + 1 + left <= MaxAddrs + 1
      <4>1. n + 1 \in 1 .. MaxAddrs /\ n + 1 + left <= MaxAddrs + 1
        BY ONLY <2>1, <2>2, n \in 0 .. MaxAddrs, MaxAddrsAssumption
      <4>2. open' = 1 .. n + 1
        BY <2>2, <3>2
      <4> QED
        BY <4>1, <4>2
    <3>4. After(0) \in 1 .. 10 /\ (After(0) \in 1 .. 9 => After(0) \in Asked)
      <4>1. 0 \in 0 .. 9 /\ 0 + 1 = 1
        OBVIOUS
      <4> QED
        BY <4>1, AfterIs
    <3>5. calls[n + 1] = <<>> /\ \A d \in 1 .. MaxAddrs : d > n + 1 => calls[d] = <<>>
      BY <1>2, <3>3 DEF Opened
    <3>6. Prepared(Asked, calls[n + 1], After(0))
      BY <3>5, PreparedFirst
    <3>7. Fields'
      <4>1. open' \subseteq 1 .. MaxAddrs /\ fd' \in -1 .. MaxAddrs /\ step' \in 0 .. 10
        <5>1. open' \subseteq 1 .. MaxAddrs
          BY ONLY <3>3, MaxAddrsAssumption
        <5>2. fd' \in -1 .. MaxAddrs
          BY ONLY <3>2, <3>3, MaxAddrsAssumption
        <5>3. step' \in 0 .. 10
          BY ONLY <3>2, <3>4
        <5> QED
          BY <5>1, <5>2, <5>3
      <4> QED
        BY <1>1, <3>2, <4>1 DEF Fields
    <3>8. Opened(n + 1)'
      <4>1. step' > 0 /\ step' # 0 /\ n + 1 > 0
        BY <3>2, <3>4
      <4> QED
        BY <1>3, <2>1, <3>2, <3>3, <3>4, <3>5, <3>6, <4>1 DEF Opened
    <3>9. Begun'
      <4>1. \A d \in open : \E m \in 1 .. 10 : Prepared(Asked, calls[d], m)
        BY DEF CreateInv, Begun
      <4>2. \E m \in 1 .. 10 : Prepared(Asked, calls[n + 1], m)
        BY <3>4, <3>6
      <4>3. \A d \in open' : \E m \in 1 .. 10 : Prepared(Asked, calls[d], m)
        BY ONLY <3>2, <4>1, <4>2
      <4> QED
        BY ONLY <1>3, <3>2, <4>3, Zenon DEF Begun
    <3> QED
      BY <1>0, <2>1, <3>2, <3>3, <3>7, <3>8, <3>9 DEF CreateInv
  <2> QED
    BY <2>3, <2>4
<1>7. CASE \E c \in Call : /\ cpc = "loop" /\ step \in 1 .. 9 /\ c = Order[step] /\ ~NoSuchLevel(c)
                           /\ Done(c)
                           /\ connected' \in [1 .. MaxAddrs -> {"no", "yes", "pending", "failed"}]
  <2>1. /\ cpc = "loop" /\ step \in 1 .. 9 /\ ~NoSuchLevel(Order[step]) /\ Order[step] \in Call
        /\ calls' = [calls EXCEPT ![fd] = Append(calls[fd], Order[step])] /\ step' = After(step)
        /\ UNCHANGED <<arg, cpc, left, fd, ret, open, result>>
    <3>1. fd \in 1 .. MaxAddrs
      BY <1>2, <1>7 DEF Opened
    <3> QED
      BY <1>1, <1>7, <3>1 DEF Done, NextStep, Fields
  <2>2. /\ fd = n /\ n \in 1 .. MaxAddrs /\ step \in Asked /\ Prepared(Asked, calls[n], step)
        /\ n + left <= MaxAddrs + 1 /\ left > 0
    BY <1>2, <2>1 DEF Opened
  <2>3. calls[n] \in Seq(Call)
    BY <1>1, <2>2 DEF Fields
  <2>4. After(step) \in step + 1 .. 10 /\ (After(step) \in 1 .. 9 => After(step) \in Asked)
    <3>1. step \in 0 .. 9
      BY <2>1
    <3> QED
      BY <3>1, AfterIs
  <2>5. Prepared(Asked, Append(calls[n], Order[step]), After(step))
    BY <2>1, <2>2, <2>3, PreparedMore
  <2>6. Append(calls[n], Order[step]) \in Seq(Call)
    BY <2>1, <2>3
  <2>7. /\ calls' \in [1 .. MaxAddrs -> Seq(Call)] /\ calls'[n] = Append(calls[n], Order[step])
        /\ \A d \in 1 .. MaxAddrs : d # n => calls'[d] = calls[d]
    BY <1>1, <2>1, <2>2, <2>6 DEF Fields
  <2>8. step' \in 0 .. 10 /\ step' # 0 /\ step' > 0
    <3>1. step \in 1 .. 9 /\ step' = After(step)
      BY <2>1
    <3>2. After(step) \in step + 1 .. 10
      BY <2>4
    <3> QED
      BY ONLY <3>1, <3>2
  <2>9. Fields'
    BY <1>1, <1>7, <2>1, <2>7, <2>8 DEF Fields
  <2>10. Opened(n)'
    <3>1. open' = 1 .. n /\ \A d \in 1 .. MaxAddrs : d > n => calls'[d] = <<>>
      BY <1>2, <2>1, <2>2, <2>7 DEF Opened
    <3>2. Prepared(Asked, calls'[n], step')
      BY <2>1, <2>5, <2>7
    <3>3. step' \in 1 .. 9 => step' \in Asked
      BY <2>1, <2>4
    <3>4. cpc' = "loop" /\ left' = left /\ fd' = fd
      BY <2>1
    <3> QED
      BY <1>3, <2>2, <2>8, <3>1, <3>2, <3>3, <3>4 DEF Opened
  <2>11. Begun'
    <3>1. open' = open /\ open \subseteq 1 .. MaxAddrs
      BY <1>1, <2>1 DEF Fields
    <3>2. Prepared(Asked, calls'[n], step') /\ step' \in 1 .. 10
      BY <2>1, <2>5, <2>7, <2>8
    <3>3. \A d \in open : \E m \in 1 .. 10 : Prepared(Asked, calls[d], m)
      BY DEF CreateInv, Begun
    <3>4. ASSUME NEW d \in open PROVE \E m \in 1 .. 10 : Prepared(Asked, calls'[d], m)
      <4>1. CASE d = n
        BY ONLY <3>2, <4>1, Zenon
      <4>2. CASE d # n
        <5>1. calls'[d] = calls[d]
          BY ONLY <2>7, <3>1, <4>2, d \in open
        <5> QED
          BY ONLY <3>3, <5>1, d \in open, Zenon
      <4> QED
        BY <4>1, <4>2
    <3> QED
      BY ONLY <1>3, <3>1, <3>4, Zenon DEF Begun
  <2> QED
    BY <1>0, <2>1, <2>9, <2>10, <2>11 DEF CreateInv
<1>8. CASE Connect
  <2>1. /\ step \in 1 .. 9 /\ Order[step] = "connect" /\ Done("connect") /\ cpc = "loop"
        /\ connected' \in [1 .. MaxAddrs -> {"no", "yes", "pending", "failed"}]
    <3>1. \E how \in {"yes", "failed", "pending"} : connected' = [connected EXCEPT ![fd] = how]
      BY <1>8 DEF Connect
    <3>2. connected' \in [1 .. MaxAddrs -> {"no", "yes", "pending", "failed"}]
      BY <1>1, <3>1 DEF Fields
    <3>3. step \in DOMAIN Order /\ Order[step] = "connect" /\ Done("connect") /\ cpc = "loop"
      BY <1>8 DEF Connect
    <3> QED
      BY <3>2, <3>3, OrderIs
  <2> QED
    BY <1>7, <2>1 DEF NoSuchLevel, Call
<1>9. CASE Configure /\ ~Fail
  <2>1. /\ step \in 1 .. 9 /\ cpc = "loop" /\ ~NoSuchLevel(Order[step]) /\ Done(Order[step])
        /\ connected' = connected
    BY <1>9, OrderIs DEF Configure
  <2> QED
    BY <1>1, <1>7, <2>1, OrderCalls DEF Fields
<1>10. CASE NextAddress
  <2>1. /\ cpc = "loop" /\ left > 0 /\ step > 9 /\ left' = left - 1 /\ step' = 0
        /\ UNCHANGED <<arg, cpc, fd, ret, open, calls, connected, result>>
    BY <1>10, OrderIs DEF NextAddress
  <2>2. step = 10 /\ left \in 0 .. MaxAddrs
    BY <1>1, <2>1 DEF Fields
  <2>3. n + left <= MaxAddrs + 1 /\ n > 0 /\ fd = n /\ Prepared(Asked, calls[n], 10)
    BY <1>2, <2>1, <2>2 DEF Opened
  <2>4. left' \in 0 .. MaxAddrs /\ n + left' <= MaxAddrs
    BY ONLY <2>1, <2>2, <2>3, n \in 0 .. MaxAddrs, MaxAddrsAssumption
  <2>5. Fields'
    BY <1>1, <2>1, <2>4 DEF Fields
  <2>6. Opened(n)'
    BY <1>2, <1>3, <2>1, <2>3, <2>4 DEF Opened
  <2> QED
    BY <1>0, <1>12, <2>1, <2>5, <2>6 DEF CreateInv
<1>11. CASE Return
  <2>1. /\ cpc = "loop" /\ left = 0 /\ cpc' = "returned" /\ ret' = fd /\ result' = FALSE
        /\ UNCHANGED <<arg, left, step, fd, open, calls, connected>>
    BY <1>11 DEF Return
  <2>2. step = 0 /\ n > 0 /\ fd = n /\ Prepared(Asked, calls[n], 10)
    <3>1. step = 0
      <4>1. step \in 0 .. 10
        BY ONLY <1>1 DEF Fields
      <4>2. ~(step > 0)
        BY ONLY <1>2, <2>1 DEF Opened
      <4> QED
        BY ONLY <4>1, <4>2
    <3> QED
      BY <1>2, <2>1, <3>1 DEF Opened
  <2>3. Fields'
    BY <1>1, <2>1 DEF Fields
  <2>4. Opened(n)'
    BY <1>2, <2>1 DEF Opened
  <2>5. ret' \in open'
    BY <1>2, <2>1, <2>2 DEF Opened
  <2> QED
    BY <1>0, <1>3, <1>12, <2>1, <2>2, <2>3, <2>4, <2>5 DEF CreateInv
<1> QED
  BY <1>4, <1>5, <1>6, <1>8, <1>9, <1>10, <1>11 DEF CreateNext

-----------------------------------------------------------------------------
LEMMA WholeInv == Spec => []CreateInv
<1>1. Init => CreateInv
  BY CreateStart DEF Init
<1>2. CreateInv /\ [Next]_vars => CreateInv'
  <2> SUFFICES ASSUME CreateInv, [Next]_vars PROVE CreateInv'
    OBVIOUS
  <2>1. CASE createSocket
    BY <2>1, CreateStep DEF createSocket
  <2>2. CASE UNCHANGED createVars
    <3>1. UNCHANGED <<arg, cpc, left, step, fd, ret, open, calls, connected>>
      BY ONLY <2>2, Zenon DEF createVars
    <3>2. result' \in BOOLEAN
      BY ONLY CreateInv, <2>2, Zenon DEF createVars, CreateInv
    <3>3. Asked' = Asked
      BY <3>1 DEF Asked, Needed, IsMulticast
    <3>4. Fields'
      BY <3>1 DEF CreateInv, Fields
    <3>5. PICK n \in 0 .. MaxAddrs : Opened(n)
      BY DEF CreateInv
    <3>6. Opened(n)'
      BY <3>1, <3>3, <3>5 DEF Opened
    <3>7. Begun'
      BY <3>1, <3>3 DEF CreateInv, Begun
    <3> QED
      BY <3>1, <3>2, <3>3, <3>4, <3>6, <3>7 DEF CreateInv
  <2> QED
    BY <2>1, <2>2 DEF Next, UDP_sockets, vars
<1> QED
  BY <1>1, <1>2, PTL DEF Spec

(* The arguments that ask for a call ask for the one that has to come      *)
(* before it.                                                              *)
LEMMA AskedToo ==
  /\ ~arg.is_blocking => 1 \in Asked
  /\ ~arg.is_blocking /\ ~arg.is_udp => 2 \in Asked
  /\ arg.is_listening => 4 \in Asked /\ 5 \in Asked
  /\ arg.is_listening /\ ~arg.is_udp => 6 \in Asked
  /\ arg.needs_so_timestamp => 9 \in Asked
  /\ 5 \in Asked \/ 6 \in Asked => arg.is_listening
<1>1. /\ ~arg.is_blocking => Needed("setNonBlocking")
      /\ ~arg.is_blocking /\ ~arg.is_udp => Needed("setNoDelay")
      /\ arg.is_listening => Needed("SO_REUSEADDR") /\ Needed("bind")
      /\ arg.is_listening /\ ~arg.is_udp => Needed("listen")
      /\ arg.needs_so_timestamp => Needed("setSOTimestamp")
      /\ Needed("bind") \/ Needed("listen") => arg.is_listening
  BY Zenon DEF Needed
<1>2. 1 \in 1 .. 9 /\ 2 \in 1 .. 9 /\ 4 \in 1 .. 9 /\ 5 \in 1 .. 9 /\ 6 \in 1 .. 9 /\ 9 \in 1 .. 9
  OBVIOUS
<1> QED
  BY ONLY <1>1, <1>2, OrderIs, Zenon DEF Asked

(* What was asked for and comes first in the order comes first. *)
LEMMA InOrder ==
  ASSUME NEW d, NEW m \in 1 .. 10, Prepared(Asked, calls[d], m),
         NEW j \in 1 .. 9, NEW k \in 1 .. 9, j < k, k \in Asked => j \in Asked
  PROVE  OnlyAfter(d, Order[j], Order[k])
<1> SUFFICES ASSUME NEW b \in 1 .. Len(calls[d]), calls[d][b] = Order[k]
             PROVE  \E a \in 1 .. Len(calls[d]) : a < b /\ calls[d][a] = Order[j]
  BY DEF OnlyAfter
<1>1. PICK l \in 1 .. 9 : l < m /\ calls[d][b] = Order[l] /\ l \in Asked
  BY Zenon DEF Prepared
<1>2. l = k
  BY <1>1, OrderCalls
<1>3. j < m /\ j \in Asked
  <2>1. k < m /\ k \in Asked
    BY ONLY <1>1, <1>2
  <2>2. \A a, b2, c \in 1 .. 10 : a < b2 /\ b2 < c => a < c
    OBVIOUS
  <2>3. j \in 1 .. 10 /\ k \in 1 .. 10
    BY ONLY j \in 1 .. 9, k \in 1 .. 9
  <2>4. j \in Asked
    BY <2>1
  <2> QED
    BY ONLY <2>1, <2>2, <2>3, <2>4, j < k, m \in 1 .. 10, Zenon
<1>4. PICK a \in 1 .. Len(calls[d]) : calls[d][a] = Order[j]
  BY <1>3, Zenon DEF Prepared
<1>5. a < b
  BY ONLY <1>4, Prepared(Asked, calls[d], m), b \in 1 .. Len(calls[d]), calls[d][b] = Order[k],
          j \in 1 .. 9, k \in 1 .. 9, j < k, Zenon
     DEF Prepared
<1> QED
  BY <1>4, <1>5

LEMMA DoneIsHad ==
  ASSUME NEW d, Prepared(Asked, calls[d], 10), NEW j \in Asked
  PROVE  Had(d, Order[j])
<1>1. j \in 1 .. 9 /\ j < 10
  BY DEF Asked
<1>2. \E a \in 1 .. Len(calls[d]) : calls[d][a] = Order[j]
  BY ONLY <1>1, j \in Asked, Prepared(Asked, calls[d], 10), Zenon DEF Prepared
<1> QED
  BY <1>2, Zenon DEF Had

(* No descriptor that createSocket() makes is connected, bound or told to  *)
(* listen before what has to come first, for any number of addresses; and  *)
(* one that it returns does what it was asked to.                          *)
THEOREM Prepares == Spec => []PreparedInTime
<1>1. CreateInv => PreparedInTime
  <2> SUFFICES ASSUME CreateInv, NEW d \in open
               PROVE  /\ ~arg.is_blocking => OnlyAfter(d, "setNonBlocking", "connect")
                      /\ ~arg.is_blocking /\ ~arg.is_udp => OnlyAfter(d, "setNoDelay", "connect")
                      /\ OnlyAfter(d, "SO_REUSEADDR", "bind") /\ OnlyAfter(d, "bind", "listen")
                      /\ cpc = "returned" /\ d = ret =>
                           /\ ~arg.is_blocking => Had(d, "setNonBlocking")
                           /\ ~arg.is_blocking /\ ~arg.is_udp => Had(d, "setNoDelay")
                           /\ arg.is_listening => Had(d, "bind")
                           /\ arg.is_listening /\ ~arg.is_udp => Had(d, "listen")
                           /\ arg.needs_so_timestamp => Had(d, "setSOTimestamp")
    BY Zenon DEF PreparedInTime
  <2>1. PICK m \in 1 .. 10 : Prepared(Asked, calls[d], m)
    BY DEF CreateInv, Begun
  <2>2. ASSUME NEW j \in 1 .. 9, NEW k \in 1 .. 9, j < k, k \in Asked => j \in Asked
        PROVE  OnlyAfter(d, Order[j], Order[k])
    BY ONLY <2>1, <2>2, InOrder, Zenon
  <2>3. /\ 1 \in 1 .. 9 /\ 2 \in 1 .. 9 /\ 3 \in 1 .. 9 /\ 4 \in 1 .. 9 /\ 5 \in 1 .. 9 /\ 6 \in 1 .. 9
        /\ 1 < 3 /\ 2 < 3 /\ 4 < 5 /\ 5 < 6
    OBVIOUS
  <2>4. ~arg.is_blocking => OnlyAfter(d, "setNonBlocking", "connect")
    BY ONLY <2>2, <2>3, AskedToo, OrderIs, Zenon
  <2>5. ~arg.is_blocking /\ ~arg.is_udp => OnlyAfter(d, "setNoDelay", "connect")
    BY ONLY <2>2, <2>3, AskedToo, OrderIs, Zenon
  <2>6. OnlyAfter(d, "SO_REUSEADDR", "bind") /\ OnlyAfter(d, "bind", "listen")
    BY ONLY <2>2, <2>3, AskedToo, OrderIs, Zenon
  <2>7. ASSUME cpc = "returned", d = ret
        PROVE  /\ ~arg.is_blocking => Had(d, "setNonBlocking")
               /\ ~arg.is_blocking /\ ~arg.is_udp => Had(d, "setNoDelay")
               /\ arg.is_listening => Had(d, "bind")
               /\ arg.is_listening /\ ~arg.is_udp => Had(d, "listen")
               /\ arg.needs_so_timestamp => Had(d, "setSOTimestamp")
    <3>1. ret # -1
      BY <2>7 DEF CreateInv, Fields
    <3>2. Prepared(Asked, calls[d], 10)
      BY <2>7, <3>1 DEF CreateInv
    <3>3. ASSUME NEW j \in Asked PROVE Had(d, Order[j])
      BY ONLY <3>2, j \in Asked, DoneIsHad, Zenon
    <3> QED
      BY ONLY <3>3, AskedToo, OrderIs, Zenon
  <2> QED
    BY ONLY <2>4, <2>5, <2>6, <2>7, Zenon
<1> QED
  BY <1>1, WholeInv, PTL


-----------------------------------------------------------------------------
(* What a datagram is, and what is kept of it. *)

LEMMA DatagramIs ==
  ASSUME NEW d \in Datagram
  PROVE  /\ d \in Seq(1 .. MaxSent) /\ Len(d) \in 0 .. MaxLen
         /\ \E k \in 1 .. MaxSent : d = [p \in 1 .. Len(d) |-> k]
<1>1. PICK len \in 0 .. MaxLen, k \in 1 .. MaxSent : d = [p \in 1 .. len |-> k]
  BY DEF Datagram
<1>2. len \in Nat
  BY UdpAssumption
<1>3. d \in Seq(1 .. MaxSent)
  BY <1>1, <1>2
<1>4. Len(d) = len
  BY <1>1, <1>2
<1> QED
  BY <1>1, <1>3, <1>4

LEMMA DatagramMade ==
  ASSUME NEW len \in 0 .. MaxLen, NEW k \in 1 .. MaxSent
  PROVE  [p \in 1 .. len |-> k] \in Datagram
BY DEF Datagram

LEMMA MinOfTwo ==
  ASSUME NEW a \in Int, NEW b \in Int
  PROVE  Min({a, b}) = IF a <= b THEN a ELSE b
BY DEF Min

Kept(d) == Min({Len(d), BufSize})

LEMMA KeptIs ==
  ASSUME NEW d \in Datagram
  PROVE  /\ Kept(d) \in 0 .. BufSize /\ Kept(d) <= Len(d)
         /\ Kept(d) = BufSize <=> Len(d) >= BufSize
         /\ SubSeq(d, 1, Kept(d)) \in Datagram
         /\ Len(SubSeq(d, 1, Kept(d))) = Kept(d)
         /\ \A p \in 1 .. Kept(d) : SubSeq(d, 1, Kept(d))[p] = d[p] /\ d[p] \in 1 .. MaxSent
         /\ R!Cut(d) = SubSeq(d, 1, Kept(d))
<1>1. d \in Seq(1 .. MaxSent) /\ Len(d) \in 0 .. MaxLen
  BY DatagramIs
<1>2. PICK k \in 1 .. MaxSent : d = [p \in 1 .. Len(d) |-> k]
  BY DatagramIs
<1>3. /\ Kept(d) \in 0 .. BufSize /\ Kept(d) <= Len(d) /\ Kept(d) \in 0 .. MaxLen
      /\ Kept(d) = BufSize <=> Len(d) >= BufSize
      /\ Len(d) > BufSize => Kept(d) = BufSize
      /\ ~(Len(d) > BufSize) => Kept(d) = Len(d)
  <2>1. Kept(d) = IF Len(d) <= BufSize THEN Len(d) ELSE BufSize
    <3>1. Len(d) \in Int /\ BufSize \in Int
      BY <1>1
    <3> QED
      BY ONLY <3>1, MinOfTwo, Zenon DEF Kept
  <2> QED
    BY <1>1, <2>1
<1> DEFINE n == Kept(d)
           s == SubSeq(d, 1, n)
<1>4. \A p \in 1 .. n : d[p] = k /\ p \in 1 .. Len(d)
  BY <1>1, <1>2, <1>3
<1> HIDE DEF n
<1>5. /\ s \in Seq(1 .. MaxSent) /\ Len(s) = n /\ \A p \in 1 .. n : s[p] = d[p]
  <2>1. n \in Int /\ 1 \in Int /\ \A p \in 1 .. n : d[p] \in 1 .. MaxSent
    BY <1>3, <1>4 DEF n
  <2>2. /\ s \in Seq(1 .. MaxSent) /\ Len(s) = (IF 1 <= n THEN n - 1 + 1 ELSE 0)
        /\ \A p \in 1 .. n - 1 + 1 : s[p] = d[1 + p - 1]
    BY ONLY <2>1, SubSeqProperties, SMTT(30)
  <2>3. n \in Nat /\ n - 1 + 1 = n /\ \A p \in 1 .. n : 1 + p - 1 = p
    BY <1>3 DEF n
  <2> QED
    BY <2>2, <2>3
<1>6. s = [p \in 1 .. n |-> k]
  <2>1. s \in [1 .. n -> 1 .. MaxSent]
    BY ONLY <1>5, LenProperties
  <2> QED
    BY <1>4, <1>5, <2>1
<1>7. s \in Datagram
  BY <1>3, <1>6, DatagramMade DEF n
<1>8. R!Cut(d) = s
  <2>1. SubSeq(d, 1, Len(d)) = d
    BY <1>1, SubSeqFull
  <2> QED
    BY <1>3, <2>1 DEF R!Cut, n
<1> QED
  BY <1>2, <1>3, <1>4, <1>5, <1>7, <1>8 DEF n

(* printf's %s over n bytes that are not the terminator. *)
LEMMA TextIs ==
  ASSUME NEW b \in [1 .. BufSize + 1 -> Junk .. MaxSent], NEW n \in 0 .. BufSize,
         \A p \in 1 .. n : b[p] # Nul
  PROVE  /\ Text(b) \in Seq(Junk .. MaxSent) /\ Len(Text(b)) >= n
         /\ \A p \in 1 .. Len(Text(b)) : Text(b)[p] = b[p]
         /\ b[n + 1] = Nul => Len(Text(b)) = n
<1> DEFINE ends == {p \in 1 .. BufSize + 1 : b[p] = Nul}
           end  == IF ends = {} THEN BufSize + 1 ELSE Min(ends) - 1
<1>1. /\ end \in n .. BufSize + 1
      /\ b[n + 1] = Nul => end = n
  <2>1. CASE ends = {}
    BY <2>1
  <2>2. CASE ends # {}
    <3>1. Min(ends) \in ends /\ \A y \in ends : Min(ends) <= y
      <4>1. \E x \in ends : \A y \in ends : x <= y
        <5>1. ends \in SUBSET Nat
          OBVIOUS
        <5> HIDE DEF ends
        <5> QED
          BY <2>2, <5>1, LeastNatural
      <4> HIDE DEF ends
      <4> QED
        BY <4>1 DEF Min
    <3>2. Min(ends) \in 1 .. BufSize + 1 /\ Min(ends) \notin 1 .. n
      BY <3>1
    <3>3. b[n + 1] = Nul => Min(ends) <= n + 1
      BY <3>1
    <3> HIDE DEF ends
    <3> QED
      BY <2>2, <3>2, <3>3
  <2> QED
    BY <2>1, <2>2
<1>2. Text(b) = [p \in 1 .. end |-> b[p]]
  BY Zenon DEF Text
<1> HIDE DEF end
<1>3. end \in Nat /\ \A p \in 1 .. end : b[p] \in Junk .. MaxSent
  BY <1>1
<1>4. Text(b) \in Seq(Junk .. MaxSent) /\ Len(Text(b)) = end
  BY ONLY <1>2, <1>3
<1> QED
  BY <1>1, <1>2, <1>3, <1>4

-----------------------------------------------------------------------------
(* Of the first n datagrams of s, number q is the last to reach place p.   *)
Latest(s, n, p, q) ==
  q \in 1 .. n /\ Len(s[q]) >= p /\ \A r \in q + 1 .. n : Len(s[r]) < p

(* x shows at each place the last of those n that reached it. *)
Overlaid(s, n, x) ==
  \A p \in 1 .. BufSize : \A q \in 1 .. n :
    Latest(s, n, p, q) => p <= Len(x) /\ x[p] = s[q][p]

LEMMA LatestExists ==
  ASSUME NEW s \in Seq(Datagram), NEW n \in 0 .. Len(s), NEW p \in Nat,
         NEW r \in 1 .. n, Len(s[r]) >= p
  PROVE  \E q \in 1 .. n : Latest(s, n, p, q)
<1> DEFINE T == {k \in 0 .. n - 1 : Len(s[n - k]) >= p}
<1>1. n \in Nat /\ \A k \in 1 .. n : Len(s[k]) \in Nat
  <2>1. Len(s) \in Nat /\ \A k \in 1 .. Len(s) : s[k] \in Datagram
    OBVIOUS
  <2>2. \A k \in 1 .. Len(s) : Len(s[k]) \in Nat
    BY <2>1, DatagramIs
  <2> QED
    BY <2>1, <2>2
<1>2. T \in SUBSET Nat /\ n - r \in T
  <2>1. n - r \in 0 .. n - 1 /\ n - (n - r) = r
    BY <1>1
  <2> QED
    BY <1>1, <2>1
<1>3. PICK k \in T : \A y \in T : k <= y
  <2> HIDE DEF T
  <2> QED
    BY <1>2, LeastNatural
<1>4. n - k \in 1 .. n /\ Len(s[n - k]) >= p
  BY <1>1, <1>3
<1>5. ASSUME NEW j \in n - k + 1 .. n PROVE Len(s[j]) < p
  <2>1. n - j \in 0 .. n - 1 /\ n - (n - j) = j /\ ~(k <= n - j) /\ j \in 1 .. n
    BY <1>1, <1>3
  <2>2. n - j \notin T
    BY <1>3, <2>1
  <2> QED
    BY <1>1, <2>1, <2>2
<1> QED
  BY <1>4, <1>5 DEF Latest

LEMMA LatestIsMax ==
  ASSUME NEW s \in Seq(Datagram), NEW n \in 0 .. Len(s), NEW p \in Nat,
         NEW q \in 1 .. n, Latest(s, n, p, q)
  PROVE  Max({r \in 1 .. n : Len(s[r]) >= p}) = q
<1> DEFINE T == {r \in 1 .. n : Len(s[r]) >= p}
<1>1. \A k \in 1 .. n : Len(s[k]) \in Nat
  <2>1. Len(s) \in Nat /\ \A k \in 1 .. Len(s) : s[k] \in Datagram
    OBVIOUS
  <2> QED
    BY <2>1, DatagramIs
<1>2. q \in T /\ T \subseteq Int /\ \A r \in T : q >= r
  <2>1. \A r \in 1 .. n : r \in q + 1 .. n \/ q >= r
    OBVIOUS
  <2>2. \A r \in T : r \notin q + 1 .. n
    BY <1>1 DEF Latest
  <2>3. q \in T
    BY DEF Latest
  <2> QED
    BY <2>1, <2>2, <2>3
<1> HIDE DEF T
<1>3. \A x \in T : (\A y \in T : x >= y) => x = q
  BY <1>2
<1>4. Max(T) = q
  BY <1>2, <1>3 DEF Max
<1> QED
  BY <1>4 DEF T

LEMMA OverlaidStays ==
  ASSUME NEW s, NEW t, NEW n \in Nat, NEW x, \A k \in 1 .. n : t[k] = s[k],
         Overlaid(s, n, x)
  PROVE  Overlaid(t, n, x)
<1> SUFFICES ASSUME NEW p \in 1 .. BufSize, NEW q \in 1 .. n, Latest(t, n, p, q)
             PROVE  p <= Len(x) /\ x[p] = t[q][p]
  BY DEF Overlaid
<1>1. \A r \in q + 1 .. n : r \in 1 .. n
  OBVIOUS
<1>2. Latest(s, n, p, q)
  BY <1>1 DEF Latest
<1> QED
  BY <1>2 DEF Overlaid

(* A datagram more, laid over what was there. *)
LEMMA OverlaidMore ==
  ASSUME NEW s \in Seq(Datagram), NEW d \in Datagram,
         NEW b \in [1 .. BufSize + 1 -> Junk .. MaxSent],
         NEW c \in [1 .. BufSize + 1 -> Junk .. MaxSent],
         Overlaid(s, Len(s), b),
         \A p \in 1 .. BufSize : c[p] = IF p <= Len(d) THEN d[p] ELSE b[p]
  PROVE  Overlaid(Append(s, d), Len(s) + 1, c)
<1> DEFINE t == Append(s, d)
           n == Len(s)
<1>1. n \in Nat /\ t[n + 1] = d /\ \A k \in 1 .. n : t[k] = s[k]
  OBVIOUS
<1>2. Len(c) = BufSize + 1 /\ BufSize \in Nat
  OBVIOUS
<1>3. Len(d) \in Nat
  BY DatagramIs
<1> HIDE DEF t, n
<1> SUFFICES ASSUME NEW p \in 1 .. BufSize, NEW q \in 1 .. n + 1, Latest(t, n + 1, p, q)
             PROVE  p <= Len(c) /\ c[p] = t[q][p]
  BY DEF Overlaid, t, n
<1>4. p <= Len(c)
  BY ONLY <1>2, p \in 1 .. BufSize
<1>5. CASE q = n + 1
  <2>1. Len(d) >= p
    BY <1>1, <1>5 DEF Latest
  <2> QED
    BY <1>1, <1>3, <1>4, <1>5, <2>1
<1>6. CASE q \in 1 .. n
  <2>1. n + 1 \in q + 1 .. n + 1 /\ \A r \in q + 1 .. n : r \in q + 1 .. n + 1 /\ r \in 1 .. n
    BY <1>1, <1>6
  <2>2. Len(d) < p
    BY <1>1, <2>1 DEF Latest
  <2>3. Latest(s, n, p, q)
    BY <1>1, <1>6, <2>1 DEF Latest
  <2>4. b[p] = s[q][p]
    BY <1>6, <2>3 DEF Overlaid, n
  <2>5. c[p] = b[p]
    BY <1>3, <2>2
  <2> QED
    BY <1>1, <1>4, <1>6, <2>4, <2>5
<1> QED
  BY <1>1, <1>5, <1>6

(* The text of such a buffer reaches every place that has been received. *)
LEMMA OverlaidText ==
  ASSUME NEW s \in Seq(Datagram), NEW n \in 0 .. Len(s),
         NEW b \in [1 .. BufSize + 1 -> Junk .. MaxSent], Overlaid(s, n, b)
  PROVE  Overlaid(s, n, Text(b))
<1> SUFFICES ASSUME NEW p \in 1 .. BufSize, NEW q \in 1 .. n, Latest(s, n, p, q)
             PROVE  p <= Len(Text(b)) /\ Text(b)[p] = s[q][p]
  BY DEF Overlaid
<1>1. n \in Nat /\ Len(s) \in Nat /\ \A k \in 1 .. n : s[k] \in Datagram
  OBVIOUS
<1>8. \A k \in 1 .. n : s[k] \in Seq(1 .. MaxSent) /\ Len(s[k]) \in Nat
  <2>1. \A d \in Datagram : d \in Seq(1 .. MaxSent) /\ Len(d) \in 0 .. MaxLen
    BY ONLY DatagramIs, Zenon
  <2> QED
    BY ONLY <1>1, <2>1
<1>2. ASSUME NEW p2 \in 1 .. p PROVE b[p2] # Nul
  <2>1. Len(s[q]) >= p2 /\ p2 \in 1 .. BufSize /\ p2 \in Nat
    <3>1. Len(s[q]) \in Nat /\ Len(s[q]) >= p
      BY <1>8 DEF Latest
    <3> QED
      BY ONLY <3>1, p \in 1 .. BufSize, p2 \in 1 .. p, UdpAssumption
  <2>2. PICK r \in 1 .. n : Latest(s, n, p2, r)
    BY ONLY <2>1, s \in Seq(Datagram), n \in 0 .. Len(s), q \in 1 .. n, LatestExists, Zenon
  <2>3. b[p2] = s[r][p2] /\ Len(s[r]) >= p2
    BY <2>1, <2>2 DEF Overlaid, Latest
  <2>4. s[r] \in Seq(1 .. MaxSent) /\ Len(s[r]) \in Nat
    BY <1>8
  <2>5. s[r][p2] \in 1 .. MaxSent
    <3>1. p2 \in 1 .. Len(s[r])
      BY <2>1, <2>3, <2>4
    <3> QED
      BY ONLY <2>4, <3>1, ElementOfSeq, Zenon
  <2> QED
    BY ONLY <2>3, <2>5, UdpAssumption DEF Nul
<1>3. p \in 0 .. BufSize /\ p \in 1 .. BufSize + 1
  OBVIOUS
<1>4. /\ Text(b) \in Seq(Junk .. MaxSent) /\ Len(Text(b)) >= p
      /\ \A k \in 1 .. Len(Text(b)) : Text(b)[k] = b[k]
  BY ONLY <1>2, <1>3, b \in [1 .. BufSize + 1 -> Junk .. MaxSent], TextIs, Zenon
<1>5. Len(Text(b)) \in Nat
  BY <1>4
<1>6. p \in 1 .. Len(Text(b)) /\ p <= Len(Text(b))
  BY ONLY <1>4, <1>5, p \in 1 .. BufSize, UdpAssumption
<1>7. b[p] = s[q][p]
  BY DEF Overlaid
<1> QED
  BY <1>4, <1>6, <1>7

-----------------------------------------------------------------------------
LEMMA PollingLast ==
  ASSUME NEW S, NEW a \in Seq(S), "epoll_create1" \in S, "epoll_ctl" \in S
  PROVE  Len(a \o Polling) \in Nat \ {0} /\ (a \o Polling)[Len(a \o Polling)] = "epoll_ctl"
<1>1. Polling \in Seq(S) /\ Len(Polling) = 2 /\ Polling[2] = "epoll_ctl"
  BY DEF Polling
<1>2. /\ Len(a \o Polling) = Len(a) + Len(Polling)
      /\ \A i \in 1 .. Len(a) + Len(Polling) :
           (a \o Polling)[i] = IF i <= Len(a) THEN a[i] ELSE Polling[i - Len(a)]
  BY ONLY <1>1, a \in Seq(S), ConcatProperties, Zenon
<1>3. PICK n \in Nat : n = Len(a)
  OBVIOUS
<1>4. n + 2 \in 1 .. n + 2 /\ ~(n + 2 <= n) /\ n + 2 - n = 2 /\ n + 2 \in Nat \ {0}
  OBVIOUS
<1> QED
  BY ONLY <1>1, <1>2, <1>3, <1>4

(* The last call of each program's set-up is one whose failure ends it. *)
LEMMA SetupIs ==
  ASSUME program \in Program
  PROVE  Len(Setup) \in Nat \ {0} /\ Setup[Len(Setup)] \in Checked
<1> DEFINE S == {"socket", "bind", "IP_ADD_MEMBERSHIP", "fcntl", "epoll_create1", "epoll_ctl"}
<1>1. CASE program \in {"subscriber", "run_with_epoll_EPOLLIN"}
  <2>1. \E a \in Seq(S) : Setup = a \o Polling
    <3>1. <<"socket", "bind", "IP_ADD_MEMBERSHIP", "fcntl">> \in Seq(S)
      OBVIOUS
    <3>2. <<"socket", "fcntl", "bind">> \in Seq(S)
      OBVIOUS
    <3> QED
      BY <1>1, <3>1, <3>2 DEF Setup
  <2>2. "epoll_create1" \in S /\ "epoll_ctl" \in S
    OBVIOUS
  <2> QED
    BY <2>1, <2>2, PollingLast DEF Checked
<1>2. CASE program \notin {"subscriber", "run_with_epoll_EPOLLIN"}
  <2>1. Setup = <<"socket", "fcntl", "bind">>
    BY <1>2 DEF Setup
  <2>2. program \in Server
    BY <1>2 DEF Program
  <2>3. Len(Setup) = 3 /\ Setup[3] = "bind"
    BY <2>1
  <2> QED
    BY <2>2, <2>3 DEF Checked
<1> QED
  BY <1>1, <1>2

Line == [text : Seq(Junk .. MaxSent), after : Nat]

(* All but spoilt. *)
UdpFields ==
  /\ program \in Program
  /\ upc \in {"setup", "wait", "recv", "exit"}
  /\ made \in 0 .. Len(Setup)
  /\ upc = "setup" => made < Len(Setup)
  /\ good \subseteq {Setup[k] : k \in 1 .. made}
  /\ buffer \in [1 .. BufSize + 1 -> Junk .. MaxSent]
  /\ queue \in Seq(Datagram) /\ Len(queue) <= QueueLimit
  /\ received \in Seq(Datagram)
  /\ printed \in Seq(Line)
  /\ cause \in {"none", "setup", "wait", "recv"}
  /\ net \in Seq(Datagram) /\ Len(net) <= MaxSent
  /\ arrivals \in 0 .. MaxArrivals /\ errors \in 0 .. MaxErrors

(* The subscriber's buffer, and what it has printed of it. *)
Overlays ==
  program = "subscriber" =>
    /\ Overlaid(received, Len(received), buffer)
    /\ \A k \in 1 .. Len(printed) :
         /\ printed[k].after \in 0 .. Len(received)
         /\ Overlaid(received, printed[k].after, printed[k].text)

UdpInv == UdpFields /\ Overlays /\ spoilt \in BOOLEAN

LEMMA UdpStart == Init => UdpInv
<1> SUFFICES ASSUME Init PROVE UdpInv
  OBVIOUS
<1>1. spoilt \in BOOLEAN
  BY ONLY Init, Zenon DEF Init, UdpInit
<1>2. /\ program \in Program /\ upc = "setup" /\ made = 0 /\ good = {}
      /\ buffer \in [1 .. BufSize + 1 -> {Nul, Junk}]
      /\ queue = <<>> /\ received = <<>> /\ printed = <<>> /\ cause = "none" /\ net = <<>>
      /\ arrivals = 0 /\ errors = 0
  BY ONLY Init, Zenon DEF Init, UdpInit
<1>3. UdpFields
  <2>1. buffer \in [1 .. BufSize + 1 -> Junk .. MaxSent]
    <3>1. Nul \in Junk .. MaxSent /\ Junk \in Junk .. MaxSent
      BY DEF Nul, Junk
    <3> QED
      BY <1>2, <3>1
  <2>2. 0 \in 0 .. Len(Setup) /\ 0 < Len(Setup)
    BY <1>2, SetupIs
  <2>3. Len(<<>>) = 0
    BY EmptyLen
  <2> QED
    BY <1>2, <2>1, <2>2, <2>3 DEF UdpFields
<1>4. Overlays
  <2>1. Len(received) = 0 /\ Len(printed) = 0
    BY <1>2, EmptyLen
  <2> QED
    BY <2>1 DEF Overlays, Overlaid
<1> QED
  BY <1>1, <1>3, <1>4 DEF UdpInv

(* What a turn that takes a datagram does. *)
Took == SubSeq(Head(queue), 1, Kept(Head(queue)))

LEMMA TakeIs ==
  UdpFields /\ Take =>
    /\ upc = "recv" /\ upc' = AfterRecv
    /\ queue # <<>> /\ Head(queue) \in Datagram
    /\ queue' = Tail(queue) /\ queue' \in Seq(Datagram) /\ Len(queue') = Len(queue) - 1
    /\ Took \in Datagram /\ received' = Append(received, Took)
    /\ buffer' \in [1 .. BufSize + 1 -> Junk .. MaxSent]
    /\ program = "subscriber" =>
         \A p \in 1 .. BufSize : buffer'[p] = IF p <= Len(Took) THEN Took[p] ELSE buffer[p]
    /\ program \in Server => Text(buffer') = Took
    /\ Text(buffer') \in Seq(Junk .. MaxSent)
    /\ printed' = Append(printed, [text |-> Text(buffer'), after |-> Len(received')])
    /\ UNCHANGED <<program, made, good, cause, netVars, errors>>
<1> SUFFICES ASSUME UdpFields, Take
             PROVE  /\ upc = "recv" /\ upc' = AfterRecv
                    /\ queue # <<>> /\ Head(queue) \in Datagram
                    /\ queue' = Tail(queue) /\ queue' \in Seq(Datagram) /\ Len(queue') = Len(queue) - 1
                    /\ Took \in Datagram /\ received' = Append(received, Took)
                    /\ buffer' \in [1 .. BufSize + 1 -> Junk .. MaxSent]
                    /\ program = "subscriber" =>
                         \A p \in 1 .. BufSize : buffer'[p] = IF p <= Len(Took) THEN Took[p] ELSE buffer[p]
                    /\ program \in Server => Text(buffer') = Took
                    /\ Text(buffer') \in Seq(Junk .. MaxSent)
                    /\ printed' = Append(printed, [text |-> Text(buffer'), after |-> Len(received')])
                    /\ UNCHANGED <<program, made, good, cause, netVars, errors>>
  OBVIOUS
<1> DEFINE d == Head(queue)
           n == Kept(d)
           b == [p \in 1 .. BufSize + 1 |-> IF p <= n THEN d[p] ELSE buffer[p]]
<1>1. /\ upc = "recv" /\ queue # <<>> /\ upc' = AfterRecv
      /\ queue' = Tail(queue) /\ received' = Append(received, Took)
      /\ buffer' = (IF program \in Server THEN Terminated(b, n) ELSE b)
      /\ printed' = Append(printed, [text |-> Text(buffer'), after |-> Len(received')])
      /\ UNCHANGED <<program, made, good, cause, netVars, errors>>
  BY ONLY Take, Zenon DEF Take, PrintLine, PrintedBuffer, Took, Kept
<1>2. /\ d \in Datagram /\ queue' \in Seq(Datagram) /\ Len(queue') = Len(queue) - 1
  BY <1>1, HeadTailProperties DEF UdpFields
<1>3. /\ n \in 0 .. BufSize /\ Took \in Datagram /\ Len(Took) = n
      /\ \A p \in 1 .. n : Took[p] = d[p] /\ d[p] \in 1 .. MaxSent
  BY ONLY <1>2, KeptIs, Zenon DEF Took
<1>4. buffer \in [1 .. BufSize + 1 -> Junk .. MaxSent]
  BY DEF UdpFields
<1> HIDE DEF n, d
<1>5. /\ b \in [1 .. BufSize + 1 -> Junk .. MaxSent]
      /\ \A p \in 1 .. n : b[p] \in 1 .. MaxSent /\ b[p] = Took[p] /\ p \in 1 .. BufSize
      /\ \A p \in 1 .. BufSize : b[p] = IF p <= n THEN Took[p] ELSE buffer[p]
  <2>1. \A p \in 1 .. BufSize + 1 : p <= n => p \in 1 .. n
    BY ONLY <1>3, UdpAssumption
  <2>2. \A k \in 1 .. MaxSent : k \in Junk .. MaxSent
    BY DEF Junk
  <2>3. \A p \in 1 .. n : p \in 1 .. BufSize /\ p \in 1 .. BufSize + 1 /\ p <= n
    BY ONLY <1>3, UdpAssumption
  <2>4. \A p \in 1 .. BufSize : p \in 1 .. BufSize + 1
    BY ONLY UdpAssumption
  <2>5. b \in [1 .. BufSize + 1 -> Junk .. MaxSent]
    BY ONLY <1>3, <1>4, <2>1, <2>2
  <2> QED
    BY ONLY <1>3, <2>1, <2>3, <2>4, <2>5
<1> HIDE DEF b
<1>6. CASE program \in Server
  <2>1. buffer' = [b EXCEPT ![n + 1] = Nul]
    BY <1>1, <1>6 DEF Terminated
  <2>2. n + 1 \in 1 .. BufSize + 1 /\ Nul \in Junk .. MaxSent /\ \A p \in 1 .. n : p # n + 1 /\ p \in 1 .. BufSize + 1
    BY <1>3 DEF Nul, Junk
  <2>3. /\ buffer' \in [1 .. BufSize + 1 -> Junk .. MaxSent] /\ buffer'[n + 1] = Nul
        /\ \A p \in 1 .. n : buffer'[p] = b[p]
    BY ONLY <1>5, <2>1, <2>2
  <2>4. \A p \in 1 .. n : buffer'[p] # Nul
    BY <1>5, <2>3 DEF Nul
  <2>5. /\ Text(buffer') \in Seq(Junk .. MaxSent) /\ Len(Text(buffer')) = n
        /\ \A p \in 1 .. n : Text(buffer')[p] = buffer'[p]
    BY ONLY <1>3, <2>3, <2>4, TextIs
  <2>6. Text(buffer') = Took
    <3>1. Took \in Seq(1 .. MaxSent)
      BY <1>3, DatagramIs
    <3>2. Took \in Seq(Junk .. MaxSent)
      <4>1. 1 .. MaxSent \subseteq Junk .. MaxSent
        BY DEF Junk
      <4> QED
        BY ONLY <3>1, <4>1, SeqMonotonic, Zenon
    <3>3. \A p \in 1 .. n : Text(buffer')[p] = Took[p]
      BY <1>5, <2>3, <2>5
    <3> QED
      BY ONLY <1>3, <2>5, <3>2, <3>3, SeqEqual
  <2>7. program # "subscriber"
    BY <1>6 DEF Server
  <2> QED
    BY <1>1, <1>2, <1>3, <2>3, <2>5, <2>6, <2>7 DEF d
<1>7. CASE program \notin Server
  <2>1. buffer' = b
    BY <1>1, <1>7
  <2>2. 0 \in 0 .. BufSize /\ \A p \in 1 .. 0 : b[p] # Nul
    OBVIOUS
  <2>3. Text(b) \in Seq(Junk .. MaxSent)
    BY ONLY <1>5, <2>2, TextIs, Zenon
  <2> QED
    BY <1>1, <1>2, <1>3, <1>5, <1>7, <2>1, <2>3 DEF d
<1> QED
  BY <1>6, <1>7

LEMMA OverlaysSame ==
  Overlays /\ UNCHANGED <<program, buffer, received, printed>> => Overlays'
BY DEF Overlays

(* A line more, of what the buffer holds then. *)
LEMMA OverlaysMore ==
  ASSUME UdpFields, Overlays, program' = program,
         \/ /\ received' = received /\ buffer' = buffer
         \/ /\ Took \in Datagram /\ received' = Append(received, Took)
            /\ buffer' \in [1 .. BufSize + 1 -> Junk .. MaxSent]
            /\ program = "subscriber" =>
                 \A p \in 1 .. BufSize : buffer'[p] = IF p <= Len(Took) THEN Took[p] ELSE buffer[p],
         printed' = Append(printed, [text |-> Text(buffer'), after |-> Len(received')])
  PROVE  Overlays'
<1> SUFFICES ASSUME program = "subscriber"
             PROVE  /\ Overlaid(received', Len(received'), buffer')
                    /\ \A k \in 1 .. Len(printed') :
                         /\ printed'[k].after \in 0 .. Len(received')
                         /\ Overlaid(received', printed'[k].after, printed'[k].text)
  BY DEF Overlays
<1>1. /\ buffer \in [1 .. BufSize + 1 -> Junk .. MaxSent]
      /\ received \in Seq(Datagram) /\ printed \in Seq(Line)
      /\ Overlaid(received, Len(received), buffer)
      /\ \A k \in 1 .. Len(printed) :
           /\ printed[k].after \in 0 .. Len(received)
           /\ Overlaid(received, printed[k].after, printed[k].text)
  BY DEF UdpFields, Overlays
<1>2. /\ buffer' \in [1 .. BufSize + 1 -> Junk .. MaxSent]
      /\ received' \in Seq(Datagram) /\ Len(received) <= Len(received')
      /\ Len(received) \in Nat /\ Len(received') \in Nat
      /\ \A k \in 1 .. Len(received) : received'[k] = received[k]
      /\ Overlaid(received', Len(received'), buffer')
  <2>1. CASE received' = received /\ buffer' = buffer
    BY <1>1, <2>1
  <2>2. CASE /\ Took \in Datagram /\ received' = Append(received, Took)
             /\ buffer' \in [1 .. BufSize + 1 -> Junk .. MaxSent]
             /\ \A p \in 1 .. BufSize : buffer'[p] = IF p <= Len(Took) THEN Took[p] ELSE buffer[p]
    <3>1. Overlaid(Append(received, Took), Len(received) + 1, buffer')
      BY ONLY <1>1, <2>2, OverlaidMore
    <3> QED
      BY <1>1, <2>2, <3>1
  <2> QED
    BY <2>1, <2>2
<1>3. Overlaid(received', Len(received'), Text(buffer'))
  <2>1. Len(received') \in 0 .. Len(received')
    BY <1>2
  <2> QED
    BY ONLY <1>2, <2>1, OverlaidText, Zenon
<1> DEFINE new == [text |-> Text(buffer'), after |-> Len(received')]
<1>4. new.after = Len(received') /\ new.text = Text(buffer')
  OBVIOUS
<1> HIDE DEF new
<1>5. /\ Len(printed) \in Nat /\ Len(printed') = Len(printed) + 1
      /\ \A k \in 1 .. Len(printed) : printed'[k] = printed[k]
      /\ printed'[Len(printed) + 1] = new
  <2>1. printed' = Append(printed, new)
    BY DEF new
  <2> QED
    BY <1>1, <2>1
<1>6. ASSUME NEW k \in 1 .. Len(printed')
      PROVE  /\ printed'[k].after \in 0 .. Len(received')
             /\ Overlaid(received', printed'[k].after, printed'[k].text)
  <2>1. CASE k = Len(printed) + 1
    BY <1>2, <1>3, <1>4, <1>5, <2>1
  <2>2. CASE k \in 1 .. Len(printed)
    <3>1. PICK n \in 0 .. Len(received) : n = printed[k].after
      BY <1>1, <2>2
    <3>2. n \in Nat /\ n \in 0 .. Len(received') /\ \A j \in 1 .. n : received'[j] = received[j]
      BY <1>2
    <3>3. Overlaid(received, n, printed[k].text)
      BY <1>1, <2>2, <3>1
    <3>4. Overlaid(received', n, printed[k].text)
      BY ONLY <3>2, <3>3, OverlaidStays, Zenon
    <3> QED
      BY <1>5, <2>2, <3>1, <3>2, <3>4
  <2> QED
    BY <1>5, <2>1, <2>2
<1> QED
  BY <1>2, <1>6

LEMMA PrintedMore ==
  ASSUME NEW l \in Seq(Line), NEW x \in Seq(Junk .. MaxSent), NEW n \in Nat
  PROVE  Append(l, [text |-> x, after |-> n]) \in Seq(Line)
<1>1. [text |-> x, after |-> n] \in Line
  BY DEF Line
<1> QED
  BY <1>1

LEMMA UdpStep == UdpInv /\ UdpNext => UdpInv'
<1> SUFFICES ASSUME UdpInv, UdpNext PROVE UdpInv'
  OBVIOUS
<1>0. UdpFields /\ Overlays
  BY ONLY UdpInv, Zenon DEF UdpInv
<1>1. spoilt' \in BOOLEAN
  BY ONLY UdpInv, UdpNext, Zenon
     DEF UdpInv, UdpNext, SetUp, Loop, Wait, WaitFails, End, Take, NothingThere, RecvFails,
         Network, ClientSends, SenderSends, OthersSend, SendTo, Arrive, Discard
<1>2. program' = program /\ Setup' = Setup
  <2>1. program' = program
    BY ONLY UdpNext, Zenon
       DEF UdpNext, SetUp, Loop, Wait, WaitFails, End, Take, NothingThere, RecvFails,
           Network, ClientSends, SenderSends, OthersSend, SendTo, Arrive, Discard
  <2> QED
    BY ONLY <2>1, Zenon DEF Setup, Polling
<1>3. ASSUME UdpFields', Overlays' PROVE UdpInv'
  BY ONLY <1>1, <1>3, Zenon DEF UdpInv
<1>4. CASE SetUp
  <2>1. /\ upc = "setup" /\ made' = made + 1
        /\ \/ /\ good' = good \cup {Setup[made + 1]}
              /\ upc' = IF made' = Len(Setup) THEN FirstOfLoop ELSE "setup"
              /\ cause' = cause
           \/ Setup[made + 1] \notin Checked /\ UNCHANGED <<good, upc, cause>>
           \/ upc' = "exit" /\ cause' = "setup" /\ good' = good
        /\ UNCHANGED <<program, buffer, queue, received, printed, netVars, errors>>
    BY ONLY <1>4, Zenon DEF SetUp
  <2>2. made \in Nat /\ made < Len(Setup) /\ Len(Setup) \in Nat /\ Setup[Len(Setup)] \in Checked
    BY <1>0, <2>1, SetupIs DEF UdpFields
  <2>3. made' \in 0 .. Len(Setup) /\ (made' # Len(Setup) => made' < Len(Setup))
    BY ONLY <2>1, <2>2
  <2>4. upc' = "setup" => made' < Len(Setup)
    BY <2>1, <2>2, <2>3 DEF FirstOfLoop
  <2>5. good' \subseteq {Setup[k] : k \in 1 .. made'}
    <3>1. good \subseteq {Setup[k] : k \in 1 .. made}
      BY <1>0 DEF UdpFields
    <3>2. made + 1 \in 1 .. made' /\ \A k \in 1 .. made : k \in 1 .. made'
      BY ONLY <2>1, <2>2
    <3> QED
      BY ONLY <2>1, <3>1, <3>2
  <2>6. upc' \in {"setup", "wait", "recv", "exit"} /\ cause' \in {"none", "setup", "wait", "recv"}
    BY <1>0, <2>1 DEF FirstOfLoop, UdpFields
  <2>7. UdpFields'
    BY <1>0, <1>2, <2>1, <2>3, <2>4, <2>5, <2>6 DEF UdpFields, netVars
  <2>8. Overlays'
    BY ONLY <1>0, <2>1, OverlaysSame
  <2> QED
    BY <1>3, <2>7, <2>8
<1>5. CASE Wait \/ NothingThere
  <2>1. /\ upc' \in {"recv", "wait"} /\ UNCHANGED <<program, made, good, buffer, queue, received,
                                              printed, cause, netVars, errors>>
    BY ONLY <1>5 DEF Wait, NothingThere
  <2>2. UdpFields'
    BY <1>0, <1>2, <2>1 DEF UdpFields, netVars
  <2>3. Overlays'
    BY ONLY <1>0, <2>1, OverlaysSame
  <2> QED
    BY <1>3, <2>2, <2>3
<1>6. CASE WaitFails
  <2>1. /\ upc' \in {upc, "exit"} /\ cause' \in {cause, "wait"}
        /\ errors < MaxErrors /\ errors' = errors + 1
        /\ UNCHANGED <<program, made, good, buffer, queue, received, printed, netVars>>
    BY <1>6 DEF WaitFails, End
  <2>4. errors' \in 0 .. MaxErrors
    BY <1>0, <2>1 DEF UdpFields
  <2>2. UdpFields'
    <3>1. UNCHANGED <<net, arrivals>>
      BY <2>1 DEF netVars
    <3>2. CASE upc' = "exit"
      BY <1>0, <1>2, <2>1, <2>4, <3>1, <3>2 DEF UdpFields
    <3>3. CASE upc' = upc
      BY <1>0, <1>2, <2>1, <2>4, <3>1, <3>3 DEF UdpFields
    <3> QED
      BY <2>1, <3>2, <3>3
  <2>3. Overlays'
    BY ONLY <1>0, <2>1, OverlaysSame
  <2> QED
    BY <1>3, <2>2, <2>3
<1>7. CASE Take
  <2> DEFINE line == [text |-> Text(buffer'), after |-> Len(received')]
  <2>1. /\ upc' = AfterRecv /\ queue' \in Seq(Datagram) /\ Len(queue') = Len(queue) - 1
        /\ Took \in Datagram /\ received' = Append(received, Took)
        /\ buffer' \in [1 .. BufSize + 1 -> Junk .. MaxSent]
        /\ program = "subscriber" =>
             \A p \in 1 .. BufSize : buffer'[p] = IF p <= Len(Took) THEN Took[p] ELSE buffer[p]
        /\ Text(buffer') \in Seq(Junk .. MaxSent)
        /\ printed' = Append(printed, [text |-> Text(buffer'), after |-> Len(received')])
        /\ UNCHANGED <<program, made, good, cause, netVars, errors>>
    BY ONLY <1>0, <1>7, TakeIs
  <2>2. received' \in Seq(Datagram) /\ Len(received') \in Nat
    BY <1>0, <2>1 DEF UdpFields
  <2>3. printed' \in Seq(Line)
    <3>1. printed \in Seq(Line)
      BY <1>0 DEF UdpFields
    <3> QED
      BY ONLY <2>1, <2>2, <3>1, PrintedMore, Zenon
  <2>4. upc' \in {"recv", "wait"}
    BY <2>1 DEF AfterRecv
  <2>5. Len(queue') <= QueueLimit
    <3>1. Len(queue) \in Nat /\ Len(queue) <= QueueLimit
      BY <1>0 DEF UdpFields
    <3> QED
      BY ONLY <2>1, <3>1, UdpAssumption
  <2>6. UdpFields'
    BY <1>0, <1>2, <2>1, <2>2, <2>3, <2>4, <2>5 DEF UdpFields, netVars
  <2>7. Overlays'
    BY ONLY <1>0, <2>1, OverlaysMore, Zenon
  <2> QED
    BY <1>3, <2>6, <2>7
<1>8. CASE RecvFails
  <2>1. /\ upc' \in {"recv", "wait", "exit"} /\ cause' \in {cause, "recv"}
        /\ errors < MaxErrors /\ errors' = errors + 1
        /\ UNCHANGED <<program, made, good, buffer, queue, received, netVars>>
        /\ \/ printed' = Append(printed, [text |-> Text(buffer'), after |-> Len(received')])
           \/ printed' = printed
    BY <1>8 DEF RecvFails, End, AfterError, AfterRecv, PrintLine, PrintedBuffer
  <2>2. Text(buffer') \in Seq(Junk .. MaxSent)
    <3>1. buffer' \in [1 .. BufSize + 1 -> Junk .. MaxSent]
      BY <1>0, <2>1 DEF UdpFields
    <3>2. 0 \in 0 .. BufSize /\ \A p \in 1 .. 0 : buffer'[p] # Nul
      OBVIOUS
    <3> QED
      BY ONLY <3>1, <3>2, TextIs, Zenon
  <2>3. printed' \in Seq(Line)
    <3>1. printed \in Seq(Line) /\ Len(received') \in Nat
      BY <1>0, <2>1 DEF UdpFields
    <3> QED
      BY ONLY <2>1, <2>2, <3>1, PrintedMore, Zenon
  <2>4. UdpFields'
    <3>1. errors' \in 0 .. MaxErrors
      BY <1>0, <2>1 DEF UdpFields
    <3>2. /\ upc' # "setup" /\ upc' \in {"wait", "recv", "exit"}
          /\ UNCHANGED <<program, made, good, buffer, queue, received, net, arrivals>>
      BY ONLY <2>1 DEF netVars
    <3>3. cause' \in {"none", "setup", "wait", "recv"}
      BY ONLY <1>0, <2>1 DEF UdpFields
    <3> QED
      BY ONLY <1>0, <1>2, <2>3, <3>1, <3>2, <3>3 DEF UdpFields
  <2>5. Overlays'
    <3>1. CASE printed' = printed
      BY ONLY <1>0, <2>1, <3>1, OverlaysSame
    <3>2. CASE printed' # printed
      BY ONLY <1>0, <2>1, <3>2, OverlaysMore, Zenon
    <3> QED
      BY <3>1, <3>2
  <2> QED
    BY <1>3, <2>4, <2>5
<1>9. CASE \E len \in 0 .. MaxLen : SendTo(len)
  <2>1. PICK len \in 0 .. MaxLen :
          /\ Len(net) < MaxSent
          /\ net' = Append(net, [p \in 1 .. len |-> Len(net) + 1])
          /\ UNCHANGED <<program, upc, made, good, buffer, queue, received, printed, cause,
                         arrivals, errors>>
    BY ONLY <1>9, Zenon DEF SendTo
  <2>2. net \in Seq(Datagram) /\ Len(net) \in Nat
    BY <1>0 DEF UdpFields
  <2>3. [p \in 1 .. len |-> Len(net) + 1] \in Datagram
    <3>1. Len(net) + 1 \in 1 .. MaxSent
      BY ONLY <2>1, <2>2, UdpAssumption
    <3> QED
      BY ONLY <3>1, len \in 0 .. MaxLen, DatagramMade, Zenon
  <2>4. net' \in Seq(Datagram) /\ Len(net') <= MaxSent
    BY ONLY <2>1, <2>2, <2>3, UdpAssumption
  <2>5. UdpFields'
    BY <1>0, <1>2, <2>1, <2>4 DEF UdpFields
  <2>6. Overlays'
    BY ONLY <1>0, <2>1, OverlaysSame
  <2> QED
    BY <1>3, <2>5, <2>6
<1>10. CASE Arrive
  <2>1. /\ arrivals < MaxArrivals /\ arrivals' = arrivals + 1 /\ Len(queue) < QueueLimit
        /\ \E k \in DOMAIN net : queue' = Append(queue, net[k])
        /\ UNCHANGED <<program, upc, made, good, buffer, received, printed, cause, net, errors>>
    BY ONLY <1>10, Zenon DEF Arrive
  <2>2. queue \in Seq(Datagram) /\ net \in Seq(Datagram) /\ arrivals \in 0 .. MaxArrivals
    BY <1>0 DEF UdpFields
  <2>3. queue' \in Seq(Datagram) /\ Len(queue') <= QueueLimit
    BY <2>1, <2>2
  <2>6. arrivals' \in 0 .. MaxArrivals
    BY ONLY <2>1, <2>2, UdpAssumption
  <2>4. UdpFields'
    <3>1. UNCHANGED <<program, upc, made, good, buffer, received, printed, cause, net, errors>>
      BY <2>1
    <3> QED
      BY ONLY <1>0, <1>2, <2>3, <2>6, <3>1 DEF UdpFields
  <2>5. Overlays'
    BY ONLY <1>0, <2>1, OverlaysSame
  <2> QED
    BY <1>3, <2>4, <2>5
<1>11. CASE Discard
  <2>1. /\ queue # <<>> /\ queue' = Tail(queue)
        /\ UNCHANGED <<program, upc, made, good, buffer, received, printed, cause, netVars, errors>>
    BY ONLY <1>11, Zenon DEF Discard
  <2>2. queue' \in Seq(Datagram) /\ Len(queue') <= QueueLimit
    BY <1>0, <2>1, HeadTailProperties DEF UdpFields
  <2>3. UdpFields'
    BY <1>0, <1>2, <2>1, <2>2 DEF UdpFields, netVars
  <2>4. Overlays'
    BY ONLY <1>0, <2>1, OverlaysSame
  <2> QED
    BY <1>3, <2>3, <2>4
<1>12. HelloLen \in 0 .. MaxLen /\ \A len \in 1 .. MaxLen : len \in 0 .. MaxLen
  BY UdpAssumption
<1> QED
  BY ONLY UdpNext, <1>4, <1>5, <1>6, <1>7, <1>8, <1>9, <1>10, <1>11, <1>12, Zenon
     DEF UdpNext, Loop, Network, ClientSends, SenderSends, OthersSend

-----------------------------------------------------------------------------
LEMMA WholeUdpInv == Spec => [](UdpInv /\ uses \in {"createSocket", "UDP_sockets"})
<1> DEFINE I == UdpInv /\ uses \in {"createSocket", "UDP_sockets"}
<1>1. Init => I
  BY UdpStart DEF Init
<1>2. I /\ [Next]_vars => I'
  <2> SUFFICES ASSUME I, [Next]_vars PROVE I'
    OBVIOUS
  <2>0. uses' = uses
    BY DEF Next, createSocket, UDP_sockets, vars
  <2>1. CASE UdpNext
    BY <2>0, <2>1, UdpStep
  <2>2. CASE UNCHANGED udpVars
    <3>1. UNCHANGED <<program, upc, made, good, buffer, queue, received, printed, cause,
                      net, arrivals, errors>>
      BY ONLY <2>2, Zenon DEF udpVars, netVars
    <3>2. spoilt' \in BOOLEAN
      BY ONLY UdpInv, <2>2, Zenon DEF udpVars, UdpInv
    <3>3. Setup' = Setup
      BY ONLY <3>1, Zenon DEF Setup, Polling
    <3>4. UdpFields'
      BY ONLY UdpInv, <3>1, <3>3 DEF UdpInv, UdpFields
    <3>5. Overlays'
      BY ONLY UdpInv, <3>1, OverlaysSame DEF UdpInv
    <3> QED
      BY ONLY <2>0, uses \in {"createSocket", "UDP_sockets"}, <3>2, <3>4, <3>5, Zenon DEF UdpInv
  <2> QED
    BY <2>1, <2>2 DEF Next, createSocket, UDP_sockets, vars
<1> QED
  BY <1>1, <1>2, PTL DEF Spec

(* Every variable of createSocket() and of the UDP programs keeps to its   *)
(* values: the queue to its limit, the buffer to bytes, the lists to       *)
(* datagrams.                                                              *)
THEOREM TypeCorrect == Spec => []TypeOK
<1>1. CreateInv => CreateTypeOK
  <2> SUFFICES ASSUME CreateInv PROVE CreateTypeOK
    OBVIOUS
  <2>1. result \in BOOLEAN /\ Fields
    BY ONLY CreateInv, Zenon DEF CreateInv
  <2>2. step \in 0 .. Len(Order) + 1
    BY <2>1, OrderIs DEF Fields
  <2> QED
    BY ONLY <2>1, <2>2, Zenon DEF CreateTypeOK, Fields
<1>2. UdpInv => UdpTypeOK
  BY ONLY Zenon DEF UdpInv, UdpFields, UdpTypeOK
<1>3. CreateInv /\ UdpInv /\ uses \in {"createSocket", "UDP_sockets"} => TypeOK
  BY <1>1, <1>2, Zenon DEF TypeOK
<1> QED
  BY <1>3, WholeInv, WholeUdpInv, PTL

(* Each line of the subscriber shows, at every place that was received,    *)
(* the byte that came there last: the end of an earlier datagram after a   *)
(* shorter one.                                                            *)
THEOREM TailsAreStale == Spec => []StaleTail
<1>1. UdpInv => StaleTail
  <2> SUFFICES ASSUME UdpInv, program = "subscriber", NEW k \in DOMAIN printed, NEW p \in 1 .. BufSize,
                      {q \in 1 .. printed[k].after : Len(received[q]) >= p} # {}
               PROVE  /\ p <= Len(printed[k].text)
                      /\ printed[k].text[p] =
                           received[Max({q \in 1 .. printed[k].after : Len(received[q]) >= p})][p]
    BY DEF StaleTail
  <2>0. UdpFields /\ Overlays
    BY ONLY UdpInv, Zenon DEF UdpInv
  <2>1. received \in Seq(Datagram) /\ k \in 1 .. Len(printed)
    <3>1. received \in Seq(Datagram) /\ printed \in Seq(Line)
      BY <2>0 DEF UdpFields
    <3>2. DOMAIN printed = 1 .. Len(printed)
      BY ONLY <3>1, LenProperties, Zenon
    <3> QED
      BY <3>1, <3>2
  <2>2. PICK n \in 0 .. Len(received) :
          n = printed[k].after /\ Overlaid(received, n, printed[k].text)
    BY <2>0, <2>1 DEF Overlays
  <2>3. PICK r \in 1 .. n : Len(received[r]) >= p
    BY <2>2
  <2>4. p \in Nat
    OBVIOUS
  <2>5. PICK q \in 1 .. n : Latest(received, n, p, q)
    BY ONLY <2>1, <2>3, <2>4, n \in 0 .. Len(received), LatestExists, Zenon
  <2>6. Max({j \in 1 .. n : Len(received[j]) >= p}) = q
    BY ONLY <2>1, <2>4, <2>5, n \in 0 .. Len(received), LatestIsMax, Zenon
  <2> QED
    BY <2>2, <2>5, <2>6 DEF Overlaid
<1> QED
  BY <1>1, WholeUdpInv, PTL

-----------------------------------------------------------------------------
(* The refinement. *)

LEMMA LinesSame ==
  program' = program /\ received' = received /\ (printed' = printed \/ program = "subscriber")
    => Lines' = Lines
BY Zenon DEF Lines

LEMMA LinesMore ==
  ASSUME UdpFields, Take PROVE Lines' = Append(Lines, R!Cut(Head(queue)))
<1>1. /\ Head(queue) \in Datagram /\ Took \in Datagram /\ received' = Append(received, Took)
      /\ program \in Server => Text(buffer') = Took
      /\ printed' = Append(printed, [text |-> Text(buffer'), after |-> Len(received')])
      /\ program' = program
  BY TakeIs
<1>2. R!Cut(Head(queue)) = Took
  BY ONLY <1>1, KeptIs, Zenon DEF Took
<1>3. CASE program = "subscriber"
  BY <1>1, <1>2, <1>3 DEF Lines
<1>4. CASE program # "subscriber"
  <2>1. program \in Server
    BY <1>4 DEF UdpFields, Program
  <2>2. printed \in Seq(Line) /\ Len(printed) \in Nat
    BY DEF UdpFields
  <2> DEFINE new == [text |-> Text(buffer'), after |-> Len(received')]
             old == [k \in 1 .. Len(printed) |-> printed[k].text]
             all == [k \in 1 .. Len(printed') |-> printed'[k].text]
  <2>3. new.text = Took /\ printed' = Append(printed, new)
    BY <1>1, <2>1
  <2> HIDE DEF new
  <2>4. /\ Len(printed') = Len(printed) + 1
        /\ \A k \in 1 .. Len(printed) : printed'[k] = printed[k]
        /\ printed'[Len(printed) + 1] = new
    BY <2>2, <2>3
  <2>5. PICK n \in Nat : n = Len(printed)
    BY <2>2
  <2>6. \A k \in 1 .. n + 1 : printed'[k].text = IF k = n + 1 THEN Took ELSE printed[k].text
    BY ONLY <2>3, <2>4, <2>5
  <2>7. all = [k \in 1 .. n + 1 |-> IF k = n + 1 THEN Took ELSE printed[k].text]
    BY ONLY <2>4, <2>5, <2>6
  <2>8. old = [k \in 1 .. n |-> printed[k].text] /\ Len(old) = n
    BY ONLY <2>5
  <2>9. Append(old, Took) = [k \in 1 .. n + 1 |-> IF k = n + 1 THEN Took ELSE printed[k].text]
    BY ONLY <2>8
  <2>10. Lines = old /\ Lines' = all
    BY <1>1, <1>4 DEF Lines
  <2> QED
    BY ONLY <1>2, <2>7, <2>9, <2>10, Zenon
<1> QED
  BY <1>3, <1>4

(* Each loop of the server says what each datagram holds, once and in      *)
(* order, whatever its buffer held before and whatever the network does;   *)
(* the subscriber takes them so: both are receivers.                       *)
THEOREM ReceiverImplemented == Spec => ImplementsReceiver
<1>1. Init => R!Init
  <2> SUFFICES ASSUME Init PROVE R!Init
    OBVIOUS
  <2>1. queue = <<>> /\ received = <<>> /\ printed = <<>> /\ upc = "setup"
    BY ONLY Init, Zenon DEF Init, UdpInit
  <2>2. spoilt = FALSE
    BY ONLY Init, Zenon DEF Init, UdpInit
  <2>3. Lines = <<>>
    BY ONLY <2>1 DEF Lines
  <2>4. upc # "exit"
    BY <2>1
  <2> QED
    BY ONLY <2>1, <2>2, <2>3, <2>4, Zenon DEF R!Init
<1>2. ASSUME UdpInv, [Next]_vars PROVE [R!Next]_(R!vars)
  <2>0. UdpFields
    BY ONLY UdpInv, Zenon DEF UdpInv
  <2>1. ASSUME queue' = queue, spoilt' = spoilt, Lines' = Lines, upc' = "exit" <=> upc = "exit"
        PROVE  UNCHANGED R!vars
    BY ONLY <2>1, Zenon DEF R!vars
  <2>2. ASSUME queue' = queue, spoilt' = spoilt, Lines' = Lines, upc # "exit", upc' = "exit"
        PROVE  R!Next
    BY ONLY <2>2, Zenon DEF R!Next, R!Stop
  <2>3. CASE SetUp \/ Wait \/ WaitFails \/ NothingThere \/ RecvFails
    <3>1. /\ upc # "exit" /\ queue' = queue /\ spoilt' = spoilt
          /\ program' = program /\ received' = received
      BY ONLY <2>3, Zenon DEF SetUp, Wait, WaitFails, End, NothingThere, RecvFails
    <3>2. printed' = printed \/ program = "subscriber"
      BY ONLY <2>3, Zenon DEF SetUp, Wait, WaitFails, End, NothingThere, RecvFails
    <3>3. Lines' = Lines
      BY ONLY <3>1, <3>2, LinesSame, Zenon
    <3> QED
      BY ONLY <2>1, <2>2, <3>1, <3>3, Zenon
  <2>4. CASE Take
    <3>1. /\ upc # "exit" /\ upc' # "exit" /\ queue # <<>> /\ queue' = Tail(queue)
          /\ Head(queue) \in Datagram
      BY <2>0, <2>4, TakeIs DEF AfterRecv
    <3>2. Lines' = Append(Lines, R!Cut(Head(queue)))
      BY ONLY <2>0, <2>4, LinesMore
    <3>3. Kept(Head(queue)) = BufSize <=> Len(Head(queue)) >= BufSize
      BY ONLY <3>1, KeptIs, Zenon
    <3>4. spoilt' = (spoilt \/ (program \in Server /\ Kept(Head(queue)) = BufSize))
      BY ONLY <2>4, Zenon DEF Take, Kept
    <3>5. spoilt' \in {spoilt, spoilt \/ Len(Head(queue)) >= BufSize}
      <4>1. spoilt \in BOOLEAN
        BY ONLY UdpInv, Zenon DEF UdpInv
      <4> QED
        BY ONLY <3>3, <3>4, <4>1, Zenon
    <3> QED
      BY ONLY <3>1, <3>2, <3>5, Zenon DEF R!Next, R!Take
  <2>5. CASE \E len \in 0 .. MaxLen : SendTo(len)
    <3>1. /\ UNCHANGED <<queue, spoilt, program, received, printed, upc>>
      BY ONLY <2>5, Zenon DEF SendTo
    <3>2. Lines' = Lines
      BY ONLY <3>1, LinesSame, Zenon
    <3> QED
      BY ONLY <2>1, <3>1, <3>2, Zenon
  <2>6. CASE Arrive
    <3>1. /\ upc # "exit" /\ Len(queue) < QueueLimit
          /\ UNCHANGED <<spoilt, program, received, printed, upc>>
          /\ \E k \in DOMAIN net : queue' = Append(queue, net[k])
      BY ONLY <2>6, Zenon DEF Arrive
    <3>2. \E d \in Datagram : queue' = Append(queue, d)
      <4>1. net \in Seq(Datagram)
        BY ONLY <2>0 DEF UdpFields
      <4>2. \A k \in DOMAIN net : net[k] \in Datagram
        BY ONLY <4>1
      <4> QED
        BY ONLY <3>1, <4>2, Zenon
    <3>3. Lines' = Lines
      BY ONLY <3>1, LinesSame, Zenon
    <3> QED
      BY ONLY <3>1, <3>2, <3>3, Zenon DEF R!Next, R!Arrive
  <2>7. CASE Discard
    <3>1. /\ upc # "exit" /\ queue # <<>> /\ queue' = Tail(queue)
          /\ UNCHANGED <<spoilt, program, received, printed, upc>>
      BY ONLY <2>7, Zenon DEF Discard
    <3>2. Lines' = Lines
      BY ONLY <3>1, LinesSame, Zenon
    <3> QED
      BY ONLY <3>1, <3>2, Zenon DEF R!Next, R!Discard
  <2>8. CASE UNCHANGED udpVars
    <3>1. /\ UNCHANGED <<queue, spoilt, program, received, printed, upc>>
      BY ONLY <2>8, Zenon DEF udpVars
    <3>2. Lines' = Lines
      BY ONLY <3>1, LinesSame, Zenon
    <3> QED
      BY ONLY <2>1, <3>1, <3>2, Zenon
  <2>9. HelloLen \in 0 .. MaxLen /\ \A len \in 1 .. MaxLen : len \in 0 .. MaxLen
    BY UdpAssumption
  <2> QED
    BY ONLY [Next]_vars, <2>3, <2>4, <2>5, <2>6, <2>7, <2>8, <2>9, Zenon
       DEF Next, createSocket, UDP_sockets, vars, UdpNext, Loop, Network, ClientSends, SenderSends,
           OthersSend
<1> QED
  BY <1>1, <1>2, WholeUdpInv, PTL DEF Spec, ImplementsReceiver, R!Spec

=============================================================================

-------------------------- MODULE ThreadStart_proof --------------------------
(***************************************************************************)
(* Proofs about createAndStartThread() for any number of calls: the        *)
(* closure's references into the creator's frame are good whenever they    *)
(* are used, and a null pointer means what it should.                      *)
(***************************************************************************)
EXTENDS ThreadStart, TLAPS

Creating == mpc \in {"start", "poll", "started", "join failed"}

(* Call k has returned. *)
Past(k) == ~Creating \/ k < call

(* A call in progress is one of the program's calls. *)
CallInRange == Creating => call \in Thread

(* What has not been started has done nothing, and has no pointer yet. *)
NotStarted ==
  \A k \in Thread : Creating =>
    /\ k > call \/ (k = call /\ mpc = "start") => tpc[k] = "none"
    /\ k >= call => thread[k] = "none"

(* The flags say how far a thread has got. *)
Flags ==
  \A k \in Thread :
    /\ tpc[k] \in {"none", "pin", "run"} => ~running[k] /\ ~failed[k]
    /\ tpc[k] = "fail" => ~running[k]
    /\ tpc[k] \in {"call", "body"} => running[k] /\ ~failed[k]
    /\ tpc[k] = "over" => (running[k] <=> ~failed[k])

(* The creator leaves the poll, and the call, only after a report. *)
Reports ==
  /\ mpc = "started" => running[call] /\ ~failed[call]
  /\ mpc = "join failed" => failed[call]
  /\ \A k \in Thread : Past(k) => running[k] \/ failed[k]

Inv == TypeOK /\ CallInRange /\ NotStarted /\ Flags /\ Reports /\ NullMeansOver

USE CallsAssumption

(* The calls are integers. *)
LEMMA Numbers == ASSUME TypeOK PROVE call \in Int /\ Calls \in Int /\ \A k \in Thread : k \in Int
<1>1. call \in 1 .. Calls + 1
  BY DEF TypeOK
<1> QED BY <1>1 DEF Thread

(* Where the creator goes from call c. *)
LEMMA NextCall ==
  ASSUME NEW c \in Thread, NEW d, d = IF c = Calls THEN 1 ELSE c + 1
  PROVE  /\ d \in Thread
         /\ d \in 1 .. Calls + 1
         /\ c # Calls => \A k \in Thread : k < d => k = c \/ k < c
         /\ c = Calls => \A k \in Thread : k = c \/ k < c
BY DEF Thread

(* What is not before the next call is after c. *)
LEMMA Beyond ==
  ASSUME NEW c \in Thread, NEW d, d = IF c = Calls THEN 1 ELSE c + 1, c # Calls,
         NEW k \in Thread, k >= d
  PROVE  k > c /\ k >= c
BY DEF Thread

(* Where a join goes from call c. *)
LEMMA NextJoin ==
  ASSUME NEW c \in 1 .. Calls + 1, ~(c > Calls)
  PROVE  c + 1 \in 1 .. Calls + 1
OBVIOUS

(* Nothing has been started. *)
LEMMA InitInv == Init => Inv
BY DEF Init, Inv, TypeOK, CallInRange, NotStarted, Flags, Reports, NullMeansOver,
       Creating, Past, Thread

(* t says what has become of the thread of the call in progress. *)
Became(t) ==
  /\ t = "new" => running[call] /\ ~failed[call]
  /\ t = "nullptr" => failed[call] /\ tpc[call] = "over"

(* Returning t keeps the invariant if t is what became of the thread. *)
LEMMA ReturnInv ==
  ASSUME Inv, NEW t \in {"new", "nullptr"}, Return(t), mpc \in {"started", "join failed"},
         Became(t)
  PROVE  Inv'
<1>1. call \in Thread /\ Creating
  BY DEF Inv, CallInRange, Creating
<1>2. /\ thread' = [thread EXCEPT ![call] = t]
      /\ tpc' = tpc /\ running' = running /\ failed' = failed /\ seen' = seen
  BY DEF Return
<1>3. call' = IF call = Calls THEN 1 ELSE call + 1
  BY DEF Return, Following
<1>4. mpc' = IF call = Calls THEN "join" ELSE "start"
  BY DEF Return
<1>5. /\ call' \in Thread /\ call' \in 1 .. Calls + 1
      /\ call # Calls => \A k \in Thread : k < call' => k = call \/ k < call
      /\ call = Calls => \A k \in Thread : k = call \/ k < call
  BY ONLY <1>1, <1>3, NextCall
<1>6. TypeOK'
  <2>1. args' \in [Thread -> {"given", "garbage"}]
    BY <1>1 DEF Inv, TypeOK, Return
  <2>2. thread' \in [Thread -> {"none", "new", "nullptr"}]
    BY <1>2 DEF Inv, TypeOK
  <2> QED BY <2>1, <2>2, <1>2, <1>4, <1>5 DEF Inv, TypeOK
<1>7. CallInRange' /\ Flags'
  BY <1>2, <1>5 DEF Inv, CallInRange, Flags
<1>8. NotStarted'
  <2> SUFFICES ASSUME NEW k \in Thread, Creating'
               PROVE  /\ k > call' \/ (k = call' /\ mpc' = "start") => tpc'[k] = "none"
                      /\ k >= call' => thread'[k] = "none"
    BY DEF NotStarted
  <2>1. call # Calls
    BY ONLY <1>4, Creating' DEF Creating
  <2>2. (k > call' \/ k = call') => k >= call'
    BY ONLY <1>5, k \in Thread, CallsAssumption DEF Thread
  <2>3. ASSUME k >= call' PROVE tpc'[k] = "none" /\ thread'[k] = "none"
    <3>1. k > call /\ k >= call
      BY ONLY <1>1, <1>3, <2>1, <2>3, k \in Thread, Beyond
    <3>2. k # call
      BY ONLY <3>1, <1>1, k \in Thread, CallsAssumption DEF Thread
    <3>3. tpc[k] = "none" /\ thread[k] = "none"
      BY <3>1, <1>1 DEF Inv, NotStarted
    <3>4. thread'[k] = thread[k]
      BY <3>2, <1>2 DEF Inv, TypeOK
    <3> QED BY ONLY <3>3, <3>4, <1>2
  <2> QED BY ONLY <2>2, <2>3
<1>9. Reports'
  <2>1. ASSUME NEW k \in Thread, Past(k)' PROVE k = call \/ k < call
    <3>1. CASE call = Calls
      BY <3>1, <1>5
    <3>2. CASE call # Calls
      <4>1. Creating'
        BY ONLY <3>2, <1>4 DEF Creating
      <4>2. k < call'
        BY ONLY <2>1, <4>1 DEF Past
      <4> QED BY ONLY <4>2, <3>2, <1>5, k \in Thread
    <3> QED BY <3>1, <3>2
  <2>2. running[call] \/ failed[call]
    BY DEF Inv, Reports
  <2>3. \A k \in Thread : k = call \/ k < call => running[k] \/ failed[k]
    BY <2>2 DEF Inv, Reports, Past
  <2>4. mpc' # "started" /\ mpc' # "join failed"
    BY <1>4
  <2> QED BY <2>1, <2>3, <2>4, <1>2 DEF Reports
<1>10. NullMeansOver'
  <2>1. \A k \in Thread \ {call} : thread'[k] = thread[k]
    BY <1>2 DEF Inv, TypeOK
  <2>2. thread'[call] = t
    BY <1>1, <1>2 DEF Inv, TypeOK
  <2>3. \A k \in Thread \ {call} :
           /\ thread'[k] = "nullptr" => failed[k] /\ tpc[k] = "over"
           /\ thread'[k] = "new" => running[k] /\ ~failed[k]
    BY <2>1 DEF Inv, NullMeansOver
  <2>4. /\ thread'[call] = "nullptr" => failed[call] /\ tpc[call] = "over"
        /\ thread'[call] = "new" => running[call] /\ ~failed[call]
    BY ONLY <2>2, Became(t) DEF Became
  <2>5. \A k \in Thread : /\ thread'[k] = "nullptr" => failed[k] /\ tpc[k] = "over"
                          /\ thread'[k] = "new" => running[k] /\ ~failed[k]
    BY ONLY <2>3, <2>4
  <2> QED BY <2>5, <1>2 DEF NullMeansOver
<1> QED BY <1>6, <1>7, <1>8, <1>9, <1>10 DEF Inv

(* A thread's step, before it is over, changes what its pointer means for  *)
(* no thread.                                                              *)
LEMMA NullKept ==
  ASSUME Inv, NEW k \in Thread, tpc[k] # "over", UNCHANGED thread,
         \A j \in Thread \ {k} : /\ tpc'[j] = tpc[j]
                                 /\ running'[j] <=> running[j]
                                 /\ failed'[j] <=> failed[j],
         running[k] /\ ~failed[k] => running'[k] /\ ~failed'[k]
  PROVE  NullMeansOver'
<1> SUFFICES ASSUME NEW j \in Thread
             PROVE  /\ thread[j] = "nullptr" => failed'[j] /\ tpc'[j] = "over"
                    /\ thread[j] = "new" => running'[j] /\ ~failed'[j]
  BY DEF NullMeansOver
<1>1. /\ thread[j] = "nullptr" => failed[j] /\ tpc[j] = "over"
      /\ thread[j] = "new" => running[j] /\ ~failed[j]
  BY DEF Inv, NullMeansOver
<1>2. CASE j = k
  BY ONLY <1>1, <1>2, tpc[k] # "over", running[k] /\ ~failed[k] => running'[k] /\ ~failed'[k]
<1>3. CASE j # k
  <2>1. tpc'[j] = tpc[j] /\ (running'[j] <=> running[j]) /\ (failed'[j] <=> failed[j])
    BY <1>3
  <2> QED BY ONLY <1>1, <2>1
<1> QED BY <1>2, <1>3

(* Every step of the creator and of a thread keeps the invariant. *)
LEMMA NextInv == Inv /\ [Next]_vars => Inv'
<1> SUFFICES ASSUME Inv, [Next]_vars PROVE Inv'
  OBVIOUS
<1>0. Creating => call \in Thread
  BY DEF Inv, CallInRange
<1>1. CASE Spawn
  <2>1. TypeOK'
    BY <1>0, <1>1 DEF Inv, TypeOK, Spawn, Creating
  <2>2. CallInRange'
    BY <1>0, <1>1 DEF Inv, CallInRange, Spawn, Creating
  <2>3. NotStarted'
    BY <1>0, <1>1, Numbers DEF Inv, NotStarted, TypeOK, Spawn, Creating
  <2>4. Flags'
    <3>1. tpc[call] = "none" /\ call \in Thread
      BY <1>0, <1>1 DEF Inv, NotStarted, Spawn, Creating
    <3>2. tpc' = [tpc EXCEPT ![call] = "pin"] /\ UNCHANGED <<running, failed>>
      BY <1>1 DEF Spawn
    <3> QED BY <3>1, <3>2 DEF Inv, Flags, TypeOK
  <2>5. Reports'
    BY <1>0, <1>1 DEF Inv, Reports, Flags, Past, TypeOK, Spawn, Creating
  <2>6. NullMeansOver'
    BY <1>0, <1>1 DEF Inv, NullMeansOver, Flags, NotStarted, TypeOK, Spawn, Creating
  <2> QED BY <2>1, <2>2, <2>3, <2>4, <2>5, <2>6 DEF Inv
<1>2. CASE LeavePoll
  <2>1. TypeOK'
    BY <1>0, <1>2 DEF Inv, TypeOK, LeavePoll, Reported, Creating
  <2>2. CallInRange'
    BY <1>0, <1>2 DEF Inv, CallInRange, LeavePoll, Reported, Creating
  <2>3. NotStarted'
    BY <1>0, <1>2 DEF Inv, NotStarted, TypeOK, LeavePoll, Reported, Creating
  <2>4. Flags'
    BY <1>0, <1>2 DEF Inv, Flags, TypeOK, LeavePoll, Reported, Creating
  <2>5. Reports'
    BY <1>0, <1>2 DEF Inv, Reports, Flags, Past, TypeOK, LeavePoll, Reported, Creating
  <2>6. NullMeansOver'
    BY <1>0, <1>2 DEF Inv, NullMeansOver, Flags, NotStarted, TypeOK, LeavePoll, Reported, Creating
  <2> QED BY <2>1, <2>2, <2>3, <2>4, <2>5, <2>6 DEF Inv
<1>3. CASE ReturnStarted
  <2>1. Return("new") /\ mpc = "started"
    BY <1>3 DEF ReturnStarted
  <2>2. Became("new")
    BY <2>1 DEF Became, Inv, Reports
  <2> QED BY <2>1, <2>2, ReturnInv
<1>4. CASE ReturnFailed
  <2>1. Return("nullptr") /\ mpc = "join failed"
    BY <1>4 DEF ReturnFailed
  <2>2. Became("nullptr")
    BY <1>4 DEF Became, ReturnFailed, Over, Inv, Reports
  <2> QED BY <2>1, <2>2, ReturnInv
<1>5. CASE Join
  <2>1. UNCHANGED <<thread, tpc, running, failed, args, seen>> /\ mpc = "join"
    BY <1>5 DEF Join
  <2>2. mpc' \in {"done", "segv", "join"}
    BY <1>5 DEF Join
  <2>3. call' \in 1 .. Calls + 1
    <3>1. call \in 1 .. Calls + 1
      BY DEF Inv, TypeOK
    <3>2. call' = call \/ (call' = call + 1 /\ ~(call > Calls))
      BY <1>5 DEF Join, Following
    <3> QED BY ONLY <3>1, <3>2, NextJoin
  <2>4. ~Creating /\ ~Creating'
    BY ONLY <2>1, <2>2 DEF Creating
  <2>5. TypeOK'
    BY <2>1, <2>2, <2>3 DEF Inv, TypeOK
  <2>6. Flags' /\ NullMeansOver'
    BY <2>1 DEF Inv, Flags, NullMeansOver
  <2>7. CallInRange' /\ NotStarted'
    BY ONLY <2>4 DEF CallInRange, NotStarted
  <2>8. Reports'
    BY <2>1, <2>2, <2>4 DEF Inv, Reports, Past
  <2> QED BY <2>5, <2>6, <2>7, <2>8 DEF Inv
<1>6. ASSUME NEW k \in Thread, Body(k) PROVE Inv'
  <2>1. CASE Pin(k)
    <3>1. PICK next \in {"run", "fail"} : tpc' = [tpc EXCEPT ![k] = next]
      BY <2>1 DEF Pin
    <3>2. /\ tpc[k] = "pin"
          /\ UNCHANGED <<mpc, call, thread, running, failed, args, seen>>
      BY <2>1 DEF Pin
    <3>3. TypeOK'
      BY <1>0, <3>1, <3>2 DEF Inv, TypeOK
    <3>4. CallInRange'
      BY <1>0, <3>1, <3>2 DEF Inv, CallInRange, Creating
    <3>5. NotStarted'
      BY <1>0, <3>1, <3>2 DEF Inv, NotStarted, Creating, TypeOK
    <3>6. Flags'
      BY <1>0, <3>1, <3>2 DEF Inv, Flags, TypeOK
    <3>7. Reports'
      BY <1>0, <3>1, <3>2 DEF Inv, Reports, Flags, Past, Creating, TypeOK
    <3>8. NullMeansOver'
      <4>1. tpc[k] # "over" /\ UNCHANGED thread
        BY <3>1, <3>2
      <4>2. \A j \in Thread \ {k} : tpc'[j] = tpc[j]
        BY <3>1, <3>2 DEF Inv, TypeOK
      <4>3. \A j \in Thread \ {k} : running'[j] <=> running[j]
        BY <3>1, <3>2 DEF Inv, TypeOK
      <4>4. \A j \in Thread \ {k} : failed'[j] <=> failed[j]
        BY <3>1, <3>2 DEF Inv, TypeOK
      <4>5. running[k] /\ ~failed[k] => running'[k] /\ ~failed'[k]
        BY <3>1, <3>2 DEF Inv, TypeOK, Flags
      <4> QED BY <4>1, <4>2, <4>3, <4>4, <4>5, NullKept
    <3> QED BY <3>3, <3>4, <3>5, <3>6, <3>7, <3>8 DEF Inv
  <2>2. CASE ReportFailure(k)
    <3>1. TypeOK'
      BY <1>0, <2>2 DEF Inv, TypeOK, ReportFailure, FailureFlag
    <3>2. CallInRange'
      BY <1>0, <2>2 DEF Inv, CallInRange, Creating, ReportFailure, FailureFlag
    <3>3. NotStarted'
      BY <1>0, <2>2 DEF Inv, NotStarted, Creating, TypeOK, ReportFailure, FailureFlag
    <3>4. Flags'
      BY <1>0, <2>2 DEF Inv, Flags, TypeOK, ReportFailure, FailureFlag
    <3>5. Reports'
      BY <1>0, <2>2 DEF Inv, Reports, Flags, Past, Creating, TypeOK, ReportFailure, FailureFlag
    <3>6. NullMeansOver'
      <4>1. tpc[k] # "over" /\ UNCHANGED thread
        BY <2>2 DEF ReportFailure, FailureFlag
      <4>2. \A j \in Thread \ {k} : tpc'[j] = tpc[j]
        BY <2>2 DEF Inv, TypeOK, ReportFailure, FailureFlag
      <4>3. \A j \in Thread \ {k} : running'[j] <=> running[j]
        BY <2>2 DEF Inv, TypeOK, ReportFailure, FailureFlag
      <4>4. \A j \in Thread \ {k} : failed'[j] <=> failed[j]
        BY <2>2 DEF Inv, TypeOK, ReportFailure, FailureFlag
      <4>5. running[k] /\ ~failed[k] => running'[k] /\ ~failed'[k]
        BY <2>2 DEF Inv, TypeOK, Flags, ReportFailure, FailureFlag
      <4> QED BY <4>1, <4>2, <4>3, <4>4, <4>5, NullKept
    <3> QED BY <3>1, <3>2, <3>3, <3>4, <3>5, <3>6 DEF Inv
  <2>3. CASE ReportRunning(k)
    <3>1. TypeOK'
      BY <1>0, <2>3 DEF Inv, TypeOK, ReportRunning
    <3>2. CallInRange'
      BY <1>0, <2>3 DEF Inv, CallInRange, Creating, ReportRunning
    <3>3. NotStarted'
      BY <1>0, <2>3 DEF Inv, NotStarted, Creating, TypeOK, ReportRunning
    <3>4. Flags'
      BY <1>0, <2>3 DEF Inv, Flags, TypeOK, ReportRunning
    <3>5. Reports'
      BY <1>0, <2>3 DEF Inv, Reports, Flags, Past, Creating, TypeOK, ReportRunning
    <3>6. NullMeansOver'
      <4>1. tpc[k] # "over" /\ UNCHANGED thread
        BY <2>3 DEF ReportRunning
      <4>2. \A j \in Thread \ {k} : tpc'[j] = tpc[j]
        BY <2>3 DEF Inv, TypeOK, ReportRunning
      <4>3. \A j \in Thread \ {k} : running'[j] <=> running[j]
        BY <2>3 DEF Inv, TypeOK, ReportRunning
      <4>4. \A j \in Thread \ {k} : failed'[j] <=> failed[j]
        BY <2>3 DEF Inv, TypeOK, ReportRunning
      <4>5. running[k] /\ ~failed[k] => running'[k] /\ ~failed'[k]
        BY <2>3 DEF Inv, TypeOK, Flags, ReportRunning
      <4> QED BY <4>1, <4>2, <4>3, <4>4, <4>5, NullKept
    <3> QED BY <3>1, <3>2, <3>3, <3>4, <3>5, <3>6 DEF Inv
  <2>4. CASE CallFunc(k)
    <3>1. TypeOK'
      BY <1>0, <2>4 DEF Inv, TypeOK, CallFunc
    <3>2. CallInRange'
      BY <1>0, <2>4 DEF Inv, CallInRange, Creating, CallFunc
    <3>3. NotStarted'
      BY <1>0, <2>4 DEF Inv, NotStarted, Creating, TypeOK, CallFunc
    <3>4. Flags'
      BY <1>0, <2>4 DEF Inv, Flags, TypeOK, CallFunc
    <3>5. Reports'
      BY <1>0, <2>4 DEF Inv, Reports, Flags, Past, Creating, TypeOK, CallFunc
    <3>6. NullMeansOver'
      <4>1. tpc[k] # "over" /\ UNCHANGED thread
        BY <2>4 DEF CallFunc
      <4>2. \A j \in Thread \ {k} : tpc'[j] = tpc[j]
        BY <2>4 DEF Inv, TypeOK, CallFunc
      <4>3. \A j \in Thread \ {k} : running'[j] <=> running[j]
        BY <2>4 DEF Inv, TypeOK, CallFunc
      <4>4. \A j \in Thread \ {k} : failed'[j] <=> failed[j]
        BY <2>4 DEF Inv, TypeOK, CallFunc
      <4>5. running[k] /\ ~failed[k] => running'[k] /\ ~failed'[k]
        BY <2>4 DEF Inv, TypeOK, Flags, CallFunc
      <4> QED BY <4>1, <4>2, <4>3, <4>4, <4>5, NullKept
    <3> QED BY <3>1, <3>2, <3>3, <3>4, <3>5, <3>6 DEF Inv
  <2>5. CASE Finish(k)
    <3>1. TypeOK'
      BY <1>0, <2>5 DEF Inv, TypeOK, Finish
    <3>2. CallInRange'
      BY <1>0, <2>5 DEF Inv, CallInRange, Creating, Finish
    <3>3. NotStarted'
      BY <1>0, <2>5 DEF Inv, NotStarted, Creating, TypeOK, Finish
    <3>4. Flags'
      BY <1>0, <2>5 DEF Inv, Flags, TypeOK, Finish
    <3>5. Reports'
      BY <1>0, <2>5 DEF Inv, Reports, Flags, Past, Creating, TypeOK, Finish
    <3>6. NullMeansOver'
      <4>1. tpc[k] # "over" /\ UNCHANGED thread
        BY <2>5 DEF Finish
      <4>2. \A j \in Thread \ {k} : tpc'[j] = tpc[j]
        BY <2>5 DEF Inv, TypeOK, Finish
      <4>3. \A j \in Thread \ {k} : running'[j] <=> running[j]
        BY <2>5 DEF Inv, TypeOK, Finish
      <4>4. \A j \in Thread \ {k} : failed'[j] <=> failed[j]
        BY <2>5 DEF Inv, TypeOK, Finish
      <4>5. running[k] /\ ~failed[k] => running'[k] /\ ~failed'[k]
        BY <2>5 DEF Inv, TypeOK, Flags, Finish
      <4> QED BY <4>1, <4>2, <4>3, <4>4, <4>5, NullKept
    <3> QED BY <3>1, <3>2, <3>3, <3>4, <3>5, <3>6 DEF Inv
  <2> QED BY <1>6, <2>1, <2>2, <2>3, <2>4, <2>5 DEF Body
<1>7. CASE UNCHANGED vars
  BY <1>7 DEF vars, Inv, TypeOK, CallInRange, NotStarted, Flags, Reports, NullMeansOver,
              Creating, Past
<1> QED BY <1>1, <1>2, <1>3, <1>4, <1>5, <1>6, <1>7 DEF Next, Creator

(* The invariant holds in every state of the program. *)
LEMMA Invariance == Spec => []Inv
BY InitInv, NextInv, PTL DEF Spec

(* The variables keep their types. *)
THEOREM StartTypeCorrect == Spec => []TypeOK
<1>1. Inv => TypeOK
  BY DEF Inv
<1> QED BY <1>1, Invariance, PTL

(* A thread that still has to report is one whose creator is still in the  *)
(* call: it has not been past it, and it has been started.                 *)
THEOREM FrameIsThere == Spec => []FrameOutlivesUse
<1>1. ASSUME Inv, NEW k \in Thread,
             tpc[k] \in {"pin", "run"} \/ (tpc[k] = "fail" /\ ~failed[k])
      PROVE  InFrame(k)
  <2>1. ~running[k] /\ ~failed[k]
    BY <1>1 DEF Inv, Flags
  <2>2. Creating /\ ~(k < call)
    BY <1>1, <2>1 DEF Inv, Reports, Past
  <2>3. ~(k > call)
    BY <1>1, <2>2 DEF Inv, NotStarted
  <2>4. k = call
    BY <2>2, <2>3, <1>1, Numbers DEF Inv
  <2> QED BY <2>2, <2>4 DEF InFrame, Creating
<1>2. Inv => FrameOutlivesUse
  BY <1>1 DEF FrameOutlivesUse
<1> QED BY <1>2, Invariance, PTL

(* createAndStartThread() returns null for exactly the threads that could  *)
(* not be pinned, after they are over.                                     *)
THEOREM NullIsHonest == Spec => []NullMeansOver
<1>1. Inv => NullMeansOver
  BY DEF Inv
<1> QED BY <1>1, Invariance, PTL

=============================================================================

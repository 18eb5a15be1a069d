----------------------------- MODULE ThreadStart -----------------------------
(***************************************************************************)
(* createAndStartThread() of thread_utils.h, and a main() that starts      *)
(* threads with it one after the other and then joins them all, as         *)
(* multithreding-low-latency/multithreding.cpp and                         *)
(* lock-free-queue/program.cpp do.                                         *)
(*                                                                         *)
(* The new thread's closure captures everything by reference: core_id,     *)
(* name, running and failed live in createAndStartThread's frame, func and *)
(* args are temporaries of the statement that called it.  All of them are  *)
(* gone when the call returns, and the memory of the temporaries then      *)
(* holds what it held or anything else.                                    *)
(***************************************************************************)
EXTENDS Integers

CONSTANTS
  Calls,   (* number of threads main starts                          *)
  Pinned   (* the calls with core_id >= 0, whose pinning may fail    *)

ASSUME CallsAssumption  == Calls \in Nat \ {0}
ASSUME PinnedAssumption == Pinned \subseteq 1 .. Calls

VARIABLES
  mpc,      (* what the creator does                                  *)
  call,     (* the call, or later the join, it is at                  *)
  thread,   (* the std::thread pointer each call returned             *)
  tpc,      (* what each thread does                                  *)
  running, failed,
  args,     (* what the references to the arguments lead to           *)
  seen      (* the arguments each thread's function was called with   *)

vars == <<mpc, call, thread, tpc, running, failed, args, seen>>

Thread == 1 .. Calls

TypeOK ==
  /\ mpc \in {"start", "poll", "started", "join failed", "join", "done", "segv"}
  /\ call \in 1 .. Calls + 1
  /\ thread \in [Thread -> {"none", "new", "nullptr"}]
  /\ tpc \in [Thread -> {"none", "pin", "fail", "run", "call", "body", "over"}]
  /\ running \in [Thread -> BOOLEAN]
  /\ failed \in [Thread -> BOOLEAN]
  /\ args \in [Thread -> {"given", "garbage"}]
  /\ seen \in [Thread -> {"nothing", "given", "garbage"}]

Init ==
  /\ mpc = "start"
  /\ call = 1
  /\ thread = [k \in Thread |-> "none"]
  /\ tpc = [k \in Thread |-> "none"]
  /\ running = [k \in Thread |-> FALSE]
  /\ failed = [k \in Thread |-> FALSE]
  /\ args = [k \in Thread |-> "given"]
  /\ seen = [k \in Thread |-> "nothing"]

(* The frame and the temporaries of call k exist. *)
InFrame(k) == call = k /\ mpc \in {"start", "poll", "started", "join failed"}

-----------------------------------------------------------------------------
(* Plausible bugs. *)

FollowingSkips(k)   == k + 2   (* a call is skipped, or two              *)
ReportedSpawned     == TRUE    (* the creator does not wait              *)
OverAnyway(k)       == TRUE    (* the thread is deleted without a join   *)
FailureFlagDropped  == FALSE   (* the thread leaves without a word       *)

-----------------------------------------------------------------------------
(* The creator. *)

(* new std::thread(thread_body) *)
Spawn ==
  /\ mpc = "start"
  /\ tpc' = [tpc EXCEPT ![call] = "pin"]
  /\ mpc' = "poll"
  /\ UNCHANGED <<call, thread, running, failed, args, seen>>

Reported == running[call] \/ failed[call]

(* while(!running && !failed) is left.  Until then it sleeps. *)
LeavePoll ==
  /\ mpc = "poll"
  /\ Reported
  /\ mpc' = IF failed[call] THEN "join failed" ELSE "started"
  /\ UNCHANGED <<call, thread, tpc, running, failed, args, seen>>

Following(k) == k + 1

(* The call returns t: main goes on to the next call, or to the joins.     *)
Return(t) ==
  /\ thread' = [thread EXCEPT ![call] = t]
  /\ \E a \in {args[call], "garbage"} : args' = [args EXCEPT ![call] = a]
  /\ call' = IF call = Calls THEN 1 ELSE Following(call)
  /\ mpc' = IF call = Calls THEN "join" ELSE "start"
  /\ UNCHANGED <<tpc, running, failed, seen>>

ReturnStarted == mpc = "started" /\ Return("new")

Over(k) == tpc[k] = "over"

(* t->join(), delete t, nullptr *)
ReturnFailed == mpc = "join failed" /\ Over(call) /\ Return("nullptr")

(* main: t->join(), with no test of t. *)
Join ==
  /\ mpc = "join"
  /\ IF call > Calls
       THEN mpc' = "done" /\ UNCHANGED call
       ELSE IF thread[call] = "nullptr"
         THEN mpc' = "segv" /\ UNCHANGED call
         ELSE tpc[call] = "over" /\ call' = Following(call) /\ UNCHANGED mpc
  /\ UNCHANGED <<thread, tpc, running, failed, args, seen>>

Creator == Spawn \/ LeavePoll \/ ReturnStarted \/ ReturnFailed \/ Join

-----------------------------------------------------------------------------
(* The thread body. *)

(* setThreadCore(core_id), for a thread that is to be pinned. *)
Pin(k) ==
  /\ tpc[k] = "pin"
  /\ \E next \in {"run"} \cup (IF k \in Pinned THEN {"fail"} ELSE {}) :
       tpc' = [tpc EXCEPT ![k] = next]
  /\ UNCHANGED <<mpc, call, thread, running, failed, args, seen>>

FailureFlag == TRUE

(* failed = true; return *)
ReportFailure(k) ==
  /\ tpc[k] = "fail"
  /\ ~failed[k]
  /\ failed' = [failed EXCEPT ![k] = FailureFlag]
  /\ UNCHANGED <<mpc, call, thread, tpc, running, args, seen>>

(* running = true *)
ReportRunning(k) ==
  /\ tpc[k] = "run"
  /\ running' = [running EXCEPT ![k] = TRUE]
  /\ tpc' = [tpc EXCEPT ![k] = "call"]
  /\ UNCHANGED <<mpc, call, thread, failed, args, seen>>

(* std::forward<T>(func)(std::forward<A>(args)...): the references are     *)
(* followed here.                                                          *)
CallFunc(k) ==
  /\ tpc[k] = "call"
  /\ seen' = [seen EXCEPT ![k] = args[k]]
  /\ tpc' = [tpc EXCEPT ![k] = "body"]
  /\ UNCHANGED <<mpc, call, thread, running, failed, args>>

(* The function, or a failed thread's body, returns. *)
Finish(k) ==
  /\ tpc[k] = "body" \/ (tpc[k] = "fail" /\ failed[k])
  /\ tpc' = [tpc EXCEPT ![k] = "over"]
  /\ UNCHANGED <<mpc, call, thread, running, failed, args, seen>>

Body(k) == mpc # "segv" /\ (Pin(k) \/ ReportFailure(k) \/ ReportRunning(k)
                              \/ CallFunc(k) \/ Finish(k))

Next == Creator \/ \E k \in Thread : Body(k)

Spec == Init /\ [][Next]_vars

(* Running threads of the operating system; the functions they run end.    *)
FairSpec == Spec /\ WF_vars(Creator) /\ \A k \in Thread : WF_vars(Body(k))

-----------------------------------------------------------------------------
(* Properties. *)

(* The flags, the core number and the name the thread uses are still       *)
(* there: the creator's frame outlives the thread's last access to it.     *)
FrameOutlivesUse ==
  \A k \in Thread : tpc[k] \in {"pin", "run"} \/ (tpc[k] = "fail" /\ ~failed[k])
                      => InFrame(k)

(* nullptr is returned for exactly the threads that could not be pinned,   *)
(* and such a thread is over before its std::thread is deleted.            *)
NullMeansOver ==
  \A k \in Thread :
    /\ thread[k] = "nullptr" => failed[k] /\ tpc[k] = "over"
    /\ thread[k] = "new" => running[k] /\ ~failed[k]

(* Every call returns, and main gets through its joins unless one of the   *)
(* pointers is null.                                                       *)
MainEnds == <>(mpc = "done" \/ (mpc = "segv" /\ \E k \in Thread : failed[k]))

(* multithreding.cpp:18-19: dummyFunction is started with 12, 21, false    *)
(* and with 15, 51, true, and prints what it was given (lines 5-6): a      *)
(* thread's function is called with the arguments of the call.             *)
SeesItsArguments == \A k \in Thread : seen[k] # "garbage"

=============================================================================

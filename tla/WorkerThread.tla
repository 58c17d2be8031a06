---------------------------- MODULE WorkerThread ----------------------------
(***************************************************************************)
(* The class Thread of the test program (src/Main.cpp): a thread that runs *)
(* the functions another one hands over, one at a time, through two        *)
(* mutexes and two condition variables.  Handing one over waits until the  *)
(* one before has run; the destructor hands over a null function.          *)
(*                                                                         *)
(* The thread that hands over is the caller, the one that runs them the    *)
(* worker.  Functions and their values are numbered by the call that hands *)
(* them over; 0 is nullptr and Value{}.  Every use in the test program     *)
(* waits between the last call and the destructor, and so does the caller  *)
(* here.  A wait on a condition variable may also end for no reason.       *)
(***************************************************************************)
EXTENDS Integers, Sequences

CONSTANT MaxCall   \* bound: how many functions are handed to one Thread

ASSUME WorkerAssumption == MaxCall \in Nat

Function == 0 .. MaxCall

VARIABLES
  mb,              \* the worker is to go on
  mf,              \* the function handed over, 0 when it has run
  mv,              \* its value
  mMutexWait,      \* who holds it, or "none"
  mMutexCall,      \* who holds it, or "none"
  pcCaller,
  pcWorker,
  op,              \* what the caller does: "call", "wait" or "destroy"
  b, f,            \* locals of Work, which outlive the round of its loop
  nCall,           \* history: how many functions have been handed over
  ran,             \* history: what the worker has run, as <<function, value>>
  waited           \* history: nothing has been handed over since the last Wait

object == <<mb, mf, mv>>
mutexes == <<mMutexWait, mMutexCall>>
history == <<nCall, ran, waited>>
vars == <<object, mutexes, pcCaller, pcWorker, op, b, f, history>>

Init ==
  /\ mb = FALSE /\ mf = 0 /\ mv = 0
  /\ mMutexWait = "none" /\ mMutexCall = "none"
  /\ pcCaller = "none" /\ pcWorker = "end" /\ op = "wait"
  /\ b = FALSE /\ f = 0
  /\ nCall = 0 /\ ran = <<>> /\ waited = FALSE

-----------------------------------------------------------------------------
(* The caller.                                                             *)

(* Thread::Thread; the locals of Work are not initialized.                 *)
Construct ==
  /\ pcCaller = "none"
  /\ mb' = TRUE /\ mf' = 0 /\ mv' = 0
  /\ pcCaller' = "idle" /\ pcWorker' = "lock"
  /\ b' \in BOOLEAN /\ f' \in Function
  /\ nCall' = 0 /\ ran' = <<>> /\ waited' = FALSE
  /\ UNCHANGED <<mutexes, op>>

(* Call and Wait begin alike: Call starts with a Wait.                     *)
Begin ==
  /\ pcCaller = "idle"
  /\ op' \in {"call", "wait"}
  /\ op' = "call" => nCall < MaxCall
  /\ pcCaller' = "lock"
  /\ UNCHANGED <<object, mutexes, pcWorker, b, f, history>>

(* Thread::~Thread, up to the Call of the null function.                   *)
Destroy ==
  /\ pcCaller = "idle" /\ waited
  /\ mb' = FALSE
  /\ op' = "destroy"
  /\ pcCaller' = "lock"
  /\ UNCHANGED <<mf, mv, mutexes, pcWorker, b, f, history>>

WaitLock ==
  /\ pcCaller = "lock" /\ mMutexWait = "none"
  /\ mMutexWait' = "caller"
  /\ pcCaller' = "check"
  /\ UNCHANGED <<object, mMutexCall, pcWorker, op, b, f, history>>

(* Variant: a function is handed over whatever the worker does.            *)
HasRunAnyway(n) == TRUE

(* while (mf) ...                                                          *)
HasRun(n) == n = 0

(* The condition of Wait's loop; the lock is kept for the sleep.           *)
WaitCheck ==
  /\ pcCaller = "check"
  /\ \/ /\ HasRun(mf)
        /\ mMutexWait' = "none"
        /\ pcCaller' = IF op = "wait" THEN "idle" ELSE "handing"
        /\ waited' = (waited \/ op = "wait")
     \/ /\ ~HasRun(mf)
        /\ pcCaller' = "sleep"
        /\ UNCHANGED <<mMutexWait, waited>>
  /\ UNCHANGED <<object, mMutexCall, pcWorker, op, b, f, nCall, ran>>

(* mWait.wait: releases the mutex and sleeps.                              *)
WaitSleep ==
  /\ pcCaller = "sleep"
  /\ mMutexWait' = "none"
  /\ pcCaller' = "asleep"
  /\ UNCHANGED <<object, mMutexCall, pcWorker, op, b, f, history>>

(* The second half of Call, under mMutexCall: the function, its value and  *)
(* the notification; the destructor then joins the thread.                 *)
Hand ==
  LET n == IF op = "call" THEN nCall + 1 ELSE 0
  IN /\ pcCaller = "handing" /\ mMutexCall = "none"
     /\ mf' = n /\ mv' = n
     /\ pcWorker' = IF pcWorker = "asleep" THEN "lock" ELSE pcWorker
     /\ pcCaller' = IF op = "call" THEN "idle" ELSE "join"
     /\ nCall' = IF op = "call" THEN n ELSE nCall
     /\ waited' = (waited /\ op # "call")
     /\ UNCHANGED <<mb, mutexes, op, b, f, ran>>

Join ==
  /\ pcCaller = "join" /\ pcWorker = "end"
  /\ pcCaller' = "none"
  /\ UNCHANGED <<object, mutexes, pcWorker, op, b, f, history>>

CallerStep == WaitCheck \/ WaitSleep \/ Join

-----------------------------------------------------------------------------
(* The worker: Thread::Work.                                               *)

WorkLock ==
  /\ pcWorker = "lock" /\ mMutexCall = "none"
  /\ mMutexCall' = "worker"
  /\ pcWorker' = "look"
  /\ UNCHANGED <<object, mMutexWait, pcCaller, op, b, f, history>>

(* The condition of the loop: f is read only while b is true.              *)
WorkLook ==
  /\ pcWorker = "look"
  /\ b' = mb
  /\ f' = IF mb THEN mf ELSE f
  /\ \/ /\ mb /\ mf = 0
        /\ pcWorker' = "nap"
        /\ UNCHANGED mMutexCall
     \/ /\ ~mb \/ mf # 0
        /\ pcWorker' = "run"
        /\ mMutexCall' = "none"
  /\ UNCHANGED <<object, mMutexWait, pcCaller, op, history>>

(* mCall.wait: releases the mutex and sleeps.                              *)
WorkNap ==
  /\ pcWorker = "nap"
  /\ mMutexCall' = "none"
  /\ pcWorker' = "asleep"
  /\ UNCHANGED <<object, mMutexWait, pcCaller, op, b, f, history>>

(* The function is called with the value that is there by now.             *)
WorkRun ==
  /\ pcWorker = "run"
  /\ \/ /\ f # 0
        /\ ran' = Append(ran, <<f, mv>>)
        /\ pcWorker' = "clear"
     \/ /\ f = 0
        /\ pcWorker' = "tell"
        /\ UNCHANGED ran
  /\ UNCHANGED <<object, mutexes, pcCaller, op, b, f, nCall, waited>>

WorkClear ==
  /\ pcWorker = "clear"
  /\ mf' = 0
  /\ pcWorker' = "tell"
  /\ UNCHANGED <<mb, mv, mutexes, pcCaller, op, b, f, history>>

(* Variant: mWait is notified without its mutex.                           *)
MayTellAnyway(holder) == TRUE

(* std::lock_guard Lock(mMutexWait)                                        *)
MayTell(holder) == holder = "none"

WorkTell ==
  /\ pcWorker = "tell" /\ MayTell(mMutexWait)
  /\ pcCaller' = IF pcCaller = "asleep" THEN "lock" ELSE pcCaller
  /\ pcWorker' = IF b THEN "lock" ELSE "end"
  /\ UNCHANGED <<object, mutexes, op, b, f, history>>

WorkerStep == WorkLook \/ WorkNap \/ WorkRun \/ WorkClear

-----------------------------------------------------------------------------
(* A wait that ends without a notification.                                *)
Spurious ==
  /\ \/ pcCaller = "asleep" /\ pcCaller' = "lock" /\ UNCHANGED pcWorker
     \/ pcWorker = "asleep" /\ pcWorker' = "lock" /\ UNCHANGED pcCaller
  /\ UNCHANGED <<object, mutexes, op, b, f, history>>

Next ==
  \/ Construct \/ Begin \/ Destroy
  \/ WaitLock \/ Hand \/ CallerStep
  \/ WorkLock \/ WorkTell \/ WorkerStep
  \/ Spurious

Spec == Init /\ [][Next]_vars

(* Both threads run, and a mutex that comes free again and again is        *)
(* obtained in the end; nothing is assumed of wake-ups for no reason.      *)
Fairness ==
  /\ WF_vars(CallerStep) /\ WF_vars(WorkerStep)
  /\ SF_vars(WaitLock) /\ SF_vars(Hand) /\ SF_vars(WorkLock) /\ SF_vars(WorkTell)

FairSpec == Spec /\ Fairness

-----------------------------------------------------------------------------
(* The functions run in the order in which they were handed over, each     *)
(* with its own value and none twice, as long as the destructor has not    *)
(* begun; and a caller that has waited finds them all run.                 *)
Handover ==
  /\ mb => /\ Len(ran) <= nCall
           /\ \A i \in DOMAIN ran : ran[i] = <<i, i>>
  /\ waited => Len(ran) >= nCall

(* No wake-up is lost: Call, Wait and the destructor return.               *)
CallsReturn == pcCaller \notin {"idle", "none"} ~> pcCaller \in {"idle", "none"}
=============================================================================

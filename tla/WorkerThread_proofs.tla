------------------------ MODULE WorkerThread_proofs -------------------------
(***************************************************************************)
(* The hand-over of work in the test program's Thread is right for any     *)
(* number of calls.  The argument needs no mutex: a function is handed     *)
(* over only when mf is null, only the worker makes it null, and it does   *)
(* so after the run.                                                       *)
(***************************************************************************)
EXTENDS WorkerThread, SequenceTheorems, TLAPS

Types ==
  /\ mb \in BOOLEAN /\ waited \in BOOLEAN
  /\ mf \in Nat /\ mv \in Nat /\ f \in Nat /\ nCall \in Nat
  /\ ran \in Seq(Nat \X Nat)

(* What the caller is doing, and what it knows of mb and mf.               *)
CallerInv ==
  /\ pcCaller \in {"lock", "check", "sleep", "asleep", "handing"} => (mb <=> op # "destroy")
  /\ pcCaller = "idle" => mb
  /\ pcCaller \in {"none", "join"} => ~mb
  /\ pcCaller = "handing" => mf = 0 /\ op # "wait"
  /\ pcCaller \in {"lock", "check", "sleep", "asleep", "handing", "join"}
       => op \in {"call", "wait", "destroy"}

(* The function in mf is the last one handed over, and the only one that   *)
(* may still have to run; until it has, the worker is about to run it.     *)
WorkInv ==
  mb => /\ mf # 0 => mf = nCall /\ mv = nCall
        /\ pcWorker \in {"run", "clear"} => f = mf /\ mf # 0
        /\ Len(ran) = IF mf # 0 /\ pcWorker # "clear" THEN nCall - 1 ELSE nCall
        /\ \A i \in 1 .. Len(ran) : ran[i] = <<i, i>>

WaitedInv == waited => Len(ran) >= nCall

(* The inductive invariant.                                                *)
HandInv == Types /\ CallerInv /\ WorkInv /\ WaitedInv

(* Initially there is no Thread.                                           *)
LEMMA HandInit == Init => HandInv
<1> SUFFICES ASSUME Init PROVE HandInv
  OBVIOUS
<1>1. Types
  BY EmptySeq DEF Init, Types
<1>2. CallerInv
  BY DEF Init, CallerInv
<1>3. WorkInv
  BY DEF Init, WorkInv
<1>4. WaitedInv
  BY DEF Init, WaitedInv
<1> QED BY <1>1, <1>2, <1>3, <1>4 DEF HandInv

(* What the caller does leaves the work in order.                          *)
LEMMA CallerKeeps ==
  ASSUME HandInv,
         \/ Construct \/ Begin \/ Destroy \/ WaitLock \/ Hand \/ CallerStep
  PROVE  HandInv'
<1> USE DEF HandInv, Types, CallerInv, WorkInv, WaitedInv, object, mutexes, history
<1>1. CASE Construct
  <2>1. Types'
    <3>1. f' \in Nat
      BY <1>1, WorkerAssumption DEF Construct, Function
    <3>2. <<>> \in Seq(Nat \X Nat)
      BY EmptySeq
    <3> QED BY <1>1, <3>1, <3>2 DEF Construct
  <2>2. CallerInv'
    BY <1>1 DEF Construct
  <2>3. Len(ran') = 0
    BY <1>1, EmptySeq DEF Construct
  <2>4. WorkInv'
    BY <1>1, <2>3 DEF Construct
  <2>5. WaitedInv'
    BY <1>1 DEF Construct
  <2> QED BY <2>1, <2>2, <2>4, <2>5
<1>2. CASE Begin
  <2>1. Types'
    BY <1>2 DEF Begin
  <2>2. CallerInv'
    BY <1>2 DEF Begin
  <2>3. WorkInv'
    BY <1>2 DEF Begin
  <2>4. WaitedInv'
    BY <1>2 DEF Begin
  <2> QED BY <2>1, <2>2, <2>3, <2>4
<1>3. CASE Destroy
  BY <1>3 DEF Destroy
<1>4. CASE WaitLock
  BY <1>4 DEF WaitLock
<1>5. CASE Hand
  <2>1. Types'
    BY <1>5 DEF Hand
  <2>2. CallerInv'
    BY <1>5 DEF Hand
  <2>3. WorkInv'
    BY <1>5 DEF Hand
  <2>4. WaitedInv'
    BY <1>5 DEF Hand
  <2> QED BY <2>1, <2>2, <2>3, <2>4
<1>6. CASE WaitCheck
  <2>1. Types'
    BY <1>6 DEF WaitCheck
  <2>2. CallerInv'
    BY <1>6 DEF WaitCheck, HasRun
  <2>3. WorkInv'
    BY <1>6 DEF WaitCheck
  <2>4. WaitedInv'
    <3>1. CASE op = "wait" /\ mf = 0
      <4>1. mb
        BY <1>6, <3>1 DEF WaitCheck
      <4>2. Len(ran) = nCall
        BY <3>1, <4>1
      <4> QED BY <1>6, <4>2 DEF WaitCheck
    <3>2. CASE op # "wait" \/ mf # 0
      BY <1>6, <3>2 DEF WaitCheck, HasRun
    <3> QED BY <3>1, <3>2
  <2> QED BY <2>1, <2>2, <2>3, <2>4
<1>7. CASE WaitSleep
  BY <1>7 DEF WaitSleep
<1>8. CASE Join
  BY <1>8 DEF Join
<1> QED BY <1>1, <1>2, <1>3, <1>4, <1>5, <1>6, <1>7, <1>8 DEF CallerStep

(* Running a function appends what is in mf and mv, of which there is one  *)
(* more than has run.                                                      *)
LEMMA RunKeeps ==
  ASSUME HandInv, WorkRun
  PROVE  HandInv'
<1> USE DEF HandInv, Types, CallerInv, WorkInv, WaitedInv, object, mutexes, history
<1>1. CASE f = 0
  BY <1>1 DEF WorkRun
<1>2. CASE f # 0
  <2>1. /\ ran' = Append(ran, <<f, mv>>) /\ pcWorker' = "clear" /\ pcWorker = "run"
        /\ UNCHANGED <<object, mutexes, pcCaller, op, b, f, nCall, waited>>
    BY <1>2 DEF WorkRun
  <2>2. <<f, mv>> \in Nat \X Nat
    OBVIOUS
  <2>3. /\ ran' \in Seq(Nat \X Nat) /\ Len(ran') = Len(ran) + 1
        /\ \A i \in 1 .. Len(ran) : ran'[i] = ran[i]
        /\ ran'[Len(ran) + 1] = <<f, mv>>
    BY <2>1, <2>2, AppendProperties
  <2>4. Len(ran) \in Nat
    OBVIOUS
  <2>5. CASE mb
    <3>1. f = nCall /\ mv = nCall /\ Len(ran) = nCall - 1
      BY <2>1, <2>5
    <3>2. \A i \in 1 .. Len(ran') : ran'[i] = <<i, i>>
      <4> SUFFICES ASSUME NEW i \in 1 .. Len(ran')
                   PROVE  ran'[i] = <<i, i>>
        OBVIOUS
      <4>1. \A j \in 1 .. Len(ran) : ran[j] = <<j, j>>
        BY <2>1, <2>5
      <4>2. i \in 1 .. Len(ran) \/ i = Len(ran) + 1
        BY <2>3, <2>4
      <4>3. CASE i \in 1 .. Len(ran)
        BY <2>3, <4>1, <4>3
      <4>4. CASE i = Len(ran) + 1
        BY <2>3, <2>4, <3>1, <4>4
      <4> QED BY <4>2, <4>3, <4>4
    <3> QED BY <2>1, <2>3, <2>5, <3>1, <3>2
  <2>6. CASE ~mb
    BY <2>1, <2>3, <2>4, <2>6
  <2> QED BY <2>5, <2>6
<1> QED BY <1>1, <1>2

(* So does the rest of the worker.                                         *)
LEMMA WorkerKeeps ==
  ASSUME HandInv, WorkLock \/ WorkTell \/ WorkerStep \/ Spurious
  PROVE  HandInv'
<1> USE DEF HandInv, Types, CallerInv, WorkInv, WaitedInv, object, mutexes, history
<1>1. CASE WorkLock
  BY <1>1 DEF WorkLock
<1>2. CASE WorkTell
  BY <1>2 DEF WorkTell
<1>3. CASE WorkLook
  BY <1>3 DEF WorkLook
<1>4. CASE WorkNap
  BY <1>4 DEF WorkNap
<1>5. CASE WorkRun
  BY <1>5, RunKeeps
<1>6. CASE WorkClear
  BY <1>6 DEF WorkClear
<1>7. CASE Spurious
  BY <1>7 DEF Spurious
<1> QED BY <1>1, <1>2, <1>3, <1>4, <1>5, <1>6, <1>7 DEF WorkerStep

(* Work is run in order, with its values, once, and before Wait returns,   *)
(* however many functions are handed over (Call and Work, src/Main.cpp).   *)
THEOREM HandedOver == Spec => []Handover
<1>1. HandInv /\ [Next]_vars => HandInv'
  <2> SUFFICES ASSUME HandInv, [Next]_vars PROVE HandInv'
    OBVIOUS
  <2>1. CASE Next
    BY <2>1, CallerKeeps, WorkerKeeps DEF Next
  <2>2. CASE UNCHANGED vars
    BY <2>2 DEF vars, object, mutexes, history, HandInv, Types, CallerInv, WorkInv, WaitedInv
  <2> QED BY <2>1, <2>2
<1>2. HandInv => Handover
  <2> SUFFICES ASSUME HandInv PROVE Handover
    OBVIOUS
  <2>1. DOMAIN ran = 1 .. Len(ran)
    BY DEF HandInv, Types
  <2>2. Len(ran) \in Int /\ nCall \in Int
    BY DEF HandInv, Types
  <2>3. ASSUME mb PROVE Len(ran) <= nCall
    <3>1. CASE Len(ran) = nCall
      BY <2>2, <3>1
    <3>2. CASE Len(ran) = nCall - 1
      BY <2>2, <3>2
    <3> QED BY <2>3, <3>1, <3>2 DEF HandInv, WorkInv
  <2> QED BY <2>1, <2>3 DEF HandInv, WorkInv, WaitedInv, Handover
<1> QED BY <1>1, <1>2, HandInit, PTL DEF Spec
=============================================================================

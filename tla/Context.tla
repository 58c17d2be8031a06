------------------------------ MODULE Context -------------------------------
(***************************************************************************)
(* How GlobalCntx and the LocalCntx of each thread come into being and go  *)
(* (src/src/Func.cpp, GlobalCntx.cpp, LocalCntx.cpp).                      *)
(*                                                                         *)
(* Both are built by the first call that needs them, in memory of their    *)
(* own, and building them calls the allocator: the segments of the global  *)
(* reserver are taken from the global heap that is being set up, those of  *)
(* a local reserver from the global one, and naming the thread_local       *)
(* context for the first time registers its destructor, for which some C   *)
(* libraries allocate, in the thread that has no context yet.  They go     *)
(* when their thread and the process end, while calls may still come.      *)
(*                                                                         *)
(* A thread that runs has a stack of what it has entered and not left,     *)
(* innermost first.  Threads are started by std::thread, which allocates;  *)
(* the process ends after they have been joined; the build is one without  *)
(* the debug counters.                                                     *)
(***************************************************************************)
EXTENDS Integers, Sequences, FiniteSets

CONSTANTS
  Thread,
  Main,          \* the thread that runs main, and the static destructors
  cnRealm,       \* the segments of a reserver
  MaxAny         \* bound: the blocks of its own a thread has at a time

ASSUME ContextAssumption ==
  Main \in Thread /\ cnRealm \in Nat \ {0} /\ MaxAny \in Nat

VARIABLES
  gbGlobalCntx,  \* the once_flag: "never", "running" or "done"
  gpGlobalCntx,  \* the global context is published
  mHeap,         \* its heap is there
  mReserver,     \* how many segments its reserver has
  gpLocalCntx,   \* [thread -> its context is published]
  gvLocalCntx,   \* [thread -> how often it has been constructed]
  dtor,          \* [thread -> its destructor is "unknown", "registered" or "run"]
  mapRealm,      \* [thread -> how many segments its reserver has]
  mapPool,       \* [thread -> its context has a pool]
  cached,        \* [thread -> blocks on the stacks of its reserver]
  any,           \* [thread -> LocalAny blocks in use that it allocated]
  life,          \* [thread -> "unborn", "running", "late", "ended" or, Main, "exit"]
  stack,         \* [thread -> what it is inside of]
  settled,       \* history: threads that made no call since their destructor ran
  taken,         \* history: [thread -> blocks it had of the global reserver for
                 \* segments, a pool or its stacks, and has not given back]
  doubled,       \* history: threads whose context was built over one they had
  unready        \* history: where memory was used before it was set up

global == <<gbGlobalCntx, gpGlobalCntx, mHeap, mReserver>>
context == <<gpLocalCntx, gvLocalCntx, mapRealm, mapPool, cached, taken, doubled>>
vars == <<global, context, dtor, any, life, stack, settled, unready>>

Init ==
  /\ gbGlobalCntx = "never" /\ gpGlobalCntx = FALSE
  /\ mHeap = FALSE /\ mReserver = 0
  /\ gpLocalCntx = [t \in Thread |-> FALSE]
  /\ gvLocalCntx = [t \in Thread |-> 0]
  /\ dtor = [t \in Thread |-> "unknown"]
  /\ mapRealm = [t \in Thread |-> 0]
  /\ mapPool = [t \in Thread |-> FALSE]
  /\ cached = [t \in Thread |-> 0]
  /\ any = [t \in Thread |-> 0]
  /\ life = [t \in Thread |-> IF t = Main THEN "running" ELSE "unborn"]
  /\ stack = [t \in Thread |-> <<>>]
  /\ settled = {}
  /\ taken = [t \in Thread |-> 0] /\ doubled = {}
  /\ unready = {}

Inside(t, label) == stack[t] # <<>> /\ Head(stack[t]) = label

(* The innermost entry gives way to others, or to none when it returns.    *)
Goto(t, labels) == stack' = [stack EXCEPT ![t] = labels \o Tail(@)]

(* What is used must be there.                                             *)
Uses(ready, what) == unready' = IF ready THEN unready ELSE unready \cup {what}

ReserverReady == gpGlobalCntx /\ mReserver = cnRealm

(* GlobalReserver::Segment::operator new: a block of the heap.             *)
HeapAlloc == Uses(mHeap, "heap")

(* LocalReserver::Segment::operator new: a block of the global reserver.   *)
ReserverAlloc == Uses(ReserverReady, "reserver")

-----------------------------------------------------------------------------
(* GlobalCntxPtr, where gpGlobalCntx is null: call_once, in which all but  *)
(* one thread wait, that one too if it comes here again; then the loop     *)
(* until the context is published.                                         *)
Once(t) ==
  /\ Inside(t, "once")
  /\ \/ /\ gbGlobalCntx = "never"
        /\ gbGlobalCntx' = "running"
        /\ Goto(t, <<"heap">>)
     \/ /\ gbGlobalCntx = "done" /\ gpGlobalCntx
        /\ Goto(t, <<>>)
        /\ UNCHANGED gbGlobalCntx
  /\ UNCHANGED <<gpGlobalCntx, mHeap, mReserver, context, dtor, any, life, settled, unready>>

(* GlobalCntx::GlobalCntx publishes the context between its heap and its   *)
(* reserver, whose segments find the heap through it.                      *)
ConstructHeap(t) ==
  /\ Inside(t, "heap")
  /\ mHeap' = TRUE
  /\ gpGlobalCntx' = TRUE
  /\ Goto(t, <<"segment">>)
  /\ UNCHANGED <<gbGlobalCntx, mReserver, context, dtor, any, life, settled, unready>>

(* GlobalReserver::GlobalReserver                                          *)
ConstructSegment(t) ==
  /\ Inside(t, "segment")
  /\ \/ /\ ~gpGlobalCntx
        /\ Goto(t, <<"once", "segment">>)
        /\ UNCHANGED <<gbGlobalCntx, mReserver, unready>>
     \/ /\ gpGlobalCntx /\ mReserver < cnRealm
        /\ HeapAlloc
        /\ mReserver' = mReserver + 1
        /\ UNCHANGED <<gbGlobalCntx, stack>>
     \/ /\ gpGlobalCntx /\ mReserver = cnRealm
        /\ gbGlobalCntx' = "done"
        /\ Goto(t, <<>>)
        /\ UNCHANGED <<mReserver, unready>>
  /\ UNCHANGED <<gpGlobalCntx, mHeap, context, dtor, any, life, settled>>

GlobalStep(t) == Once(t) \/ ConstructHeap(t) \/ ConstructSegment(t)

-----------------------------------------------------------------------------
(* LocalCntxPtr.                                                           *)
Ptr(t) ==
  /\ Inside(t, "ptr")
  /\ Goto(t, IF gpLocalCntx[t] THEN <<>> ELSE <<"name">>)
  /\ UNCHANGED <<global, context, dtor, any, life, settled, unready>>

(* &gLocalCntx: the first time in a thread the destructor is registered,   *)
(* for which the runtime may allocate; that call ends up here once more.   *)
Name(t) ==
  /\ Inside(t, "name")
  /\ dtor' = [dtor EXCEPT ![t] = IF @ = "unknown" THEN "registered" ELSE @]
  /\ \/ Goto(t, <<"new">>)
     \/ dtor[t] = "unknown" /\ Goto(t, <<"ptr", "pool", "new">>)
  /\ UNCHANGED <<global, context, any, life, settled, unready>>

(* LocalCntx::LocalCntx begins, over whatever is there: the pointers to    *)
(* the segments are overwritten one by one, and what they pointed to, with *)
(* the blocks on the stacks, has been taken and is given back by nobody.   *)
New(t) ==
  /\ Inside(t, "new")
  /\ doubled' = IF gpLocalCntx[t] THEN doubled \cup {t} ELSE doubled
  /\ mapRealm' = [mapRealm EXCEPT ![t] = 0]
  /\ cached' = [cached EXCEPT ![t] = 0]
  /\ Goto(t, <<"local">>)
  /\ UNCHANGED <<global, gpLocalCntx, gvLocalCntx, mapPool, taken,
                 dtor, any, life, settled, unready>>

(* LocalReserver::LocalReserver: each segment comes from the global        *)
(* reserver.                                                               *)
LocalSegment(t) ==
  /\ Inside(t, "local") /\ mapRealm[t] < cnRealm
  /\ \/ /\ ~gpGlobalCntx
        /\ Goto(t, <<"once", "local">>)
        /\ UNCHANGED <<mapRealm, taken, unready>>
     \/ /\ gpGlobalCntx
        /\ ReserverAlloc
        /\ mapRealm' = [mapRealm EXCEPT ![t] = @ + 1]
        /\ taken' = [taken EXCEPT ![t] = @ + 1]
        /\ UNCHANGED stack
  /\ UNCHANGED <<global, gpLocalCntx, gvLocalCntx, mapPool, cached, doubled,
                 dtor, any, life, settled>>

(* The tables are emptied, whatever pool they knew; the first construction *)
(* publishes the context.                                                  *)
Body(t) ==
  /\ Inside(t, "local") /\ mapRealm[t] = cnRealm
  /\ mapPool' = [mapPool EXCEPT ![t] = FALSE]
  /\ gvLocalCntx' = [gvLocalCntx EXCEPT ![t] = (@ + 1) % 256]
  /\ gpLocalCntx' = [gpLocalCntx EXCEPT ![t] = @ \/ gvLocalCntx[t] = 0]
  /\ Goto(t, <<>>)
  /\ UNCHANGED <<global, mapRealm, cached, taken, doubled, dtor, any, life, settled, unready>>

LocalStep(t) == Ptr(t) \/ Name(t) \/ New(t) \/ LocalSegment(t) \/ Body(t)

-----------------------------------------------------------------------------
(* The calls; what they ask of the context they have got.                  *)

LocalReady(t) == gpLocalCntx[t] /\ mapRealm[t] = cnRealm /\ ReserverReady

(* Alloc of a small block, from a pool that may have to be made.           *)
AllocPool(t) ==
  /\ Inside(t, "pool")
  /\ mapPool' = [mapPool EXCEPT ![t] = TRUE]
  /\ taken' = [taken EXCEPT ![t] = IF mapPool[t] THEN @ ELSE @ + 1]
  /\ Uses(LocalReady(t), "local")
  /\ Goto(t, <<>>)
  /\ UNCHANGED <<global, gpLocalCntx, gvLocalCntx, mapRealm, cached, doubled,
                 dtor, any, life, settled>>

(* Alloc of a large one: a block of the thread's reserver, or the global.  *)
AllocAny(t) ==
  /\ Inside(t, "any")
  /\ any' = [any EXCEPT ![t] = @ + 1]
  /\ cached' = [cached EXCEPT ![t] = IF @ > 0 THEN @ - 1 ELSE 0]
  /\ taken' = [taken EXCEPT ![t] = IF cached[t] > 0 THEN @ - 1 ELSE @]
  /\ Uses(LocalReady(t), "local")
  /\ Goto(t, <<>>)
  /\ UNCHANGED <<global, gpLocalCntx, gvLocalCntx, mapRealm, mapPool, doubled,
                 dtor, life, settled>>

(* LocalAny::Free by the thread that allocated it.                         *)
FreeOwn(t) ==
  /\ Inside(t, "free")
  /\ cached' = [cached EXCEPT ![t] = @ + 1]
  /\ taken' = [taken EXCEPT ![t] = @ + 1]
  /\ Uses(LocalReady(t), "local")
  /\ Goto(t, <<>>)
  /\ UNCHANGED <<global, gpLocalCntx, gvLocalCntx, mapRealm, mapPool, doubled,
                 dtor, any, life, settled>>

CallStep(t) == AllocPool(t) \/ AllocAny(t) \/ FreeOwn(t)

(* Threads call while they run, and in the destructors that run after the  *)
(* context's: of other thread_local objects, and of static ones in Main.   *)
MayCall(t) == life[t] \in {"running", "late"} /\ stack[t] = <<>>

Call(t) ==
  /\ MayCall(t)
  /\ \/ /\ \/ stack' = [stack EXCEPT ![t] = <<"ptr", "pool">>]
           \/ any[t] < MaxAny /\ stack' = [stack EXCEPT ![t] = <<"ptr", "any">>]
        /\ UNCHANGED any
     \/ /\ any[t] > 0
        /\ any' = [any EXCEPT ![t] = @ - 1]
        /\ stack' = [stack EXCEPT ![t] = <<"ptr", "free">>]
  /\ settled' = settled \ {t}
  /\ UNCHANGED <<global, context, dtor, life, unready>>

(* LocalAny::Free by another thread u, which needs no context of its own.  *)
FreeForeign(t, u) ==
  /\ MayCall(u) /\ u # t /\ any[t] > 0
  /\ any' = [any EXCEPT ![t] = @ - 1]
  /\ Uses(ReserverReady, "reserver")
  /\ UNCHANGED <<global, context, dtor, life, stack, settled>>

(* std::thread: its state is allocated before the thread runs.             *)
Start(t) ==
  /\ life[t] = "unborn"
  /\ \E u \in Thread : life[u] = "running" /\ gpLocalCntx[u] /\ stack[u] = <<>>
  /\ life' = [life EXCEPT ![t] = "running"]
  /\ UNCHANGED <<global, context, dtor, any, stack, settled, unready>>

-----------------------------------------------------------------------------
(* The end of a thread: the destructor, if it has been registered.         *)
Return(t) ==
  /\ life[t] = "running" /\ stack[t] = <<>>
  /\ t = Main => \A u \in Thread \ {Main} : life[u] \in {"unborn", "ended"}
  /\ life' = [life EXCEPT ![t] = "late"]
  /\ dtor' = [dtor EXCEPT ![t] = "run"]
  /\ stack' = [stack EXCEPT ![t] = IF dtor[t] = "registered" THEN <<"~">> ELSE <<>>]
  /\ settled' = settled \cup {t}
  /\ UNCHANGED <<global, context, any, unready>>

(* Variant: the pools are cleared when the reserver is gone.               *)
AfterCountLate(n) == IF n = 0 THEN <<"give", "clear">> ELSE <<"~">>

(* Variant: the destructor counts down once and leaves it at that.         *)
AfterCountOnce(n) == IF n = 0 THEN <<"clear">> ELSE <<>>

(* gvLocalCntx says whether this was the last construction; otherwise the  *)
(* destructor calls itself.                                                *)
AfterCount(n) == IF n = 0 THEN <<"clear">> ELSE <<"~">>

(* Variant: the count is tested, but not brought down.                     *)
CountedNot(n) == n

(* --gvLocalCntx, a uint8_t                                                *)
Counted(n) == (n + 255) % 256

(* LocalCntx::~LocalCntx                                                   *)
Destruct(t) ==
  /\ Inside(t, "~")
  /\ \/ /\ ~gpLocalCntx[t]
        /\ Goto(t, <<>>)
        /\ UNCHANGED gvLocalCntx
     \/ /\ gpLocalCntx[t]
        /\ gvLocalCntx' = [gvLocalCntx EXCEPT ![t] = Counted(@)]
        /\ Goto(t, AfterCount(gvLocalCntx'[t]))
  /\ UNCHANGED <<global, gpLocalCntx, mapRealm, mapPool, cached, taken, doubled,
                 dtor, any, life, settled, unready>>

(* Clearance of the pool; if no parcel is out it is deleted, and its       *)
(* memory goes to the reserver of the context that is still there.  If     *)
(* one is, it is left to the last of those who free them.                  *)
ClearPool(t) ==
  /\ Inside(t, "clear")
  /\ \/ /\ mapPool[t]
        /\ Uses(LocalReady(t), "local")
        /\ cached' = [cached EXCEPT ![t] = @ + 1]
        /\ UNCHANGED taken
     \/ /\ taken' = [taken EXCEPT ![t] = IF mapPool[t] THEN @ - 1 ELSE @]
        /\ UNCHANGED <<cached, unready>>
  /\ mapPool' = [mapPool EXCEPT ![t] = FALSE]
  /\ Goto(t, <<"give">>)
  /\ UNCHANGED <<global, gpLocalCntx, gvLocalCntx, mapRealm, doubled,
                 dtor, any, life, settled>>

(* LocalReserver::Destruct, and the context is gone.                       *)
Give(t) ==
  /\ Inside(t, "give")
  /\ Uses(ReserverReady, "reserver")
  /\ taken' = [taken EXCEPT ![t] = @ - mapRealm[t] - cached[t]]
  /\ mapRealm' = [mapRealm EXCEPT ![t] = 0]
  /\ cached' = [cached EXCEPT ![t] = 0]
  /\ gpLocalCntx' = [gpLocalCntx EXCEPT ![t] = FALSE]
  /\ Goto(t, <<>>)
  /\ UNCHANGED <<global, gvLocalCntx, mapPool, doubled, dtor, any, life, settled>>

DestructStep(t) == Destruct(t) \/ ClearPool(t) \/ Give(t)

(* A thread has ended when nothing is left to run in it.                   *)
End(t) ==
  /\ t # Main /\ life[t] = "late" /\ stack[t] = <<>>
  /\ life' = [life EXCEPT ![t] = "ended"]
  /\ UNCHANGED <<global, context, dtor, any, stack, settled, unready>>

(* if (gpLocalCntx) gpLocalCntx->~LocalCntx()                              *)
LastDestruct == IF gpLocalCntx[Main] THEN <<"~">> ELSE <<>>

(* GlobalCntx::~GlobalCntx, in Main after everything else.                 *)
Exit ==
  /\ life[Main] = "late" /\ stack[Main] = <<>>
  /\ life' = [life EXCEPT ![Main] = "exit"]
  /\ stack' = [stack EXCEPT ![Main] = LastDestruct \o <<"exit">>]
  /\ settled' = settled \cup {Main}
  /\ UNCHANGED <<global, context, dtor, any, unready>>

(* GlobalReserver::Destruct: the segments and their blocks go back to the  *)
(* heap.  If nobody ever called there are none.                            *)
ReserverDestruct ==
  /\ Inside(Main, "exit")
  /\ Uses(mHeap \/ mReserver = 0, "heap")
  /\ mReserver' = 0
  /\ Goto(Main, <<"heapDestruct">>)
  /\ UNCHANGED <<gbGlobalCntx, gpGlobalCntx, mHeap, context, dtor, any, life, settled>>

(* GlobalHeap::Destruct, and the context is gone.                          *)
HeapDestruct ==
  /\ Inside(Main, "heapDestruct")
  /\ mHeap' = FALSE /\ gpGlobalCntx' = FALSE
  /\ Goto(Main, <<>>)
  /\ UNCHANGED <<gbGlobalCntx, mReserver, context, dtor, any, life, settled, unready>>

GlobalDestruct == ReserverDestruct \/ HeapDestruct

Finished ==
  /\ life[Main] = "exit" /\ stack[Main] = <<>>
  /\ UNCHANGED vars

-----------------------------------------------------------------------------
Step(t) == GlobalStep(t) \/ LocalStep(t) \/ CallStep(t) \/ DestructStep(t)

Next ==
  \/ \E t \in Thread : Call(t) \/ Start(t) \/ Return(t) \/ End(t) \/ Step(t)
  \/ \E t, u \in Thread : FreeForeign(t, u)
  \/ Exit \/ GlobalDestruct \/ Finished

Spec == Init /\ [][Next]_vars

FairSpec == Spec /\ WF_vars(GlobalDestruct) /\ \A t \in Thread : WF_vars(Step(t))

-----------------------------------------------------------------------------
(* Whatever is used has been set up, and has not been taken down: the heap *)
(* when the reserver is built from it, the global reserver when contexts   *)
(* are built from it and given back to it, a context when it serves a call.*)
Ready == unready = {}

(* The destructor of a thread has run, and it has made no call since.      *)
Past(t) ==
  /\ t \in settled /\ ~Inside(t, "clear") /\ ~Inside(t, "give")
  /\ "~" \notin {stack[t][i] : i \in DOMAIN stack[t]}

(* What the context of a thread knows it has of the global reserver.       *)
Has(t) == mapRealm[t] + cached[t] + (IF mapPool[t] THEN 1 ELSE 0)

(* What a construction within a construction loses: the segments of the    *)
(* inner one and the pool that was made for the allocation in between.     *)
Lost(t) == IF t \in doubled THEN cnRealm + 1 ELSE 0

(* After its destructor has run a thread has no context, and has given     *)
(* back to the global reserver all that it took, its segments, the blocks  *)
(* on its stacks and its pool (or left the pool to those who have parcels  *)
(* of it); but for what the outer of two constructions overwrote, which    *)
(* stays taken for good: one inner construction's, exactly and never more. *)
(* Main has no context either when the global one is taken down, even if a *)
(* static destructor had it built again.  Another thread that called after *)
(* its destructor ran, and so had its context built again, may end with    *)
(* it; nobody destroys it then.  It is one whole context and no more.      *)
GivenBack ==
  \A t \in Thread :
    /\ Past(t) => ~gpLocalCntx[t] /\ gvLocalCntx[t] = 0 /\ taken[t] = Lost(t)
    /\ (life[t] = "ended" /\ gpLocalCntx[t]) =>
         mapRealm[t] = cnRealm /\ taken[t] = Has(t) + Lost(t)

(* Every call, and every destructor, returns.                              *)
CallsReturn == \A t \in Thread : stack[t] # <<>> ~> stack[t] = <<>>
=============================================================================

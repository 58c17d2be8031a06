------------------------------ MODULE Reserver ------------------------------
(***************************************************************************)
(* LocalReserver and GlobalReserver (src/src), and LocalAny, an object per *)
(* block that lives on them alone.                                         *)
(*                                                                         *)
(* A thread keeps free blocks on a stack per realm (size class).  When it  *)
(* has none it takes one from a ring of stacks, per realm, that all        *)
(* threads share; each of these has a spinlock.  Only then is memory asked *)
(* from the heap or from the system.  When that fails the thread empties   *)
(* the shared stacks into the heap and the system and tries again; then    *)
(* its own, and again.                                                     *)
(*                                                                         *)
(* A block freed by the thread it was given to goes to that thread's       *)
(* stacks, one freed by another thread to the shared ones.  Push and pop   *)
(* hold the spinlock of a stack over a few instructions and are one action *)
(* each; Release holds it over any number of calls of the heap.            *)
(***************************************************************************)
EXTENDS Integers, Sequences, FiniteSets, FiniteSetsExt, SequencesExt

CONSTANTS
  Thread,            \* the threads; one that ends may be followed by another of the same id
  Block,             \* the names of the blocks, as many as there may be at a time
  cnRealm,           \* number of realms
  Size(_),           \* the size of the blocks of a realm
  csHeap,            \* the largest size that is asked from the heap
  csGlobalHeap,      \* what the heap has in all
  csSystem,          \* what the system has in all
  LocalNum(_),       \* LocalReserver::NumReserver: the depth of a thread's stack
  GlobalNum(_),      \* GlobalReserver::NumReserver: the depth of a shared stack
  mnRevolver,        \* the number of shared stacks of a realm, a power of two
  NULL

Realm == 0 .. cnRealm - 1
Slot == 0 .. mnRevolver - 1

ASSUME ReserverAssumption ==
  /\ Block \subseteq Nat /\ IsFiniteSet(Block)
  /\ cnRealm \in Nat \ {0} /\ mnRevolver \in Nat \ {0}
  /\ csHeap \in Nat /\ csGlobalHeap \in Nat /\ csSystem \in Nat
  /\ \A r \in Realm : Size(r) \in Nat \ {0} /\ LocalNum(r) \in Nat /\ GlobalNum(r) \in Nat
  /\ NULL \notin Nat \cup Thread

VARIABLES
  maReserver,        \* [thread -> [realm -> its stack]], top first
  maaReserver,       \* [realm -> [slot -> shared stack]], top first
  maSpinlock,        \* [realm -> [slot -> the thread that is releasing the stack, or NULL]]
  moRevolverFree,    \* [realm -> slot the next free goes to]
  moRevolverAlloc,   \* [realm -> slot the next allocation looks at]
  tag,               \* [block there is -> its tag]
  owner,             \* [block in use -> LocalAny::mId of the object in it]
  pc,                \* where each thread is
  rAlloc,            \* the realm a thread allocates from, or NULL
  nTry,              \* how often it has come to the shared stacks
  oRevolver,         \* the slot it has drawn
  pBlock,            \* the block it is freeing, or NULL
  oRelease,          \* how far it has come in Release
  bExit,             \* the threads that are ending
  alone              \* history: threads whose allocation nobody has disturbed

ring == <<moRevolverFree, moRevolverAlloc>>
shared == <<maaReserver, maSpinlock>>
memory == <<tag, owner>>
calls == <<rAlloc, nTry, oRevolver, pBlock, oRelease, bExit>>
vars == <<maReserver, shared, ring, memory, pc, calls, alone>>

Goto(t, label) == pc' = [pc EXCEPT ![t] = label]

(* A step of t disturbs the allocations of the others.                     *)
Disturbs(t) == alone' = alone \cap {t}

Put(stack, b) == <<b>> \o stack

(* Variant: --oReserver counts down a copy of the offset.                  *)
PoppedCopy(stack) == stack

(* What is left after aReserver[--oReserver], oReserver being a reference. *)
Popped(stack) == Tail(stack)

(* The counter of the ring, which the code masks when it is used.          *)
Next1(i) == (i + 1) % mnRevolver

Init ==
  /\ maReserver = [t \in Thread |-> [r \in Realm |-> <<>>]]
  /\ maaReserver = [r \in Realm |-> [i \in Slot |-> <<>>]]
  /\ maSpinlock = [r \in Realm |-> [i \in Slot |-> NULL]]
  /\ moRevolverFree = [r \in Realm |-> 0]
  /\ moRevolverAlloc = [r \in Realm |-> 0]
  /\ tag = <<>>
  /\ owner = <<>>
  /\ pc = [t \in Thread |-> "idle"]
  /\ rAlloc = [t \in Thread |-> NULL]
  /\ nTry = [t \in Thread |-> 0]
  /\ oRevolver = [t \in Thread |-> 0]
  /\ pBlock = [t \in Thread |-> NULL]
  /\ oRelease = [t \in Thread |-> 0]
  /\ bExit = {}
  /\ alone = {}

-----------------------------------------------------------------------------
(* Memory: how much the heap and the system have left; which free node the *)
(* heap takes, and that it may be too small, is GlobalHeap's matter.       *)

(* The block of a realm with its tag.                                      *)
sBlock(r) == Size(r) + 1

Used(bVirtual) ==
  LET of == {b \in DOMAIN tag : tag[b].bVirtual = bVirtual}
  IN MapThenSumSet(LAMBDA b : sBlock(tag[b].Realm), of)

HeapFits(r) == sBlock(r) <= csHeap /\ Used(FALSE) + sBlock(r) <= csGlobalHeap
SystemFits(r) == Used(TRUE) + sBlock(r) <= csSystem

(* A bound: no more blocks at a time than there are names.                 *)
Fits(r) == DOMAIN tag # Block /\ (HeapFits(r) \/ SystemFits(r))

(* A name for new memory.                                                  *)
Fresh == Min(Block \ DOMAIN tag)

(* GlobalReserver::Segment::TaggedFree                                     *)
TaggedFree(b) == tag' = [c \in DOMAIN tag \ {b} |-> tag[c]]

-----------------------------------------------------------------------------
(* Alloc.                                                                  *)

(* The block goes to the thread that asked, and the call is over.          *)
Give(t, b) ==
  /\ owner' = [c \in DOMAIN owner \cup {b} |-> IF c = b THEN t ELSE owner[c]]
  /\ Goto(t, "idle")
  /\ rAlloc' = [rAlloc EXCEPT ![t] = NULL]
  /\ nTry' = [nTry EXCEPT ![t] = 0]
  /\ oRevolver' = [oRevolver EXCEPT ![t] = 0]
  /\ oRelease' = [oRelease EXCEPT ![t] = 0]
  /\ UNCHANGED <<pBlock, bExit>>

(* Variant: Alloc calls itself after Release.                              *)
TriedAgain(n) == 1

(* After Release, Alloc tries its segment once more and then gives up.     *)
Tried(n) == n + 1

(* GlobalReserver::Segment::Alloc: draw a slot of the ring.                *)
DrawAlloc(t, r) ==
  /\ oRevolver' = [oRevolver EXCEPT ![t] = moRevolverAlloc[r]]
  /\ moRevolverAlloc' = [moRevolverAlloc EXCEPT ![r] = Next1(@)]
  /\ nTry' = [nTry EXCEPT ![t] = Tried(@)]
  /\ Goto(t, "pop")
  /\ UNCHANGED <<moRevolverFree, pBlock, oRelease, bExit>>

(* LocalReserver::Alloc: the thread's own stack, or the shared ones.       *)
Alloc(t, r) ==
  /\ pc[t] = "idle"
  /\ \/ /\ maReserver[t][r] # <<>>
        /\ Give(t, Head(maReserver[t][r]))
        /\ maReserver' = [maReserver EXCEPT ![t][r] = Popped(@)]
        /\ Disturbs(t)
        /\ UNCHANGED <<ring, tag>>
     \/ /\ maReserver[t][r] = <<>>
        /\ DrawAlloc(t, r)
        /\ rAlloc' = [rAlloc EXCEPT ![t] = r]
        /\ alone' = {t}
        /\ UNCHANGED <<maReserver, memory>>
  /\ UNCHANGED shared

(* GlobalReserver::Alloc and LocalReserver::Alloc, again after a release;  *)
(* the thread's own stack of that realm is empty by now.                   *)
AllocAgain(t) ==
  /\ pc[t] = "draw"
  /\ DrawAlloc(t, rAlloc[t])
  /\ Disturbs(t)
  /\ UNCHANGED <<maReserver, shared, memory, rAlloc>>

(* Under the spinlock of the slot: pop, or find it empty.                  *)
Pop(t) ==
  LET r == rAlloc[t]
      stack == maaReserver[r][oRevolver[t]]
  IN /\ pc[t] = "pop" /\ maSpinlock[r][oRevolver[t]] = NULL
     /\ \/ /\ stack # <<>>
           /\ maaReserver' = [maaReserver EXCEPT ![r][oRevolver[t]] = Popped(@)]
           /\ Give(t, Head(stack))
        \/ /\ stack = <<>>
           /\ Goto(t, "tagged")
           /\ UNCHANGED <<maaReserver, owner, calls>>
     /\ Disturbs(t)
     /\ UNCHANGED <<maReserver, maSpinlock, ring, tag>>

(* Variant: the thread's own stacks are not released.                      *)
AfterFailureOwn(n) == CASE n \in {1, 2, 3} -> "look" [] n = 4 -> "idle"

(* Where an allocation goes that got no memory: to Release in              *)
(* GlobalReserver::Alloc, then to Release in LocalReserver::Alloc, then    *)
(* both in the second round; then it fails.                                *)
AfterFailure(n) == CASE n \in {1, 3} -> "look" [] n = 2 -> "spill" [] n = 4 -> "idle"

(* TaggedAlloc: memory from the heap, else from the system, else none.     *)
TaggedAlloc(t) ==
  LET r == rAlloc[t]
      next == AfterFailure(nTry[t])
  IN /\ pc[t] = "tagged"
     /\ \/ /\ Fits(r)
           /\ tag' = [c \in DOMAIN tag \cup {Fresh} |->
                        IF c = Fresh THEN [Realm |-> r, bVirtual |-> ~HeapFits(r)] ELSE tag[c]]
           /\ Give(t, Fresh)
        \/ /\ ~Fits(r)
           /\ Goto(t, next)
           /\ oRevolver' = [oRevolver EXCEPT ![t] = 0]
           /\ rAlloc' = [rAlloc EXCEPT ![t] = IF next = "idle" THEN NULL ELSE @]
           /\ nTry' = [nTry EXCEPT ![t] = IF next = "idle" THEN 0 ELSE @]
           /\ UNCHANGED <<memory, pBlock, oRelease, bExit>>
     /\ Disturbs(t)
     /\ UNCHANGED <<maReserver, shared, ring>>

-----------------------------------------------------------------------------
(* GlobalReserver::Release: over the realms, over the slots.               *)

rRelease(t) == oRelease[t] \div mnRevolver
iRelease(t) == oRelease[t] % mnRevolver

(* On to the next slot, or back to the allocation.                         *)
Advance(t) ==
  LET next == oRelease[t] + 1
  IN IF next = cnRealm * mnRevolver
     THEN Goto(t, "draw") /\ oRelease' = [oRelease EXCEPT ![t] = 0]
     ELSE Goto(t, "look") /\ oRelease' = [oRelease EXCEPT ![t] = next]

(* The offset is read without the spinlock; an empty stack is passed over. *)
Look(t) ==
  /\ pc[t] = "look"
  /\ IF maaReserver[rRelease(t)][iRelease(t)] = <<>>
     THEN Advance(t)
     ELSE Goto(t, "lock") /\ UNCHANGED oRelease
  /\ Disturbs(t)
  /\ UNCHANGED <<maReserver, shared, ring, memory, rAlloc, nTry, oRevolver, pBlock, bExit>>

Lock(t) ==
  /\ pc[t] = "lock" /\ maSpinlock[rRelease(t)][iRelease(t)] = NULL
  /\ maSpinlock' = [maSpinlock EXCEPT ![rRelease(t)][iRelease(t)] = t]
  /\ Goto(t, "drain")
  /\ Disturbs(t)
  /\ UNCHANGED <<maReserver, maaReserver, ring, memory, calls>>

(* Unlock                                                                  *)
Unlocked(holder) == NULL

(* Release counts the offset itself down.                                  *)
Drained(stack) == Tail(stack)

(* One block after the other goes back to the heap or to the system.       *)
Drain(t) ==
  LET r == rRelease(t)
      i == iRelease(t)
      stack == maaReserver[r][i]
  IN /\ pc[t] = "drain"
     /\ \/ /\ stack # <<>>
           /\ maaReserver' = [maaReserver EXCEPT ![r][i] = Drained(@)]
           /\ TaggedFree(Head(stack))
           /\ UNCHANGED <<maSpinlock, pc, oRelease>>
        \/ /\ stack = <<>>
           /\ maSpinlock' = [maSpinlock EXCEPT ![r][i] = Unlocked(@)]
           /\ Advance(t)
           /\ UNCHANGED <<maaReserver, tag>>
     /\ Disturbs(t)
     /\ UNCHANGED <<maReserver, ring, owner, rAlloc, nTry, oRevolver, pBlock, bExit>>

-----------------------------------------------------------------------------
(* Free.                                                                   *)

(* GlobalReserver::Segment::Free: draw a slot of the ring.                 *)
DrawFree(t, b) ==
  LET r == tag[b].Realm
  IN /\ oRevolver' = [oRevolver EXCEPT ![t] = moRevolverFree[r]]
     /\ moRevolverFree' = [moRevolverFree EXCEPT ![r] = Next1(@)]
     /\ pBlock' = [pBlock EXCEPT ![t] = b]
     /\ Goto(t, "push")
     /\ UNCHANGED moRevolverAlloc

(* Variant: one too many.                                                  *)
RoomMore(stack, n) == Len(stack) <= n

(* Room on a stack that may hold n.                                        *)
Room(stack, n) == Len(stack) < n

(* LocalAny::Free, and LocalPool::Delete and LocalCram::Delete alike: the  *)
(* owner gives the block to its own stacks, another thread to the shared.  *)
Free(t, b) ==
  LET r == tag[b].Realm
      own == owner[b] = t /\ Room(maReserver[t][r], LocalNum(r))
  IN /\ pc[t] = "idle" /\ b \in DOMAIN owner
     /\ owner' = [c \in DOMAIN owner \ {b} |-> owner[c]]
     /\ \/ /\ own
           /\ maReserver' = [maReserver EXCEPT ![t][r] = Put(@, b)]
           /\ UNCHANGED <<pc, ring, oRevolver, pBlock>>
        \/ /\ ~own
           /\ DrawFree(t, b)
           /\ UNCHANGED maReserver
     /\ Disturbs(t)
     /\ UNCHANGED <<shared, tag, rAlloc, nTry, oRelease, bExit>>

(* The block has found its place: back to the Release under way, if any.   *)
Freed(t) ==
  /\ Goto(t, IF rAlloc[t] # NULL \/ t \in bExit THEN "spill" ELSE "idle")
  /\ pBlock' = [pBlock EXCEPT ![t] = NULL]
  /\ oRevolver' = [oRevolver EXCEPT ![t] = 0]

(* Variant: in an allocation, the realm that is allocated from.            *)
SegmentOfAlloc(t) == IF rAlloc[t] = NULL THEN tag[pBlock[t]].Realm ELSE rAlloc[t]

(* GlobalReserver::Free: the segment of the realm in the block's tag.      *)
SegmentOf(t) == tag[pBlock[t]].Realm

(* Under the spinlock of the slot: push, or find it full.                  *)
Push(t) ==
  LET r == SegmentOf(t)
      stack == maaReserver[r][oRevolver[t]]
  IN /\ pc[t] = "push" /\ maSpinlock[r][oRevolver[t]] = NULL
     /\ \/ /\ Room(stack, GlobalNum(r))
           /\ maaReserver' = [maaReserver EXCEPT ![r][oRevolver[t]] = Put(@, pBlock[t])]
           /\ Freed(t)
        \/ /\ ~Room(stack, GlobalNum(r))
           /\ Goto(t, "unmap")
           /\ UNCHANGED <<maaReserver, pBlock, oRevolver>>
     /\ Disturbs(t)
     /\ UNCHANGED <<maReserver, maSpinlock, ring, memory, rAlloc, nTry, oRelease, bExit>>

(* The stack was full: back to the heap or to the system.                  *)
Unmap(t) ==
  /\ pc[t] = "unmap"
  /\ TaggedFree(pBlock[t])
  /\ Freed(t)
  /\ Disturbs(t)
  /\ UNCHANGED <<maReserver, shared, ring, owner, rAlloc, nTry, oRelease, bExit>>

-----------------------------------------------------------------------------
(* LocalReserver::Release: all the thread's stacks go to the shared ones,  *)
(* one block at a time; in an allocation GlobalReserver::Release follows.  *)
Spill(t) ==
  LET full == {r \in Realm : maReserver[t][r] # <<>>}
  IN /\ pc[t] = "spill"
     /\ \/ /\ full # {}
           /\ maReserver' = [maReserver EXCEPT ![t][Min(full)] = Popped(@)]
           /\ DrawFree(t, Head(maReserver[t][Min(full)]))
           /\ UNCHANGED bExit
        \/ /\ full = {}
           /\ Goto(t, IF t \in bExit THEN "idle" ELSE "look")
           /\ bExit' = bExit \ {t}
           /\ UNCHANGED <<maReserver, ring, oRevolver, pBlock>>
     /\ Disturbs(t)
     /\ UNCHANGED <<shared, memory, rAlloc, nTry, oRelease>>

(* ~LocalCntx: LocalReserver::Destruct.  A thread that starts afterwards   *)
(* may have the same id, by which LocalAny::Free knows its owner.          *)
Exit(t) ==
  /\ pc[t] = "idle"
  /\ bExit' = bExit \cup {t}
  /\ Goto(t, "spill")
  /\ Disturbs(t)
  /\ UNCHANGED <<maReserver, shared, ring, memory, rAlloc, nTry, oRevolver, pBlock, oRelease>>

-----------------------------------------------------------------------------
Release(t) == Look(t) \/ Lock(t) \/ Drain(t)

Step(t) ==
  \/ AllocAgain(t) \/ Pop(t) \/ TaggedAlloc(t)
  \/ Release(t)
  \/ Push(t) \/ Unmap(t) \/ Spill(t)

Next == \E t \in Thread :
  \/ \E r \in Realm : Alloc(t, r)
  \/ \E b \in DOMAIN owner : Free(t, b)
  \/ Exit(t)
  \/ Step(t)

Spec == Init /\ [][Next]_vars

FairSpec == Spec /\ \A t \in Thread : WF_vars(Step(t))

-----------------------------------------------------------------------------
TypeOK ==
  /\ maReserver \in [Thread -> [Realm -> Seq(Block)]]
  /\ maaReserver \in [Realm -> [Slot -> Seq(Block)]]
  /\ \A r \in Realm :
       /\ \A t \in Thread : Len(maReserver[t][r]) <= LocalNum(r)
       /\ \A i \in Slot : Len(maaReserver[r][i]) <= GlobalNum(r)
  /\ maSpinlock \in [Realm -> [Slot -> Thread \cup {NULL}]]
  /\ moRevolverFree \in [Realm -> Slot] /\ moRevolverAlloc \in [Realm -> Slot]
  /\ DOMAIN tag \subseteq Block
  /\ tag \in [DOMAIN tag -> [Realm : Realm, bVirtual : BOOLEAN]]
  /\ DOMAIN owner \subseteq Block /\ owner \in [DOMAIN owner -> Thread]
  /\ pc \in [Thread -> {"idle", "draw", "pop", "tagged", "look", "lock", "drain",
                        "push", "unmap", "spill"}]
  /\ rAlloc \in [Thread -> Realm \cup {NULL}] /\ nTry \in [Thread -> 0 .. 4]
  /\ oRevolver \in [Thread -> Slot] /\ pBlock \in [Thread -> Block \cup {NULL}]
  /\ oRelease \in [Thread -> 0 .. cnRealm * mnRevolver - 1]
  /\ bExit \subseteq Thread /\ alone \subseteq Thread

(* Where a block may be: on a stack of a thread, on a shared one, in the   *)
(* hands of a thread that frees it, in use.                                *)
Place ==
  ({"own"} \X Thread \X Realm) \cup ({"shared"} \X Realm \X Slot)
  \cup ({"freeing"} \X Thread) \cup {<<"in use">>}

At(p) ==
  CASE p[1] = "own" -> Range(maReserver[p[2]][p[3]])
    [] p[1] = "shared" -> Range(maaReserver[p[2]][p[3]])
    [] p[1] = "freeing" -> {pBlock[p[2]]} \ {NULL}
    [] p[1] = "in use" -> DOMAIN owner

(* Every block the heap or the system has given is in one place and there  *)
(* once, and a block that has gone back to them is nowhere: none is lost,  *)
(* none is handed out twice, none is used after it has gone back.          *)
OnePlace ==
  /\ \A b \in Block :
       Cardinality({p \in Place : b \in At(p)}) = IF b \in DOMAIN tag THEN 1 ELSE 0
  /\ \A t \in Thread, r \in Realm : IsInjective(maReserver[t][r])
  /\ \A r \in Realm, i \in Slot : IsInjective(maaReserver[r][i])

(* The stacks of a realm hold blocks of that realm, and the memory of a    *)
(* block goes back where it came from: TaggedFree's assertion and sizes.   *)
RightRealm ==
  /\ \A t \in Thread, r \in Realm : \A b \in Range(maReserver[t][r]) : tag[b].Realm = r
  /\ \A r \in Realm, i \in Slot : \A b \in Range(maaReserver[r][i]) : tag[b].Realm = r

Failing(t) == pc[t] = "tagged" /\ pc'[t] = "idle" /\ owner' = owner

(* An allocation fails only after its thread has given up all its cached   *)
(* blocks; and if no other thread did anything meanwhile, only when no     *)
(* shared stack holds a block either and what is left is too little.       *)
FailsOnlyIfTight ==
  [][\A t \in Thread : Failing(t) =>
       /\ \A r \in Realm : maReserver[t][r] = <<>>
       /\ t \in alone =>
            /\ \A r \in Realm, i \in Slot : maaReserver[r][i] = <<>>
            /\ ~Fits(rAlloc[t])]_vars

(* No spinlock that is taken for Release is kept, and every call returns,  *)
(* unless other threads go on releasing for ever: no deadlock, no endless  *)
(* round of releases of its own.                                           *)
Others(t) == \E r \in Realm, i \in Slot : maSpinlock[r][i] \notin {t, NULL}

CallsReturn ==
  /\ \A r \in Realm, i \in Slot : maSpinlock[r][i] # NULL ~> maSpinlock[r][i] = NULL
  /\ \A t \in Thread : (<>[]~Others(t)) => []<>(pc[t] = "idle")
=============================================================================

# Verification of Kaname-Shiki

TLA+ specifications of the Kaname-Shiki memory allocator (`src/src`), TLC configurations
that check them on small instances, and TLAPS proofs of the main results. Paths below are
relative to the repository unless they name a module.

## 1. The system

Kaname-Shiki replaces `malloc`. A request of an application thread goes through three layers.

| part | state it keeps | operations | used by |
|---|---|---|---|
| `Cache` (`Cache.h`) | `mListST`, the owner thread's free list; `maListMT`, a ring of free lists for the other threads; two counters, `mRevolverFree` and `mRevolverAlloc` | `ListST`, `ListMT`, `Clearance` | `LocalPool`, `LocalCram` |
| `LocalPool` | owner (`mId`, `mpOwner`), one cache, `mbCache`, `mnCache` | `Alloc` (owner), `Free` (any thread), `Clearance`, `Delete` | `LocalCntx`, dispatch |
| `LocalCram` | the same with 17 caches, `mvParcel`, `meParcel`; a realm in the tag of each parcel | the same | the same |
| `LocalAny` | owner, size | `Alloc`, `Free` | the same |
| `LocalCntx` (one per thread) | its allocators by size, a `LocalReserver`, `gvLocalCntx` | `Alloc`, `NewPool`, `NewCram`, `NewAny`, destructor | dispatch |
| `LocalReserver` (one per thread) | a bounded stack of blocks per realm | `Alloc`, `Free`, `Release` | local allocators |
| `GlobalReserver` | per realm a ring of bounded stacks with spinlocks | `Alloc`, `Free`, `Release` | `LocalReserver`; frees by other threads |
| `GlobalHeap` | nodes in address order, free lists by size, a bit mask of the non-empty ones, a mutex | `AllocUpper`, `AllocLower`, `Free` | `GlobalReserver` |
| `GlobalCntx` | heap and reserver, `gpGlobalCntx` | construction, `HeapAlloc`, destruction | all |
| `Tag`, `Config`, `Lzc`, `Util` | none | size to realm and back | `LocalCram`, reservers |
| `Func`, `Posix`, `New`, `Relay` | none | dispatch by header, `Align`, `ReAlloc`, `malloc` and friends | application |
| `Main.cpp` | worker threads handed their work by mutexes and condition variables | the tests and benchmark | - |

An allocator (pool, cram, any) is built in a block it gets from its thread's `LocalReserver`;
when it destroys itself the block goes back to a reserver, the local one when the destroying
thread is the owner, the global one otherwise. A freed parcel finds its allocator through the
pointer in its header.

### What is hard

The allocator proper has no lock. Any thread frees into an allocator while its owner
allocates from it, closes it (*Clearance*), replaces it by a new one or ends. Who destroys
it is decided by a count, `mnCache`, that the owner and the others bring down independently.
Below it, the heap keeps three redundant structures in step, and an allocation looks at
it in two separate critical sections; the reservers retry after releasing what everybody
else may take. The contexts are built by the first call that needs them and call the
allocator while they are being built and taken down. `PROJECT.json` lists the hazards line by line.

### What makes it correct

* *Cache*: a slot of the ring never holds more than one parcel (`Alloc` drops the rest of
  a chain, `Clearance` counts a chain as one), a free never spins on a contended slot.
* *LocalPool, LocalCram*: no parcel is in two places, none is lost; `mnCache` is the number
  of parcels to come back; nobody destroys the allocator under a parcel; somebody does in the
  end, once. A cram in addition never carves overlapping parcels nor more than a ring holds.
* *Heap*: nodes tile the heap, neighbours are never both free, mask, lists and sizes agree;
  a failed allocation means that nothing fits. *Reservers*: a block is in one place, a stack
  stays in its bounds, an allocation fails only after a release. *Contexts*: nothing is used
  before it is constructed or after it is destroyed, and a thread whose destructor has run has given back
  what it took from the global reserver, but for what a construction within a construction loses.
  *Sizes*: the realm of a size is the smallest that covers it, and what an allocator asks
  for holds all its parcels. *Interface*: a block is as large and as aligned as asked for and is freed
  once, through whatever headers. *Test program*: work is run once, in order, and no wake-up is lost.

## 2. Modules

| module | models |
|---|---|
| `Cache` | `Cache.h` and the part of `Alloc` that works on a cache |
| `CachedLocal` | what `LocalPool.cpp` and `LocalCram.cpp` have in common, `~LocalCntx`; the properties |
| `LocalPool` | the pool: initial state, next-state relation, fairness; the inductive invariant |
| `LocalCram` | the cram: carving, tags, several caches |
| `Allocator` | the abstract specification both implement |
| `CachedLocal_proofs` | what the next two share: the arithmetic of a ring whose counter wraps, lists without repetitions |
| `LocalPool_proofs` | lemmas and theorems about `LocalPool` |
| `LocalCram_proofs` | lemmas and theorems about `LocalCram`: its memory, then its rings and its count |
| `GlobalHeap` | the heap: nodes, order list, free lists, mask; `GlobalCntx::HeapAlloc` |
| `HeldBlocks` | the abstract specification the heap implements |
| `GlobalHeap_proofs` | lemmas and theorems about `GlobalHeap` |
| `Reserver` | `LocalReserver`, `GlobalReserver` and `LocalAny`, whose objects are single blocks of them |
| `Reserver_proofs` | lemmas and theorems about `Reserver` |
| `Context` | construction and destruction of `GlobalCntx` and of each thread's `LocalCntx` (`Func.cpp`, `GlobalCntx.cpp`, `LocalCntx.cpp`), the segments of both reservers |
| `Context_proofs` | lemmas and theorems about `Context` |
| `SizeClass` | pure operators: `Tag::Realm`, `Tag::Size`, the choice of an allocator by size, the budgets of the operators `new`, the place of parcels |
| `Interface` | what an application calls: `Alloc`, `Free`, `Align`, `ReAlloc`, `Size`, and `Posix.cpp` on top of them; `Relay` |
| `Interface_proofs` | lemmas and theorems about `Interface` and `SizeClass` |
| `WorkerThread` | the class `Thread` of the test program |
| `WorkerThread_proofs` | theorem about `WorkerThread` |
| `MC...` | instances for TLC |

`LocalPool` and `LocalCram` stand on the same two modules, as the two classes of the code stand on
`Cache`. `Reserver` uses heap and system as amounts only; what it needs of the heap, that
blocks never overlap and that a failure means there was no room, is what `GlobalHeap` is
checked for. A `LocalPool` or `LocalCram` is to a reserver what a `LocalAny` is: a block that is taken
with `Alloc` and given back by the owner or by another thread. `Context` and `Interface` look at the
same system from above: `Context` keeps of an allocator only that a thread has a pool, or a
block cached, and asks what happens to it when contexts come and go; `Interface` takes the
allocators as a source of addresses, whose sizes `SizeClass` computes with the program's own numbers.
`WorkerThread` is independent of the rest: it is the test program's own.

### State and grain: the allocators

The variables have the names of the code (`mListST`, `maListMT`, `mRevolverFree`,
`mRevolverAlloc`, `mbCache`, `mnCache`, `mvParcel`). A list is a sequence, head first. `pc`
says where a thread is; `pParcel`, `oRevolver`, `pListMT` are the locals of
a `Free` under way, `nCache`, `nSwept`, `oCache` those of `Clearance`.

One action is one access to a shared atomic. `Free` is `Free` (read `mbCache`; for the owner
also the push on its own list, which nobody else sees), then `Fetch`, `Load`, `Cas` (the
`fetch_add`, `load` and `compare_exchange` of `ListMT`), then `FreeDec` (the `fetch_sub` of
`DecCache`) and `Delete`. `Clearance` is `ClearanceBegin` (store `mbCache`), `ClearanceWalk`
(count the own list), one `ClearanceSweep` per slot (`exchange(cpInvalid)`), `ClearanceEnd`
(`fetch_sub`), then `Renew` or `Delete`. `Alloc` is one action (`AllocCached`, `AllocCarve`) or
starts a Clearance (`AllocExhausted`). All atomics of the code are acquire/release on
the variables concerned, every exchange is a read-modify-write, and the plain fields
are the owner's, so that interleaving of these actions is the behaviour of the
program; the parcel links written before a `compare_exchange` are published by it.

`live` is what the application holds: the application is the environment, any thread may
free any live parcel at any time, once. `mapped` says that the owner's `LocalCntx` still
points to the allocator, `bExit` that it is being destroyed. `nReturned`, `nDelete`
and `dangling` are history: parcels Clearance found, runs of `Delete`, and the places where
the object was used after a `Delete`.

After a `Delete` the memory belongs to a reserver. The model lets a thread that is still
inside go on, with the contents as they were left, records it in `dangling`, and lets the
`fetch_sub` of `ClearanceEnd` return zero or something else, since somebody may have
written there by then. What such a step would do to the next user of the memory is not modelled.

### State and grain: heap and reservers

`GlobalHeap` counts in cache lines, the unit to which the code rounds every size. A node is named by
its address; `mOrder`, `ms` and `mpFree` are its fields. A chain of a free list
is a sequence, head first. The classes of the lists come from the function `bit`, a power of two. A critical section of the heap's mutex is one action, built from
operators that follow the functions of the code (`FreeCut`, `AddFree`, `FreeOff`, `Construct`, `Destroy`).
`HeapAlloc` takes two of them, `AllocUpper` and `AllocLower`, and other threads come in between.
`Free` reads the size of the node before it takes the mutex, so that is an action of its own
(`FreeRead`, then `FreeLocked`). `asked` and `alone` are history: what the caller
of a block wanted, and the threads that nobody has disturbed since their `AllocUpper`.

`Reserver` has the stacks (`maReserver`, per thread and realm; `maaReserver`, per realm and slot of the
ring), the two ring counters of a realm, the spinlocks, and of each block in existence
its tag and, when it is in use, its owner. Push and pop are a few instructions under a spinlock
that nothing interrupts: one action each, enabled when the lock is free. `Release` holds the
spinlock over any number of frees into the heap, hence `Lock` and one `Drain` per block; it looks
at the offset without the lock first (`Look`). `nTry` tells the four attempts of an allocation apart:
`GlobalReserver::Alloc` tries, releases and tries again, `LocalReserver::Alloc` gives up the thread's
own blocks and does all of that once more. The heap's mutex is taken under a spinlock in
`Release` but never the other way round and is not held across a step here, so it is part of
the actions that use it. A thread that ends (`Exit`) may be followed by another with
the same id, so it returns to `idle`: that is how a block's `mId` can match a thread which never
allocated it. The ring counters are kept modulo `mnRevolver`; the
code keeps 16 bits and masks, and `mnRevolver` is a power of two. Memory is given while there is a
name left for the block (`Fits`), a bound that no run reaches.

### State and grain: contexts, interface, worker

In `Context` a thread that is inside a call has a `stack` of labels, innermost first, one per function it
has entered and not left: that is how a construction is interrupted by the call it makes
itself. `Once` is `call_once` and the loop behind it, `ConstructHeap` and `ConstructSegment` are
`GlobalCntx`'s constructor with the publication of the context in between, `LocalSegment` and `Body`
the constructor of `LocalCntx`, `Destruct`, `ClearPool` and `Give` its destructor, which runs as often as
`gvLocalCntx` says. `Name` is the first mention of the `thread_local` object in a thread: it registers the destructor, and some
C libraries allocate for that, so the model may go through the whole call once more.
`life` says whether a thread runs or is past its own destructor ("late"), when other
destructors may still call. `unready` records every use of something that is not there. `mapRealm`, `cached` and
`mapPool` are what a context knows it has; `taken` is a history of what its thread has had from the global reserver and not
given back, whether the context still knows of it or not, and `doubled` names the threads whose context was
built over one they had. So what `New` overwrites (`LocalReserver.cpp:96`) stays in `taken`. The allocation of the runtime in `Name` is a
small one, as it is for an entry in a list of destructors; in a thread that returns without ever having
mentioned its context no destructor runs later either, although some runtimes would still run one that a late call registers.

In `Interface` a block is an address on a page of its own, at any multiple of `csAlign` that `Residue`
lists; the function `relay` is what the `Relay` objects in memory say. Every call is one action: nothing is shared
but the allocators below. `copied` records what `ReAlloc` copied, what it had to copy, and what
both blocks have room for.

`WorkerThread` has one action per access of `mf`, `mb` or `mv` and per operation on a mutex or a
condition variable. The end of a wait is an action too (`Spurious`), without a reason. The locals `b` and `f` of
`Work` are variables, because `f` outlives the round of the loop it was read in, and it
starts with any value, since the code does not initialize it.

### Bounds

The pool run has 4 parcels and slots (256 in the code), a counter modulo 8 (2^16) and
three threads. Four parcels let the two foreign threads hold slots while the owner allocates
from others and the counter wraps; the properties hold by a counting argument that
does not depend on the size, and it is proved for every size (section 4).
The cram run has 2 realms (17 in the code), rings of 4 (32), three threads and a
memory of 4 * `bitB` = 12 units, of which the small realm takes four and the large one seven; what matters of the sizes, that a
footprint is larger than 1/4 of the memory, is as in the code. Nothing else is
bounded: states are finite because parcels are. `NewCram` allocates at once from the cram it
creates, hence `CramExit` waits for the first parcel.

The heap run has an area of 11 units and requests of one to three: room for up to five nodes
with data, so that a node can be merged on either side, on both and on none, and a list can have two
members. One and two are powers of two, for which `Upper` and `Lower` agree, and three
is not. The reserver runs have three block names, stacks of one block and two threads: with two realms
(one from the heap, one from the system; of the second a thread keeps nothing) and one
slot per ring, and with one realm and two slots. A system of four (three) units is exhausted
after one or two blocks, so that every release and retry is reached.

`contexts` has the main thread and one more, reservers of two segments (so that a
half-built reserver exists) and one `LocalAny` block per thread. `interface` uses the sizes of the program: requests of 0 and 9
bytes, the largest pool (1024), the smallest cram (1025), a size that carries into the next power of two
(2047), one beyond the crams; alignments of 4096 and of 24, which is no power of two and is
passed on as it is; blocks at the start and near the end of a page; two blocks at a time, enough for
`ReAlloc` beside a block that stays. `sPool`, `sCram` and `sAny` are the sizes of the three classes on a 64-bit build. `worker` hands over
three functions; the proof covers any number.

### Fairness

`WF` on `Clearance` as a whole and on each thread's steps of a `Free`: a running thread
runs on, and there is no lock to wait for. No fairness for `Alloc`, `Free` and the end of a
thread, which the application decides on. In `Reserver` the same: `WF` on the steps of each thread within
a call. The spinlock of the code does not keep a thread from being overtaken for ever by the releases
of others, so no strong fairness is assumed, and `CallsReturn` is stated for threads to which that does
not happen. In `Context` it is `WF` on the steps of each thread inside a call; whether and when threads call, start and end
is free. In `WorkerThread` it is `WF` on the steps of both threads and `SF` on taking a mutex: a
`std::mutex` that comes free again and again is obtained in the end. Wake-ups for no reason get no fairness, so
that only the notifications of the code can be relied on.

## 3. Runs

| run | what it shows |
|---|---|
| `pool_safety` | types; one parcel per slot (`SlotHoldsOne`); a drawn slot is contended by Clearance only (`DrawnSlotIsFree`); no parcel in two places (`OnePlace`); `mnCache` is exact (`Accounting`); nobody deletes under a parcel or finds the memory gone during `Alloc` or `Free` (`DeleteWhenIdle`); if Clearance found a parcel, there is a single `Delete` (`DeletedOnceIfCached`); a closed allocator stays closed (`ClosedForGood`); refinement of `Allocator`; the inductive invariant of the proofs (`IInv`) |
| `pool_liveness` | `Free` returns; the last free after Clearance deletes; an allocator cleared by `~LocalCntx` is deleted |
| `pool_destroyed_twice`, `cram_leak`, `interface_memalign` | violations, below |
| `cram_safety` | carved parcels are disjoint, keep their realm (`ParcelsApart`) and never outnumber the ring (`CarvedFitsRing`); the pool's main safety properties and the refinement for crams |
| `heap_safety` | nodes tile the area in the order of the order list (`Tiling`); lists, mask, `mpFree` and sizes agree (`ListsAgree`); no two free neighbours (`Merged`); what is not free is held by somebody, and the size read before the mutex still holds under it (`Holders`); an allocation that nobody disturbs fails only if nothing fits (`FailsOnlyIfFull`); refinement of `HeldBlocks`: blocks are as large as asked for and disjoint |
| `reserver_safety` | stacks keep their bounds (in `TypeOK`); a block is in one place and none is lost (`OnePlace`) or put on the stack of another realm (`RightRealm`); an allocation fails only after its thread has given up all it cached and, undisturbed, when nothing is left to be released (`FailsOnlyIfTight`) |
| `reserver_liveness` | on a ring of two slots: spinlocks are released, calls return |
| `contexts` | nothing is used before it is set up or after it is gone (`Ready`); after its destructor a thread has no context and has given back its segments, blocks and pool, the main thread also after a static destructor had its context rebuilt; what stays taken is one whole inner construction that an outer one overwrote, or in another thread than `Main` one whole context that a late call built again, and never more (`GivenBack`); calls and destructors return |
| `interface` | blocks lie inside their memory, behind their headers and on their alignment (`Contained`); each is held and freed under one address (`OneBlockEach`); `ReAlloc` copies enough and not too much (`ReAllocKeeps`); a realm is the smallest that fits, and parcels stay inside what their allocator asked for (`RightClass`) |
| `worker` | work runs in order, with its own value, once, and before `Wait` returns (`Handover`); `Call`, `Wait` and the destructor return: no wake-up is lost |

`LastFreeDeletes` says what `README.md:141` and `:151` promise where it holds: parcels are
still out when Clearance is over. The violating runs show where it does not.

* **Destroyed twice** (`LocalPool.cpp:106`, `:74`, `LocalCntx.cpp:25`). Clearance finds nothing;
  before its `DecCache(0)` the other threads free everything and the last one deletes. The
  owner's `DecCache(0)` is then performed on memory that is gone, returns 0 too, and
  `~LocalCntx` deletes again. `DeletedOnceIfCached` is the boundary: one parcel found is enough
  to exclude it.
* **Leak** (`LocalPool.cpp:94`, `LocalCram.cpp:122`). `Alloc` ignores that `Clearance()` returned
  0; no free will ever return 0 again. For a pool it takes foreign frees between the owner's
  look at an empty slot and the closing of the ring; a cram needs no second thread, which is what
  the run shows. In a debug build `~GlobalCntx` then waits for ever (`GlobalCntx.cpp:21`), at level 2 in any case, at level 1, the
  default, if a `LocalCntx` is left over as well (`GlobalCntx.cpp:14`).
* **memalign** (`Posix.cpp:95`) calls `aligned_alloc(size, alignment)`: the block is aligned to the
  size, and `posix_memalign` and `valloc` with it. `pvalloc` comes out right when the size is one page.

Five things the models show that no run of its own reports:

* After `Clearance()` the last foreign free may delete the allocator before `Alloc` reads `mpOwner`
  (`LocalPool.cpp:95`, `LocalCram.cpp:123`). `DeletedOnceIfCached` says that this read is all that can
  go wrong once a parcel has been found: `dangling` holds nothing but "renew".
* `GlobalCntx.cpp:41` publishes the global context before its reserver is built. `Ready` holds because a second
  thread is started by `std::thread`, which allocates first and so has everything built;
  without that guard in `Start`, TLC finds a thread that uses the half-built reserver.
* A runtime that allocates when it registers the destructor of the context (`Func.cpp:107`) makes a thread lose
  memory for good: the inner construction has taken its `cnRealm` segments from the global reserver and made a pool for the allocation, and
  the outer one writes over every pointer to them (`LocalReserver.cpp:96`, `LocalCntx.cpp:46`). `GivenBack` says that it is these
  `cnRealm + 1` blocks exactly, once per thread at the most (`Lost`). The code holds the count of constructions, `gvLocalCntx`, for
  such a case, so that the destructor runs as often as the constructor; the memory it does not hold.
* A call in a thread other than the main one after the destructor of its context builds the context again, and no destructor is
  left to take it down: it stays, whole, with all it took (second part of `GivenBack`). `Config.h:11-12` speaks of leaked threads of unknown
  cause, and `GlobalCntx.cpp:13` ignores "excess LocalCntx" at level 1.
* The worker of the test program may run its last function again when it is stopped
  (`Main.cpp:144`): `f` is not read again once `mb` is false. `Handover` is therefore stated
  for the time until the destructor begins.

Two things hold only without interference, and say so. `HeapAlloc` may fail although a free node fits,
when another thread frees or allocates between its two sections (`alone` in
`FailsOnlyIfFull`); `GlobalReserver` then releases and asks again. An allocation from the reservers
may fail although another thread has just pushed a block to a slot it had already released. Heap and system
are amounts in `Reserver`, so that nothing fits when an allocation fails is what its guard says;
what `FailsOnlyIfTight` adds is that the thread has given up its own blocks and come through every shared stack.
That `AllocLower` looks at one list only is harmless: all nodes of the later lists are larger than the
request, so `AllocUpper` would have found them.

## 4. Proofs

`LocalPool_proofs` proves about `LocalPool`, for every number of
parcels, every set of threads and every counter width that `cnRevolver` divides; `LocalCram_proofs` about
`LocalCram`, for every number of realms, size of a realm, length of a ring and set of threads;
`GlobalHeap_proofs` about `GlobalHeap`, for every size of the area, number of lists, set of requests and set of
threads; `Reserver_proofs` about `Reserver`, for every set of threads and blocks, number of realms and of shared stacks, depth of
the stacks, size of the blocks and of the memory; `Context_proofs` about `Context`, for every set of threads
and number of segments; `Interface_proofs` about `Interface` and `SizeClass`, for every set of requests and alignments up to
128 MiB, places in a page and number of blocks; `WorkerThread_proofs` about `WorkerThread`, for every `MaxCall`:

| theorem | property |
|---|---|
| `TypeCorrect` | `TypeOK` |
| `Inductive` | `IInv`, the inductive invariant |
| `OneParcelPerSlot`, `Uncontended` | `SlotHoldsOne`, `DrawnSlotIsFree` |
| `NeverTwice`, `CountExact` | `OnePlace`, `Accounting` |
| `DeletedIdle`, `DeletedOnce` | `DeleteWhenIdle`, `DeletedOnceIfCached` |
| `StaysClosed` | `ClosedForGood` |
| `Implements` | `ImplementsAllocator`, by the refinement mapping `open <- mbCache`, `reclaimed <- nDelete > 0` |
| `CramInductive` | `CramInv`, the inductive invariant of a cram |
| `CarvedApart`, `CarvedFit` | `ParcelsApart`, `CarvedFitsRing` |
| `CountedInductive` | `CountedInv`, which adds the rings, the places of the parcels and the count to `CramInv` |
| `CramNeverTwice`, `CramCountExact` | `OnePlace`, `Accounting` of `LocalCram` |
| `CramDeletedIdle` | `DeleteWhenIdle` of `LocalCram` |
| `CramImplements` | `ImplementsAllocator` of `LocalCram`, by the same mapping |
| `HeapInductive` | `HeapInv`, the inductive invariant of the heap |
| `HeapTypeCorrect`, `AreaTiled` | `TypeOK`, `Tiling` of `GlobalHeap` |
| `FreeListsAgree`, `MergingComplete` | `ListsAgree`, `Merged` |
| `HeldOnce`, `FailureIsTrue` | `Holders`, `FailsOnlyIfFull` |
| `HeapImplements` | `ImplementsHeldBlocks`; the blocks held are the data of the nodes that are not free |
| `ReserverInductive` | `ReserverInv`, the inductive invariant of the reservers |
| `ReserverTypeCorrect`, `RealmsRight` | `TypeOK`, `RightRealm` of `Reserver` |
| `BlocksOnePlace` | `OnePlace` of `Reserver` |
| `FailureIsTight` | `FailsOnlyIfTight` |
| `ContextInductive` | `ContextInv`, the inductive invariant of the contexts |
| `NothingUnready`, `LeavesNothing` | `Ready`, `GivenBack` |
| `TakenAccounted` | `AccountedInv`: `taken` is what the context has and what a second construction overwrote |
| `InterfaceInductive` | `InterfaceInv`, the inductive invariant of the interface |
| `HeldContained`, `BlocksHeldOnce` | `Contained`, `OneBlockEach` |
| `ReAllocCopies`, `ClassesRight` | `ReAllocKeeps`, `RightClass` |
| `HandedOver` | `Handover` of `WorkerThread` |

Assumptions: `WorkerAssumption` (`MaxCall` is a natural number); `CacheAssumption` (the owner is a thread, the parcels are finitely many, `NULL` and
`cpInvalid` are no parcels, `cnRevolver` divides `cnCounter`) and `PoolAssumption` (one
cache, as many parcels as slots: `LocalPool.h` and `Config.h` say both); `CramAssumption` (the memory is `bitB` times the
length of a ring and the largest parcel fits, as `LocalCram.cpp` and `Config.h` compute it);
`ReserverAssumption` (the names of the blocks are finitely many numbers, there is a realm and a slot, sizes are not
zero, `NULL` is no thread and no number); `ContextAssumption` (`Main` is a thread, a reserver has a segment);
`InterfaceAssumption` (requests, alignments and the `sizeof` of the allocators are at most `Largest`, which is at most 2^27, a bound so
that sums and budgets stay within the 31 bits `Msb` and `And` are defined for; blocks start on a multiple of `csAlign` and fit in a `Page`);
`HeapAssumption` (no request is larger than the area or zero, and the last of the `cnFree` lists is for sizes beyond
the area: the code has one list per bit of a size).

The invariant the code relies on is not in any one of these properties. That two frees
never meet in a slot is a counting argument over the whole pool, and it is written
down nowhere in the code: `Window(c)` says that the claimed slots (those that hold a parcel
and those drawn by a free under way) lie among the `c` slots from `mRevolverAlloc` to
`mRevolverFree`, and that `c` plus the number of parcels that have no slot (held by the
application, on the owner's list, or on their way to `fetch_add`) is at most `cnRevolver`. `Fetch`
moves a parcel from the second group to the first, so there is room behind the window;
`TakeMT` moves one back at the other end; nothing else matters. The wrap of the 16-bit
counter is harmless because 2^16 is a multiple of `cnRevolver` (`ModSuccWrap`).

On this rest the parts about Clearance: `Closing` (slots are closed in order, none twice, so
`CountSlot` is exact), `CountInv` (`mnCache` is the number of parcels outstanding plus what
Clearance has not subtracted, and a thread that is to delete found it at zero) and
`LoneDelete` (once Clearance has found a parcel a single thread sees zero). Each action has a
lemma on what it does to `Outstanding`, and one on the ring.

That carved parcels fit is arithmetic on top of a bookkeeping invariant. `CramInv` says that a parcel
is only ever on a list of the realm in its tag (`Filed`), that carved parcels lie one behind the other
below `mvParcel` (`Laid`) and that there are at most `mvParcel / (bitB + 1)` of them (`Bounded`): a parcel takes
more than `bitB` whatever its realm, and the memory is `bitB` times the length of the ring.

A cram has a window per realm, and nothing fixed to bound it with: parcels come into being during the run, and which
realm gets how many is up to the requests. `RingWindow(r)` therefore says that the `c` slots and the parcels of the
realm that have no slot are together no more than the parcels carved for that realm so far. Carving adds one to both
sides; and as all realms together never have more parcels than one ring has slots (`CarvedCount`, from `Bounded`), the window is
shorter than the ring whenever a free is about to draw. Carving is also the step where a parcel enters `Outstanding`, which in a pool
only ever shrinks or stays. `Apart` puts each parcel at one place of four (`AtOne`), `Others(p)` says that a step moves at most `p`, and
with these two no step needs more than a look at one parcel. Clearance goes through the realms one
after the other: `Closing` gives the order of slots across them, and `Steady` says that the set of lists already
counted (`Walked`) changes in `ClearanceWalk` alone, where the length of a list without
repetitions is the number of parcels that leave `Outstanding` (`OnceCount`).

`HeapInv` is `Good(Heap)`, what holds of the structure, and `Users`, who holds what. `Good` has five parts: `Chain`
(the nodes lie one behind the other and the order list follows them, both ways), `Listed` (each list holds, once, the
free nodes that say they are on it), `Masked`, `Sorted` (a free node is on the list of its size) and `Apart` (no free
neighbours). Most of them break in the middle of a critical section and hold again at its end, so the parts
are predicates on the fields of a heap, and every operator (`FreeCut`, `FreeOff`, `AddFree`, `Construct`, `Destroy`) has
a lemma on what it makes of them: `Masked` takes the list whose bit may be stale until `FreeOff`, and `Half` is the heap between
the two merges of `Free`, with a node whose size is decided but not written. `ChainJoin` and `ChainSplit` are
the two ways in which the tiling changes.

`FailureIsTrue` and `HeapImplements` rest on three facts about size classes, for sizes of any width: a list from
`Upper(s)` on has only nodes that are large enough (`UpperEnough`), `Upper` is at most one class above `Lower`
(`UpperNext`), and `Lower` is monotonic. They are what makes it right that `AllocUpper` takes a head without
a look at its size and that `AllocLower` tries a single list. They are proved from the recursion of `bit`
by least counterexample: the natural numbers are well-founded, so a set of exceptions would have a minimum.

Where a block is, in `Reserver`, is a function from places (the stacks, the shared stacks, the hands of a thread that frees, the
application) to sets of blocks, and `Spread` says that its values partition the blocks the heap and the system have given. Every
step moves one block from one place to another, or in, or out, and there is one lemma per kind of move (`OwnToUse`, `UseToFreeing`,
`FreeingToShared`, ...), so no sum and no cardinality comes up before the very end. `RightRealm` is inductive with that: the tag of a block
does not change while it is anywhere. `FailsOnlyIfTight` needs to know how far an allocation has come. `Spilled` tells from `nTry` and
the label whether the thread has been through `LocalReserver::Release`, after which its stacks are empty (`GivenUp`) until the
allocation is over; `Through` says how many shared stacks it has then found empty or emptied, in the order of the loops of
`GlobalReserver::Release`, and `Passed` that they are still empty as long as nobody disturbed it. That those two loops
come through every slot is arithmetic on quotients and remainders (`OneSlot`, `SlotOfRelease`, `AdvancePassed`).

`ContextInv` says for each label a stack may have on top what its thread has of a context there. The point of it is what may lie below: a
call waits under whatever is building its context, and the only call that is ever below another one (`Inner`) is the one in whose
first mention of the `thread_local` object the runtime allocates. As this happens once per thread, before the thread has
a context, a context is constructed twice at the most and `gvLocalCntx` never wraps. `AccountedInv` keeps the books on top of that, by one lemma
per step: `taken` is `Has` (segments, stacks and pool the context knows of) plus `Over` (what an outer construction has overwritten, which
until its `Body` empties the tables is the segments only, and then the pool too). After the destructor `Has` is zero, so what
is left is `Lost`. That nothing is used half-built rests on `GlobalInv`: until `gbGlobalCntx` is "done" all threads but `Main` are unborn, and from then on the global
context is whole until `Main`, past all its destructors, takes it down, when no other thread is left that runs.

`InterfaceInv` says that every block is held at one address, that no two addresses are in the same page, and, for an address behind a
`Relay`, that it lies `sHeader` behind the start of the block and `ms` bytes before its end. It is stated of
three functions and not of the variables (`Consistent`), because `ReAlloc` is then a block taken (`Taken`) and another one given back (`Given`), the two
lemmas every operation is made of. That `Fresh` has a page at all is the pigeonhole principle. The rest is arithmetic. `v & w` is
taken by halves down to single bits, and three facts climb back up from there: it is at most `w` (`AndBound`), for `w` = 2^k - 1 it
is the remainder by 2^k (`AndMask`), and for `w` = `v` - 1 it is zero for powers of two only (`AndAlone`). So `align_t` gives
at least `v` and less than `v + a` for any `a`, a power of two or not, which is what keeps a `Relay` inside its block, and a multiple of `a`
when `IsPowerOf2` says yes. A rounded size is `w * bit(e)` with `w` in 16 .. 32 (`RoundedTo`); with `w` = 32 it is also
`16 * bit(e + 1)`, and `Realm` and `Size` agree on the two readings (`RealmOf`, `SizeOf`), which is the carry into the exponent.

The hand-over of work needs no such counting and, perhaps unexpectedly, no mutex: `HandInv` says that the function in `mf`
is the last one handed over and that it is the only one that may still have to run
(`WorkInv`), that a caller about to hand over has seen `mf` null, which nobody else changes
(`CallerInv`), and what a `Wait` has established (`WaitedInv`). The mutexes are there for the wake-ups, that is for
`CallsReturn`, which is model-checked.

Only model-checked: liveness and fairness (out of the prover's reach; for pools, reservers, contexts and the worker).
Every invariant, every action property and every refinement the runs check is proved. The positive liveness
properties are not run on crams, which share the actions concerned with pools (`CachedLocal`).

## 5. Not modelled, and the plan

Some hazards in `PROJECT.json` have no property, and say why: the interleaving of another thread between the two sections of
`HeapAlloc`, the heap's mutex under the reservers' spinlocks, a second thread before the global reserver is built, and calls and
functions after the end.

Left out for good: debug counters and the wait of a debug build in `~GlobalCntx`, logging, timing, the
tests and benchmark of `Main.cpp` themselves (their calls are among those the other modules allow), weak-memory effects of the
debug assertions, the system calls behind `SystemAlloc` and `SystemFree`, error codes and exceptions of the
interface, the zeroing of `calloc`. Not modelled because TLC counts to 2^31 only: sizes from 2^31 on, with the overflow of `calloc`'s
product, and the depths of the reservers' stacks (`NumReserver`), which are constants of `Reserver`. An aligned
request with an alignment of 0 is outside `Interface`: `align_t` then returns 0 and the headers would be written in front of the null address
(`memalign`, and so `posix_memalign`, with a size of 0 leads there, since it swaps its arguments).

What would come next: a model of several allocators of one thread over time, on top of `CachedLocal` and `Reserver`.

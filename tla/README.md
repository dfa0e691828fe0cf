# TLA+ models of the ZGC fork in `src/`

`src/` is the `gc/z` directory of HotSpot (Generational ZGC) with one extension: young pages
that are not worth evacuating are *flip-aged* and, instead of only being kept, get a **free
list** built from their livemap. They become *recyclable* pages, into whose holes the GC
workers relocate the survivors of other pages (`ZRelocateSmallAllocator`,
`get_next_recyclable_page`, `AllocatorWrapper`, `JSMalloc`, the buddy allocators).

The models start at relocation, the part the fork changes and the part of ZGC where the most
parties meet: GC workers of one generation, mutators in barriers, the workers of the other
generation, the VM thread at safepoints, a director that changes the number of workers. From
there they go outwards to marking, barriers, references, the page allocator and the threads
that run collections, and inwards to the data structures these rest on.

Contents: [1 the system](#1-the-system) · [2 modules and code](#2-the-modules-and-the-code-they-model) ·
[3 runs](#3-the-runs) · [4 proofs](#4-what-is-proved) · [5 findings](#5-findings) ·
[6 what is not modelled](#6-what-is-not-modelled) · [7 plan](#7-plan)

## 1. The system

| component | state | operations | interacts with | module |
|---|---|---|---|---|
| **Forwarding** `zForwarding.*` | `_ref_count` (positive: retained, negative: claimed for in-place relocation, 0: released), `_ref_lock`, `_claimed`, `_in_place`, `_done` | `retain_page`, `release_page`, `claim`, `in_place_relocation_claim_page`, `detach_page`, `mark_done` | mutators in `relocate_object`, GC workers in `do_forwarding` | `ZForwarding` |
| **Forwarding table** `zForwarding.inline.hpp` | open-addressing array of 64-bit entries | `find`, `insert` | everybody who relocates or remaps an object | `ZForwardingTable` |
| **Relocation queue and task** `zRelocate.*`, `zWorkers.cpp` | `_queue`, `_nworkers`, `_nsynchronized`, `_synchronize`, `_needs_attention`, `_is_active` | `join`, `leave`, `add_and_wait`, `synchronize_poll`, `synchronize`, `desynchronize`; `ZRelocateTask::work`, restarts | stalled mutators, workers, VM thread, director | `ZRelocateQueue` |
| **Relocation targets** `zRelocate.cpp` | per worker `_target[age]`, `_recycle_target`; shared `_r_page_index` | allocate in a free list or at the top, revive, retire, start in place | page allocator, relocation set | `ZRelocateTargets` |
| **Relocation set** `zRelocationSet*.cpp`, `zGeneration.cpp` | selector's arrays, forwardings, promoted and recyclable pages | select, install, flip ages, reset | marking, page table | `ZRelocationSet` |
| **Remembered fields of a forwarding** `zForwarding.cpp`, `zRemembered.cpp` | `_relocated_remembered_fields_state/_array/_publish_young_seqnum`, two bitmaps per page, `FoundOld` | publish, notify, apply; scan a page, a forwarding; flip | old collection (OC), young collection (YC) | `ZRelocatedRemset` |
| **Barriers and coloured pointers** `zBarrier*`, `zAddress*`, `zStoreBarrierBuffer*` | colours, fields, a thread's buffer and watermark | load, store, mark, promote, remember, heal; flip of the colours | all threads, both generations | `ZBarrier` |
| **Marking** `zMark*` | stripes, local stacks, `ZMarkTerminate` counters, live caches | mark, publish, drain, steal, flush, terminate, end | workers, mutators, VM thread | `ZMark`, `ZMarkStackAllocator` |
| **Livemap** `zLiveMap.*` | seqnum, segment live and claim bits, mark bits, counts | `set` with a lazy reset of map and segments, iterate | marking threads | `ZLiveMap` |
| **References, weak roots** `zReferenceProcessor.*`, `zWeakRootsProcessor.cpp` | discovered lists, pending list, blocked resurrection | discover, process, enqueue, unblock | mutators loading referents | `ZReferenceProcessor` |
| **Code roots** `zNMethod*`, `zUnload.cpp` | table of methods, armed methods | register, unregister, rebuild, iterate, unlink, purge | mutators, both generations | `ZNMethodTable`, `MCZNMethodTable` |
| **Page allocator, cache, memory** `zPageAllocator.*`, `zPageCache.*`, `zMemory.cpp`, `zPhysicalMemory.cpp`, `zUnmapper.cpp`, `zUncommitter.cpp`, `zSafeDelete.*` | capacity, used, claimed, `_stalled` FIFO, cache, free areas, deferred deletes | alloc (stall, satisfy, out of memory), free, commit failure, uncommit, unmap, safe recycle | every allocation | `ZPageAllocator`, `ZPageCache` |
| **Object allocator** `zObjectAllocator.*` | shared pages per CPU and age | allocate at the top, install a page, undo, retire | mutators, page allocator | `ZObjectAllocator` |
| **Drivers and ports** `zDriver*` | messages, queues, driver lock | send, receive, ack, collect, `handle_alloc_stalls` | stalled allocations, requests | `ZDriver` |
| **Director** `zDirector.cpp`, `zWorkers.cpp` | samples, requested workers | rules, worker selection, resizes | drivers, workers | `ZDirector` |
| **Free-list allocators** `JSMalloc*`, `AllocatorWrapper*`, `*buddy*` | free lists with a bitmap, buddy bitmaps, lazy lists | `allocate`, `deallocate`, `free_range`, `reset` | `ZPage::init_free_list`, `alloc_object_free_list` | `ZPageFreeList` and the allocators |
| **JNI critical regions** `zJNICritical.cpp` | one signed count | enter, exit, block, unblock | Java threads, drivers | `ZJNICritical` |
| **Index distributor** `zIndexDistributor.inline.hpp` | claim variables | claim tree, stripes | parallel iteration of the page table | `ZIndexDistributor` |

Not modelled: compiler support, statistics and verification, root iterators, start-up (section 6).

What is hard about it:

* **Page lifetime.** Mutators look at a page without a lock; the worker may overwrite it
  (in place) or give it away. One signed counter, one lock and one boolean decide.
* **Waiting in circles.** A mutator waits for a page; the worker that could relocate it has
  stopped for a safepoint, which waits for that mutator. YC workers retain pages whose OC
  worker waits for the release.
* **Two collections at once.** While an OC moves objects, any number of YCs start and end;
  each flips the remembered set bitmaps, so which bitmap holds a page's bits depends on when
  the question is asked; and which of the two generations made a pointer bad has to be told
  from its colour.
* **Lazy state.** Livemaps, free lists, colours and method entries are brought up to date by
  whoever meets them first.
* **Termination.** Marking ends when nobody has work, which everybody publishes late; workers
  sleep and are woken without holding the lock that the counters are read under.
* **Resource exhaustion.** Pages to relocate to may run out at any allocation, memory may be
  refused by the operating system half way through a page, the heap may be full for everybody.
* **Restart.** The number of workers changes in the middle of a task.

`hazards` in PROJECT.json lists these at the lines where they bite, each with the properties
that would catch it.

## 2. The modules and the code they model

`map` in PROJECT.json gives the lines of every definition. Modules named `*_proofs` hold
theorems about the modules they extend (`MCRelocation_proofs` also those about the parts
`MCRelocation` composes: table, queue, object allocator, critical regions); `MC*` modules give constants to a run, compose
modules, or, as `MCZDirector`, `MCZRelocatedRemset` and `MCZNMethodTable` (a part of `MCHeap`), hold an instance, so that a module with proofs can extend them
beside another component; the three abstract specifications are `ForwardingLease` (who may look at a page, and
when its memory may be overwritten), `ForwardingMap` (a write-once map from objects to
addresses) and `ObjectGraph` (the heap as the program sees it).

Everywhere: a section under a lock is one step, up to its `wait()`; a single load,
compare-and-swap, lock acquisition or wake-up outside one is a step of its own; labels in `pc` or its like
are the points between steps.

### Relocation

**ZForwarding** (refines `ForwardingLease`). `claimed`, `refCount`, `inPlace`, `done` are the fields of that name;
`refLock`/`refWaiters` are `_ref_lock` and the threads in its `wait()`, which may wake up
spuriously. `loaded[t]` is the local `ref_count` of the retry loops. The forwarding table is
the set `forwarded`; the queue's `add_and_wait` is an await on `done`. A mutator either
allocates, or fails to, releases, waits and then forwards. A worker may run out of pages, at most
once, which is what theorem `TargetsSafe` of `ZRelocateTargets_proofs` shows for the default value of
`ZMaxRelocationInFreeLists`.

**ZForwardingTable** (refines `ForwardingMap`). A thread reads one slot per step. `NEntries` is the constructor's rounding to a
power of two, `Slot(k, i)` the i-th slot probed for `k`. The address a thread inserts is named
after the thread, so that the winner can be told. The bit packing of an entry is abstracted.

**ZRelocateQueue.** `PollFast` is the read of `_needs_attention` without the lock. `queue` is a
set: `prune` and `prune_and_claim` do not depend on the order of the array. `Restart` is the
loop of `ZWorkers::run(ZRestartableTask*)`; the VM thread asks for any number of safepoints,
one after the other, and a safepoint needs the mutators to have resumed.

**ZRelocateTargets.** Sizes are numbers of units. A free list may fail any allocation
(fragmentation), the top of a page only those that do not fit. `retired` is a history variable.
The free pages are also what mutators allocate from, so a page allocation may always fail.

**ZRelocationSet.** Pages are visited in the order of their numbers, marking has given each any
number of live bytes within bounds. The selector's semi-sort, its cut-off by the fragmentation
limit, the tenuring threshold, the installation by workers in bulk out of one block of memory,
the flip of page ages with recycling, and the reset are actions. One young collection; the other
generation's concurrent changes to pages are left out.

**ZRelocatedRemset.** Objects are positions, each with one reference field; a bit of a bitmap is
a place (page, position). `ActiveRemsetIsCurrent` is the parity of young seqnums since the OC's
relocate start. The history variable `unscanned` holds the remembered fields the running YC
still owes a visit. When the page is freed its slot in the page table may be taken by a new
old page (`Reuse`).

### Barriers, marking, references, code

**ZBarrier** (refines `ObjectGraph`). Its first part is `zAddress.inline.hpp`. Pointers carry the colours as parities of the flips. One Java thread with a one-entry store
barrier buffer and a watermark; its barriers are atomic with the access, those of GC workers
take two steps (look, heal), with a compare-and-swap that may fail. Objects are alone on their
page and have one field. A young collection marks, promotes and relocates, with its remembered
set, any number of times; an old one runs beside it. Relocation by a barrier is a separate copy
step. An action constraint (`LowestFirst`) makes allocation take the lowest free page, which
loses no behaviour up to renaming.

**ZMark.** Workers, one mutator, the coordinator (`mark_follow`, `end`) and the VM thread
(handshakes, its own flush). Stacks hold `StackSize` entries. Stealing, rebalancing, resizing,
proactive and terminating flushes, resurrection and the snapshot-at-the-beginning store barrier
are actions. Spurious wake-ups are bounded and not fair.

**ZMarkStackAllocator.** The space that grows by compare-and-swap, magazines, the versioned
lock-free lists that stacks travel through.

**ZLiveMap.** Every load and atomic operation of `set` is a step. Bits start stale.

**ZReferenceProcessor.** References, referents and weak roots with the colours of their
pointers; workers' barriers are one step; the pending list is built by exchange and late linking, as in
the code. The soft-reference policy is any choice.

**ZNMethodTable.** The table has open addressing and changes under `CodeCache_lock` only; an
iteration reads the table there was when it began. The purge after `unlink` is safe because the
young driver is in the suspendible thread set from the construction of its roots task, which captures
the table, to its destruction (`zMark.cpp:951`), so that the rendezvous between unlink and
purge waits for it; `wait_until_iteration_done` has no caller in `src/`. `MinSize` 4 stands for 1024:
the thresholds of 30, 65 and 70 % are the same integer expressions.

### Memory and allocation

**ZPageAllocator**, **ZPageCache.** Two address spaces of granules, virtual and physical, a cache of
pages by type, the counters, the stalled queue, the unmapper, the uncommitter, the page table's
deferred deletes and recycles. The manager of free areas (`zMemory.cpp`) is a section of `ZPageAllocator`.
Commit may fail after any prefix. One NUMA node.

**ZPageFreeList** with **JSMallocZ** or **BTBuddyAllocator**: a recycled page's free list, rebuilt from the livemap by
each collection. **AllocatorClient** drives the general allocators (**BinaryBuddyAllocator**,
**IBuddyAllocator**, **BTBuddyAllocator**, **JSMalloc**, with **BuddyAllocator**, what the
buddies share): one thread, an allocator that starts free or full.

**ZObjectAllocator**, **ZJNICritical**, **ZIndexDistributor**: as in the code, one step per
atomic operation.

### Collections

**ZDriver.** One step is a section under the page allocator's or a port's lock, or the part of
`run_thread`, `collect_young` or `ZGenerationOld::collect` between two points where the driver
lock is taken or given up, a pause happens, or the queue of stalled allocations is looked at.
Sequence numbers are kept as what they are compared for: an allocation has or has not seen the
start of a young or an old collection since it stalled, a port entry has or has not seen a
message being received. A mark start needs all threads at a safepoint. A collection may free any
amount of memory, none included. Requests of the director come at any time. `earned` and
`served` are history variables.

**ZDirector.** Which rule fires is nondeterministic; the ratios of efficiencies come from the
small set `Efficiencies`. Samples, selection of worker counts, and resizes are separate steps
of the director, so that collections start, change phase and end in between.

### Compositions

**MCRelocation** and **MCHeap** each compose components that share no state: a behaviour exercises
one of them (`running`), the others stay as they are. This keeps the sum of the state spaces instead of
their product. Where components do share state, one assumes of the other what a property shows: `ZForwarding`
and `ZRelocatedRemset` assume what `ZRelocateTargets` and `ZForwarding` show, `ZRelocatedRemset`
changes phase as `ZRelocateQueue`'s `SafepointQuiescent` allows, `ZRelocateQueue` sees a forwarding as
claimed → released → done.

## 3. The runs

| run | properties | bounds and why they suffice |
|---|---|---|
| `forwarding` | `CountIsHolders`, `InPlaceIsExclusive`, `ForwardFinds`, `NobodyIsStuck`, `ImplementsLease` | 2 workers contend for the claim; 2 mutators make the count reach 3 and −3, so that both the "not yet" and the "last" release happen on each side of 0; of 2 objects one can be relocated by a mutator and one by the worker |
| `relocation` | `ResultIsForwarding`, `ImplementsMap` (table); `SafepointQuiescent`, `TaskCompletes`, `WaitsEnd` (queue); `EveryPageIsAccountedFor` (set, objects); `ObjectsAreSafe`; `CriticalRegionsAreBlocked` | table: 3 threads, hashes 7, 15 and 0 in 8 slots, so that two objects collide in the last slot and the probe wraps around to the third; queue: 2 workers, 2 pages, resizes between 1 and 2 and any number of safepoints, so that a worker holds one page while the other is queued or unvisited – one stalling mutator is enough for the liveness; set: 5 pages of all types, 2 workers; objects: 2 threads and pages that fill up; critical: 2 threads, 2 drivers, nesting 2 |
| `relocated_remset` | `EveryFieldScanned`, `ScansAreCurrent`, `MarkingEnds` | 4 young collections: each parity of the flip occurs before, during and after the relocation, and a page can be published under one YC and looked at by a later one; 3 objects, one without a remembered bit |
| `relocate_targets` | `TargetsAreSafe`, `RelocationEnds` | 2 workers, 3 from-pages, 2 recyclable pages (one too small for the second object), 2 free pages, one promoted page |
| `barrier` | `ImplementsGraph`, `OldToYoungIsRemembered`, `NothingDangles`, `HealingIsMonotonic` | several small heaps (`MCSituations`), each with a budget of collections and program steps that lets one kind of race happen: promotion, an old-to-young store, a late heal across a flip, a buffered store |
| `mark` | `MarkingIsComplete`, `MarkingEnds` (with every object counted as live once) | four situations: 2 workers with a mutator that stores and resurrects; one worker with resizes and spurious wake-ups; two roots whose children overflow a stack, with one worker and with two |
| `references` | `NothingDangles`, `WeakNullIsFinal`, `ReferencesAreHanded` | cases with at most 3 program operations, 1–2 old and at most one young collection; two references to one object, a chain through a final reference, a weak root |
| `page_allocator` | `MemoryIsPartitioned`, `ReadersAreSafe`, `StallsAreServed` | capacity 2 with a reserved range of 3 and a minimum capacity of 1, so that uncommitting, splitting, retyping, flushing, fragmentation of either space and partial commits all occur; 2 threads, one iterator |
| `page_allocator_min` | `UncommitKeepsMinCapacity`, violated | see findings |
| `driver` | `OutOfMemoryIsEarned`, `WaitersAreServed` | 2 stalling threads, so that one can be answered while the other is behind it, a heap of one page; 2 requesters, so that requests duplicate each other |
| `director` | `WorkersWithinLimits`, `StalledBoostsYoung` | 2 concurrent workers, explicit or default flags for each generation, ratios of efficiencies 0:0 to 1:1 |
| `heap` | `NothingIsHandedOutTwice`, `NothingIsLost` (free lists, stacks, indices); `MarksAreExact`, `LiveCountIsExact`, `BaseIsNearest` (livemap); `CodeIsSafe` (methods) | every layout of up to two live objects in a page of 128 bytes and two collections; a client with two blocks of each general allocator (that a refusal is earned is asked of the buddy allocators and the page's allocator without headers, not of `JSMalloc` with headers: finding 6); 2 threads marking in a map with two segments and stale bits; a worker and a mutator exchanging stacks of one magazine; 2 workers and a claim tree; 2 methods that collide in a table of 4, with a rebuild, 2 old collections and one young |

**Fairness.** `ZForwarding`, `ZForwardingTable` and `ZRelocateTargets` give every thread weak fairness
on its step: each of the finitely many competitors of a compare-and-swap changes the
word a bounded number of times, so no strong fairness is needed. `ZRelocateQueue` is
weakly fair for the workers, for mutators inside `add_and_wait`, and for the end of the task
and of a safepoint; not for stalling, asking for a safepoint, or resizing, which nobody has
to do. That a lock is handed on is what the operating system's mutexes give in practice.
`ZRelocatedRemset` is weakly fair for the OC and the YC worker; a mutator's relocation and a new
YC are never required. `ZMark` is weakly fair per worker, for the VM thread, for the coordinator and for a
mutator inside an operation. `ZDriver` is strongly fair for each driver, which competes with
the other for one lock that is free again and again and whose pauses wait until all threads are
at a safepoint: a mutex and a safepoint do not pass over the same thread for ever. It is weakly
fair for a thread that has stalled or got its page; nobody has to allocate or to ask for
a collection, and collections need not free memory. `ZDirector` is weakly fair for the director
and for the restart of a resized task.

`WaitersAreServed` has two halves: requests are answered, and a stalled allocation ends
*if at some point all requests are due to stalls*. Without that condition two threads that call
`System.gc` in turn keep the port of the major driver occupied, `send_async` drops the request of
the stalled allocation each time, and once an allocation has seen an old collection
`is_alloc_stalling_for_old` no longer makes others' collections clear soft references, so that it is
never failed. `WaitsEnd` and `StallsAreServed` have documented conditions too, next to their definitions:
the end of an uncommit does not call `satisfy_stalled`.

**Deadlock** is checked except where a behaviour really stops: in `relocation`, `heap`,
`barrier` and `references`, whose parts run for a bounded number of operations. Elsewhere a terminated system
stutters explicitly (`Finished`, `AllEnded`), so that a deadlock TLC reports is a real one.

**Mutants.** Every property is paired with a mutated definition, placed in the module before the
definition it mutates, that violates it under the run's own configuration: a missing wait, a
forgotten notify, a check-then-act in place of a compare-and-swap, the wrong bitmap, a handshake in
place of a rendezvous.

## 4. What is proved

Every statement here is checked by TLAPS for all values of the constants that satisfy the named
assumptions: any number of threads, pages, objects. The inductive invariant of each proof was first
checked by TLC on the run's instance or a larger one (distinct states in brackets). All proofs of an
invariant go the same way: a strengthening `IInv` that the initial states satisfy and every
action keeps, one step per action and under it one per conjunct the action disturbs.

**`ZForwarding_proofs`**: `TypeCorrect`, `CountCorrect`, `InPlaceExclusive`, `RecycledUnused`, `AssertsHold`,
`ForwardObjectFinds`, the action properties `ZeroCountIsFinal` and `NegativeCountIsOnlyReleased`, and the refinement
`CountingImplementsLease`. `CountIsHolders` alone is not inductive. It needs that one worker at most has the
forwarding (`ClaimInv`), that the count is negated from that worker's claim in place on (`CountInv`), that
a mutator swaps the count only after it has seen it positive (`RetainInv`), and who may hold the page once it is
relocated in place (`InPlaceInv`); that a thread turned away finds its object needs what is forwarded when (`ForwardedInv`),
and that the page is given away at zero only needs `PageInv`.

**`MCRelocation_proofs`**, for the parts of the run `relocation` and for their composition:

* *Table.* `TypeCorrect`, `NoDuplicatesHold`, `CursorsNeverPass`, `ResultsAgree`, and the refinement
  `TableImplementsMap`. The key is `Reachable`: from an object's first slot to its entry a probe passes
  only slots taken by other objects, so it meets the entry before it meets an empty slot; and `LocalsInv` says the
  same of what each thread has probed so far.
* *Queue and task.* `QueueTypeCorrect`, `QueueCountersCorrect`, `NobodyWaitsUnnoticed` (477,699). The invariant says
  what each counter counts (`CountersInv`), whose hands a page is in (`PagesInv`, `CoverInv`: a page is
  unvisited, or somebody's), when a worker may leave (`LeaveInv`) and where workers are during a safepoint
  (`StopInv`). That no wake-up is missed is a conjunct of its own (`WaitersAreNoticed`).
* *Critical regions.* `CriticalTypeCorrect`, `CriticalCountCorrect`: the count is the number of threads inside,
  complemented while a driver blocks (`CountInv`); a thread about to swap the count has seen it on the right
  side of zero (`SeenInv`), so that a swap that succeeds keeps the side.
* *Object allocator.* `AllocatorTypeCorrect`, `PagesArePrivate` (528,350): a page is one thread's until it is
  installed (`PrivateInv`), what slots and threads refer to is in use (`ReachableInv`), and a page without an object belongs
  to a thread that has still to decide about it (`KeptInv`).
* *Composition.* `SafepointsAreQuiescent`, `TasksComplete`, `CriticalBlocked`, `ObjectsSafe` and `TableAgrees` state the properties
  of the run for its own specification: a step of one part leaves the others' variables alone, so that
  each part's invariant stays true.

**`ZRelocatedRemset_proofs`**: `TypeCorrect`, `EveryFieldIsScanned`, `ScansAreOfCurrent` (11,848, and 85,655 of a larger
instance). That a young collection has visited every field it had to is not inductive;
one has to say at each moment where a field will be found: in the page's bits at the address where the object is, or in the
array of the forwarding that is published and not yet taken (`HandoverInv` during the first young
collection, `SettledInv` afterwards), and what each value of `_relocated_remembered_fields_state` says about the old worker's progress
(`StateInv`). The argument rests on phases changing only at safepoints, so that a field is handed over once, and on
objects being relocated in address order (`OrderInv`), so that in place they only move down over bits that
have been dealt with.

In the same module, which extends `ZPageAllocator` as well, about iterations over the page table: `ReadersSafe` (1,096,942), for any
number of iterators. Both deferring guards count the iterations (`GuardsInv`), and what an iteration is about to look at is
neither deleted nor handed out.

**`ZLiveMap_proofs`**: `TypeCorrect`, `MarksExact`, `CountExact`, `BaseNearest`, `ResetsAreExclusive` (960,516). `ResetInv` says who owns the stale map,
`SegmentsInv` who owns a segment between claim and live bit, `CallsInv` what each call knows from the word it
loaded; the marks of the collection are then exactly the bits in live segments (`MarksInv`) and the count is
theirs less what threads have still to add (`CountInv`). `BaseNearest` follows from the marks being exact: the greatest live
segment with a mark, and the greatest mark in it, are the nearest at or before a field.

In the same module, which extends `MCZNMethodTable` as well: `CodeSafe` (4,049,735, of a larger instance), for any methods, hash,
table sizes and workers, that is all of `CodeIsSafe`. The table is as the code searches it: a method is in it once, no entry on its
way there is empty, and some entry is, so that a search ends (`ExactInv`); registering at the first empty entry, leaving a
tombstone, and rebuilding into a table of a size that leaves room keep this, for any hash. `RebuiltKeeps` is an induction over the
entries that have moved. Unlinking runs beside registrations that replace the table it reads, so `UnlinkInv` speaks of the entries no
worker has dealt with: each still shows its method if that has a dead oop, and every registered one with a dead oop is among
them, so that none is left when the workers are done. `SeenInv` says why purging is safe: whoever has a
method in hand, or reads a table that shows it, has a method that is not about to be freed. For the mutators that is the
handshake, for the iteration over the roots that it keeps the rendezvous waiting (`PhaseInv`), for the tables that
deletion is deferred while an iteration is under way (`IterationsInv`).

**`ZRelocateTargets_proofs`**: `TargetsTypeCorrect`, `TargetsSafe` (508,821), under the hypothesis that every small object fits
`ZMaxRelocationInFreeLists`, as with its default value; finding 2 is what happens without it. A survivor
target exists only when the recyclable pages have run out (`ReviveInv`, `TargetInv`), so that reviving a page never
retires a target that is used on; and a page being relocated in place has room for what is left on
it (`InPlaceRoomInv`). The proof also needs at least one worker (`zArguments.cpp:59`).

**`ZBarrier_proofs`**: lemmas on colours; `HealsAreFast` (after a heal, the same barrier takes its fast path) and
`HealsAreMonotonic` (no heal makes a pointer worse for another barrier), for all pointers and colours the flips produce;
and `HealingMonotonic`, the action property `HealingIsMonotonic` of the whole specification, stores included
(408,997). A worker reads a field in one step and heals it in another, and everything may happen in between, so `WorkersInv` says
that a field a worker has read is still as it was, or load good by now, and for scans marked too.
Every step either improves fields, or puts or frees pages that no running collection relies on (`PageInv`, `YoungInv`, `OldInv`:
pages being relocated are neither new nor freed, promoted objects go to new old pages, a page is
done only when its object is relocated), or flips colours when no worker is in between.

**`ZMark_proofs`**: `MarkInvariant`, `MarkingComplete` (555,764), for any heap, roots, number of workers, sizes of stacks and
buffers, and number of stores. That nothing reachable is left unmarked when marking ends is the end of a long argument:

* *Snapshot* (`SnapshotInv`). An object is grey when it is marked, is to be marked by an entry somewhere, lies in the store
  buffer or is the value a store overwrites. A set is closed when it contains the grey objects and, of its members' fields, what
  those contain that are not store good yet. What the mutator holds, and what good fields contain, lies in every closed set. `ReachableFrom` is
  stated with such sets, not by recursion, so that a step is argued about one arbitrary set.
* *Following* (`FollowInv`, `WorkersInv`, `MutatorInv`). A marked object whose field is not good and not null is in an entry on a stripe's
  lists or on a stack some thread has installed, or in a worker's hands; no push, steal, overflow, resize or flush drops it.
* *Flushing and ending* (`FlushInv`, `EndInv`). Once the handshake has visited the mutator, either the mutator has no stacks, buffered values or
  store in progress, or the flush will answer that it found something, or marking is resurrected. When the coordinator has stopped
  the mutator and found nothing, all entries are gone: by `FollowInv` every marked object's field is good or null, so that the set of marked objects
  is itself closed, and by `SnapshotInv` nothing the mutator can reach lies outside.

**`ZDriver_proofs`**: `OutOfMemoryEarned` (399,758, and 7,846,473 of a larger instance), under the hypothesis `ScavengeBeforeFullGC`,
which is the default; finding 3 is what happens without it. A stalled thread is in the queue once and has no
result (`StalledInv`), and whoever has seen the start of an old collection that clears soft references is
owed no other (`EarnedInv`). That the largest number of stalled allocations that fit exists is proved by well-foundedness of the strict subset
relation, which needs no induction theorem with an operator parameter.

In the same module, about the director, an instance of `ZDirector` (`MCZDirector`): `WorkersLimited` (1,048,664), the property
`WorkersWithinLimits` for any flags, processors and ratios. The director decides from samples that may be out of date, so the
invariant bounds every place where a number of workers waits on its way: requests to a driver, samples,
selections. A sample of zero, of an inactive generation, never becomes a number of workers, because a selection is taken from
samples only where both generations together exceed `ConcGCThreads`, which neither does alone.

**Assumptions.** Each is stated next to the constants it is about and evaluated by TLC in a run: sets of threads and of objects are finite, sets
of different kinds of thread are disjoint, and values that stand for nobody or nothing are none of them; sizes and capacities
are numbers in the order the code has them in; `TargetsAssumption` asks for a worker, for layouts of pages
whose objects fit, and for recyclable pages that are listed once; `SituationsAssumption` says that the heaps `ZBarrier` starts
with consist of young and old pages with objects; `MarkAssumption` says that the heaps `ZMark` starts with are finite, that fields refer
to objects of the heap, and that `ZMarkStripesMax` is a power of two up to sixteen, the value in the code; `MethodsAssumption` that a worker unlinks, that
tables start with at least four entries (1024 in the code) and that claims are not empty. Hypotheses of single theorems: the default of a flag
(`TargetsSafe`, `OutOfMemoryEarned`), and in `WorkersLimited`, through the property, at least as many threads for the young generation as for
the old (finding 4).

**Only model-checked.** *Liveness* is beyond the prover: `NobodyIsStuck`, `MarkingEnds`, `RelocationEnds`, `WaitersAreServed`,
`WaitsEnd`, `StallsAreServed`, `StalledBoostsYoung`, `ReferencesAreHanded`. `MarkingEnds` includes that
every object is counted as live once, which the invariant of marking does not say. *What a folded definition computes for every input* needs
induction over data; the provers cannot instantiate the library's induction theorems. Well-foundedness of the natural
numbers, which needs no operator parameter, gives least elements of sets of numbers, and that was enough where a definition
chooses a greatest element (`BaseNearest`, `OutOfMemoryEarned`) and where a table is
rebuilt (`CodeSafe`), but has not been tried on sums: `MemoryIsPartitioned`,
`EveryPageIsAccountedFor` (live bytes, entries, the semi-sort). `NothingIsHandedOutTwice` and
`NothingIsLost` (trees of blocks), and what speaks of reachability while objects move or are
freed (`ImplementsGraph`, `OldToYoungIsRemembered`, `NothingDangles` of references), need invariants that have not been worked out.
`UncommitKeepsMinCapacity` is false. `WeakNullIsFinal` and `NothingDangles` of the barriers could be proved but are not yet.

## 5. Findings

**Checked by a run.** `page_allocator_min`: the comment at `zPageAllocator.cpp:871` says "Never
uncommit below min capacity". An allocation raises `_capacity` and `_used` before it commits; an
uncommit in between takes cached pages that the minimum needs once the commit fails. From then on
`_capacity` is below `_min_capacity`, and the unsigned difference `_capacity - retain` wraps
around, so that every further call uncommits.

**Met while modelling**, shown by reading (and by earlier or smaller models):

1. *Two comments are exchanged.* `zForwarding.hpp:50-51` says `reject` means the YC accepts the
   published information and `accept` that it rejects it; the code and the protocol description
   in `zForwarding.cpp:198-275` have it the other way round.
2. *`ZMaxRelocationInFreeLists` below the largest small object.* The flag may be anything from 16
   bytes up (`z_globals.hpp:80`). A worker in the middle of an in-place relocation can then run out
   of free-list space and start an in-place relocation of the same page again
   (`zRelocate.cpp:987`), against the assertion at `zForwarding.cpp:115`. Also, a worker that has a
   target for a large object and then revives a page for a small one retires that target without
   clearing it (`zRelocate.cpp:473-486`, `966-970`): it goes on to relocate to it, retires it again
   later, and counts it again. With the default value, the largest small object, neither
   can happen: theorem `TargetsSafe`, whose hypothesis is exactly that.
3. *Soft references cleared without precleaning* when `ScavengeBeforeFullGC` is off: the comment
   at `zDriver.cpp:305-310` argues from the driver lock, which does not protect the queue of stalled
   allocations; a thread that undoes a page allocation satisfies a stalled one in between.
4. *Director.* The comment at `zDirector.cpp:686` speaks of stalls where there may be none;
   `start_major_gc`'s `young_workers = MAX2(old, young)` may exceed `ZYoungGCThreads`; that the young
   generation gets no "fewer workers than the old generation" holds only in the clamped branch;
   `request_resize_workers` cannot cancel a pending request (`zWorkers.cpp:160`); the clamp to 1 may
   make the sum exceed `ConcGCThreads` (`WorkersWithinLimits` allows for exactly that).
5. *Buddy allocators.* `BTBuddyAllocator::deallocate_internal` records a freed block only at its
   own node (`btbuddy.cpp:334`), so a tree that starts full loses halves of freed ranges;
   it writes its size map in a map of four bits (`btbuddy.cpp:349`).
   `IBuddyAllocator` indexes one level too far for requests of at most half a minimal block on an exhausted
   region (`ibuddy.cpp:123-132`). `BuddyAllocator::allocate` unlocks a lazy mutex even
   when `try_lock` failed, and `deallocate_internal` takes no region lock.
6. *`JSMalloc` with headers.* `remove_block` clears the bit of a size class when the tail is removed though
   other blocks remain (`JSMalloc.cpp:299-302`; modelled). These are offered again once a block of the class is inserted or
   one of them is merged with a freed neighbour; until then a request may be refused while a large enough block is free, against "No suitable block exists" at
   `JSMalloc.cpp:434`. With a pool of 512 bytes, requests of 32 and 64 and four blocks held, TLC finds such a refusal
   in nine steps; `heap` has a pool of 256 and two blocks, where there is none, and `NothingIsLost` does not claim
   that there is none. Also, with headers, an allocator that starts full leaves the size of its block
   uninitialised (`JSMalloc.cpp:69-86`).
7. *Smaller ones.* The selector's statistics count only pages where the set grew
   (`zRelocationSetSelector.cpp:150-158`); `ZObjectAllocator::used()` may wrap when read
   concurrently; `_recycling_seqnum` is asserted on while its setter has no caller; a comment
   on barriers at `zBarrier.inline.hpp:152-162` describes an older rule.

## 6. What is not modelled

* **Components**: code generation (`c1/`, `c2/`, assembler), statistics, tracing, verification,
  start-up, root iterators, `ZHeapIterator`, the serviceability code. No state the
  collector's correctness depends on, or supplied by the rest of the virtual machine.
* **Memory ordering** weaker than sequential consistency: a step is a sequentially consistent access.
* **Relocation**: the shared target of medium pages (`ZRelocateMediumAllocator`), large pages, which
  never move.
* **Barriers**: weak and finalizable references' colours, coloured roots, base pointers, more than one
  field per object. **Marking**: partial arrays, finalizable marking, deduplication, aborting, root
  scanning, the colour rules of young marking, the coordinator's own stacks.
* **References**: statistics; objects do not move there. **Code roots**: oops of methods, barrier
  patching, inline caches.
* **Memory**: more than one NUMA node, over-flushing of the cache (out of reach of capacity 2), system calls,
  reservation of address space. **Allocators**: `TLSF.cpp`, a near-copy of `JSMalloc.cpp` that nothing
  uses; concurrent clients of the lazy lists; counters of free sizes.
* **Collections**: aborts, breakpoints, the arithmetic of the director's predictions.
* Versions and sequence numbers that wrap at 2^32.

## 7. Plan

What is left is mostly proof, in this order:

1. `ZBarrier.NothingDangles`, on top of `HealingMonotonic`: what a worker has read leads to a page that is not
   freed before the worker is done. It needs what every field may point to at each phase of both collections.
2. `ZReferenceProcessor.WeakNullIsFinal`: a referent that a program has seen as null stays so; it needs what marking
   knows of a referent from its colour.
3. The part of `EveryPageIsAccountedFor` that needs no induction: that every page is relocated or aged.
4. The theorems of the livemap and the methods for the composition `MCHeap`, as was done for `MCRelocation`.
5. The parts of `NothingIsHandedOutTwice` about stacks and indices.

Of the code, the target that workers share for medium pages (`ZRelocateMediumAllocator`) would be the next
module: workers that replace the target race with one that relocates in place.

---------------------------- MODULE ZPageAllocator ----------------------------
(***************************************************************************)
(* The memory of the heap: ZPageAllocator with its page cache, its address *)
(* space, its physical memory, the unmapper, the uncommitter, and the      *)
(* deferred deletion of page objects a concurrent iteration may be reading.*)
(*                                                                         *)
(* Threads allocate pages; the collector frees and promotes them; memory   *)
(* is committed, mapped, unmapped and uncommitted outside the lock, so the *)
(* counters run ahead of, or behind, the memory they stand for.  Every     *)
(* action that holds _lock in the code is one step.  Sizes and addresses   *)
(* are in granules.                                                        *)
(***************************************************************************)
EXTENDS ZPageCache, TLC

CONSTANTS
  Threads,          \* threads that allocate pages
  Readers,          \* iterations over the page table
  MaxCapacity,
  MinCapacity,
  InitialCapacity,  \* primes the cache
  Reserved,         \* size of the reserved address space
  QueueCapacity,    \* ZUnmapper::queue_capacity()
  CommitMayFail,    \* whether the operating system may refuse memory
  Requests,         \* what is allocated: type, size, and whether to stall
  Nil,
  Objects,          \* enough names for ZPage objects
  SizeRange         \* 2^w: the range of size_t

Generations == {"young", "old"}

ASSUME AllocatorAssumption ==
  /\ MinCapacity \in 0..InitialCapacity
  /\ InitialCapacity \in 0..MaxCapacity
  /\ MaxCapacity \in 1..Reserved
  /\ QueueCapacity \in Nat
  /\ CommitMayFail \in BOOLEAN
  /\ \A r \in Requests : /\ r.type = TypeFromSize(r.size)
                         /\ r.stall \in BOOLEAN
                         /\ r.gen \in Generations
  /\ IsFiniteSet(Readers)
  /\ Objects \subseteq Nat
  /\ SizeRange > MaxCapacity

Virtual == 0..(Reserved - 1)
Physical == 0..(MaxCapacity - 1)
Nowhere == -1

VARIABLES
  capacity, claimed, used, usedGeneration, currentMaxCapacity,
  cache,
  lastCommitExpired,  \* ZUncommitDelay has passed since _last_commit
  stalled,       \* _stalled: the threads that wait, in order
  pc,            \* where each thread is in alloc_page
  alloc,         \* its ZPageAllocation: request, pages, and the page built
  live,          \* pages in the page table, with their generations
  freeing,       \* pages on their way from the page table to the cache
  retired,       \* objects of promoted pages, kept until the next cycle
  freeVirtual, freePhysical,
  mapped,        \* the physical granule each virtual granule maps to
  backed,        \* physical granules the operating system has committed
  unmapping,     \* _queue of the unmapper
  uncommitting,  \* pages the uncommitter has claimed, and how much that was
  recycleGuard,  \* _unsafe_to_recycle: its _count and pages
  destroyGuard,  \* _safe_destroy: its _count and objects
  iterating,     \* which iterations have activated both
  reading        \* the page object each iteration looks at

counters == <<capacity, claimed, used, usedGeneration, currentMaxCapacity>>
memory == <<freeVirtual, freePhysical, mapped, backed, unmapping>>
guards == <<recycleGuard, destroyGuard, iterating, reading>>
pool == <<cache, lastCommitExpired, stalled>>
vars == <<counters, pool, pc, alloc, live, freeing, retired, memory,
          uncommitting, guards>>

NoAllocation == [request |-> Nil, pages |-> <<>>, page |-> Nil]

-----------------------------------------------------------------------------
(* ZMemoryManager: the free list of an address range.  It hands out areas  *)
(* from the low or from the high end, and joins a freed area with those it *)
(* touches.  Both the address space and the physical memory of the heap    *)
(* are kept in such a list.                                                *)

NoAddress == -1    \* zoffset(UINTPTR_MAX)

Area(start, size) == [start |-> start, size |-> size]
AreaEnd(area) == area.start + area.size

Granules(list) ==
  UNION {list[i].start .. (AreaEnd(list[i]) - 1) : i \in DOMAIN list}

(* The smallest, or the largest, index of an area that is large enough.    *)
Fitting(list, size) == {i \in DOMAIN list : list[i].size >= size}

ShrinkFromFront(list, i, size) ==
  IF list[i].size = size THEN RemoveAt(list, i)
  ELSE [list EXCEPT ![i] = Area(@.start + size, @.size - size)]

ShrinkFromBack(list, i, size) ==
  IF list[i].size = size THEN RemoveAt(list, i)
  ELSE [list EXCEPT ![i] = Area(@.start, @.size - size)]

PeekLowAddress(list) == IF list = <<>> THEN NoAddress ELSE list[1].start

AllocLowAddress(list, size) ==
  IF Fitting(list, size) = {} THEN [start |-> NoAddress, list |-> list]
  ELSE LET i == Min(Fitting(list, size))
       IN  [start |-> list[i].start, list |-> ShrinkFromFront(list, i, size)]

AllocHighAddress(list, size) ==
  IF Fitting(list, size) = {} THEN [start |-> NoAddress, list |-> list]
  ELSE LET i == Max(Fitting(list, size))
       IN  [start |-> AreaEnd(list[i]) - size,
            list |-> ShrinkFromBack(list, i, size)]

(* Takes the first area, or as much of it as is asked for.                 *)
AllocLowAddressAtMost(list, size) ==
  IF list = <<>> THEN [got |-> {}, list |-> list]
  ELSE LET allocated == IF list[1].size <= size THEN list[1].size ELSE size
       IN  [got |-> list[1].start .. (list[1].start + allocated - 1),
            list |-> ShrinkFromFront(list, 1, allocated)]

(* Mutant: the next area stays in the list when it is merged.              *)
FreeAreaKeepsNext(list, start, size) ==
  LET after == {i \in DOMAIN list : start < list[i].start}
      i == IF after = {} THEN Len(list) + 1 ELSE Min(after)
      withPrev == i > 1 /\ AreaEnd(list[i - 1]) = start
      withNext == i <= Len(list) /\ start + size = list[i].start
      end == IF withNext THEN AreaEnd(list[i]) ELSE start + size
      begin == IF withPrev THEN list[i - 1].start ELSE start
  IN  SubSeq(list, 1, IF withPrev THEN i - 2 ELSE i - 1)
        \o <<Area(begin, end - begin)>>
        \o SubSeq(list, i, Len(list))

FreeArea(list, start, size) ==
  LET after == {i \in DOMAIN list : start < list[i].start}
      i == IF after = {} THEN Len(list) + 1 ELSE Min(after)
      withPrev == i > 1 /\ AreaEnd(list[i - 1]) = start
      withNext == i <= Len(list) /\ start + size = list[i].start
      first == IF withPrev THEN i - 1 ELSE i
      end == IF withNext THEN AreaEnd(list[i]) ELSE start + size
      begin == IF withPrev THEN list[i - 1].start ELSE start
  IN  SubSeq(list, 1, first - 1)
        \o <<Area(begin, end - begin)>>
        \o SubSeq(list, IF withNext THEN i + 1 ELSE i, Len(list))

(* No two areas of a free list touch: every freed area was merged.         *)
IsMerged(list) ==
  \A i \in 1..(Len(list) - 1) : AreaEnd(list[i]) < list[i + 1].start

-----------------------------------------------------------------------------
(* Page objects.                                                           *)

(* A ZPage object has a name while its page is in the page table, and      *)
(* until it is deleted or, with its page, given to the cache.              *)
ReadableObjects ==
  {p.obj : p \in live} \cup {p.obj : p \in freeing} \cup retired
    \cup recycleGuard.objects \cup destroyGuard.objects

UnusedObjects == Objects \ ReadableObjects

(* safe_destroy_page: deletion waits while an iteration forbids it.        *)
Destroyed(objects) ==
  IF destroyGuard.count > 0 THEN [destroyGuard EXCEPT !.objects = @ \cup objects]
  ELSE destroyGuard

-----------------------------------------------------------------------------
(* Virtual and physical memory.                                            *)

Span(page) == page.start .. (page.start + Size(page) - 1)

(* The physical granule at a virtual granule of the page.                  *)
Backing(page, v) ==
  CHOOSE g \in page.phys :
    Cardinality({h \in page.phys : h < g}) = v - page.start

Map(map, page) ==
  [v \in Virtual |-> IF v \in Span(page) THEN Backing(page, v) ELSE map[v]]

Unmap(map, span) == [v \in Virtual |-> IF v \in span THEN Nowhere ELSE map[v]]

FreeVirtual(list, span) ==
  IF span = {} THEN list
  ELSE FreeArea(list, Min(span), Cardinality(span))

FreePhysical(list, granules) ==
  FoldLeft(LAMBDA l, g : FreeArea(l, g, 1), list,
           SetToSortSeq(granules, LAMBDA a, b : a < b))

(* add_segments: the physical memory of a page is a set of granules, kept  *)
(* in address order.                                                       *)
AddSegments(pages) == UNION {pages[i].phys : i \in DOMAIN pages}

(* commit and uncommit work in address order and stop at the first granule *)
(* the operating system refuses: n of them are done.                       *)
Commit(granules, n) == backed \cup Lowest(granules, n)
Uncommit(granules, n) == backed \ Lowest(granules, n)

(* split_committed: all that is committed, in a page of its own at the     *)
(* front of the page it is taken from.                                     *)
SplitCommitted(page, failed) ==
  LET size == Size(page) - Cardinality(failed)
  IN  SplitFront([page EXCEPT !.phys = @ \ failed], TypeFromSize(size), size)

(* ZPhysicalMemoryManager::alloc; got is smaller than size only if the     *)
(* free list ran out, which the code asserts cannot happen.                *)
AllocPhysical(list, size) ==
  FoldLeft(LAMBDA s, i :
             IF Cardinality(s.got) = size THEN s
             ELSE LET a == AllocLowAddressAtMost(s.list, size - Cardinality(s.got))
                  IN  [got |-> s.got \cup a.got, list |-> a.list],
           [got |-> {}, list |-> list], [i \in DOMAIN list |-> i])

-----------------------------------------------------------------------------
(* alloc_page_common, on the part of the state it works on.                *)

AllocState ==
  [cache |-> cache, capacity |-> capacity, used |-> used,
   max |-> currentMaxCapacity,
   expired |-> lastCommitExpired, served |-> <<>>, ok |-> TRUE]

IsAllocAllowed(s, size) == s.max - s.used - claimed >= size

AllocPageCommon(s, request) ==
  LET hit == CacheAlloc(s.cache, request.type, request.size)
      increased == Min({request.size, s.max - s.capacity})
      rest == FlushForAllocation(s.cache, request.size - increased)
      charged == [s EXCEPT !.used = @ + request.size]
  IN  IF ~IsAllocAllowed(s, request.size) THEN [s EXCEPT !.ok = FALSE]
      ELSE IF hit.found
      THEN [charged EXCEPT !.cache = hit.cache, !.served = Append(@, <<hit.page>>)]
      ELSE [charged EXCEPT
              !.capacity = @ + increased,
              !.expired = IF increased > 0 THEN FALSE ELSE @,
              !.cache = IF increased < request.size THEN rest.cache ELSE @,
              !.served = Append(@, IF increased < request.size
                                   THEN rest.pages ELSE <<>>)]

(* Mutant: whoever frees memory forgets the queue.                         *)
SatisfyNobody(s) == s

(* satisfy_stalled: in the order of the queue, up to the first that does   *)
(* not fit.                                                                *)
SatisfyStalled(s) ==
  FoldLeft(LAMBDA r, t : IF r.ok THEN AllocPageCommon(r, alloc[t].request) ELSE r,
           s, stalled)

(* The end of every handler that frees memory; the threads in retry start  *)
(* over.                                                                   *)
FinishFree(s, retry) ==
  LET r == SatisfyStalled(s)
      n == Len(r.served)
      lucky == {stalled[i] : i \in 1..n}
      Pages(t) == r.served[CHOOSE i \in 1..n : stalled[i] = t]
  IN  /\ capacity' = r.capacity
      /\ used' = r.used
      /\ cache' = r.cache
      /\ lastCommitExpired' = r.expired
      /\ stalled' = SubSeq(stalled, n + 1, Len(stalled))
      /\ pc' = [t \in Threads |-> IF t \in lucky THEN "finalize"
                                  ELSE IF t \in retry THEN "retry" ELSE pc[t]]
      /\ alloc' = [t \in Threads |->
                     IF t \in lucky THEN [alloc[t] EXCEPT !.pages = Pages(t)]
                     ELSE IF t \in retry
                     THEN [NoAllocation EXCEPT !.request = alloc[t].request]
                     ELSE alloc[t]]

RecyclePages(c, pages) ==
  FoldLeft(LAMBDA r, p : CacheFree(r, [p EXCEPT !.expired = FALSE]), c, pages)

-----------------------------------------------------------------------------
(* alloc_page.                                                             *)

(* A thread that has nothing to do allocates a page; one whose memory      *)
(* could not be committed tries again.                                     *)
Allocates(t, request) ==
  \/ pc[t] = "idle"
  \/ pc[t] = "retry" /\ request = alloc[t].request

(* alloc_page_or_stall, under the lock.                                    *)
AllocSucceeds(t, request) ==
  LET s == AllocPageCommon(AllocState, request) IN
  /\ Allocates(t, request)
  /\ s.ok
  /\ capacity' = s.capacity
  /\ used' = s.used
  /\ cache' = s.cache
  /\ lastCommitExpired' = s.expired
  /\ pc' = [pc EXCEPT ![t] = "finalize"]
  /\ alloc' = [alloc EXCEPT ![t] = [NoAllocation EXCEPT !.request = request,
                                                      !.pages = s.served[1]]]
  /\ UNCHANGED <<claimed, usedGeneration, currentMaxCapacity, stalled, live,
                 freeing, retired, memory, uncommitting, guards>>

AllocFails(t, request) ==
  /\ Allocates(t, request)
  /\ ~IsAllocAllowed(AllocState, request.size)
  /\ IF request.stall
     THEN /\ stalled' = Append(stalled, t)
          /\ pc' = [pc EXCEPT ![t] = "stalled"]
          /\ alloc' = [alloc EXCEPT ![t] = [NoAllocation EXCEPT !.request = request]]
     ELSE /\ pc' = [pc EXCEPT ![t] = "idle"]
          /\ alloc' = [alloc EXCEPT ![t] = NoAllocation]
          /\ UNCHANGED stalled
  /\ UNCHANGED <<counters, cache, lastCommitExpired, live, freeing, retired,
                 memory, uncommitting, guards>>

(* notify_out_of_memory fails the requests at the head of the queue; which *)
(* of them have waited long enough is a matter of the driver.              *)
NotifyOutOfMemory ==
  \E n \in DOMAIN stalled :
    LET failed == {stalled[i] : i \in 1..n} IN
    /\ stalled' = SubSeq(stalled, n + 1, Len(stalled))
    /\ pc' = [t \in Threads |-> IF t \in failed THEN "idle" ELSE pc[t]]
    /\ alloc' = [t \in Threads |-> IF t \in failed THEN NoAllocation ELSE alloc[t]]
    /\ UNCHANGED <<counters, cache, lastCommitExpired, live, freeing, retired,
                   memory, uncommitting, guards>>

(* A small page in the upper half of the address space is moved down.      *)
ShouldDefragment(page) ==
  /\ page.type = "small"
  /\ page.start >= Reserved \div 2
  /\ freeVirtual # <<>>
  /\ page.start > PeekLowAddress(freeVirtual)

IsAllocSatisfied(t) ==
  LET pages == alloc[t].pages IN
  /\ Len(pages) = 1
  /\ pages[1].type = alloc[t].request.type
  /\ Size(pages[1]) = alloc[t].request.size
  /\ ~ShouldDefragment(pages[1])

(* alloc_page_create.  Small pages go to low addresses, others to high     *)
(* ones.                                                                   *)
VirtualAlloc(size) ==
  IF size <= SmallSize THEN AllocLowAddress(freeVirtual, size)
  ELSE AllocHighAddress(freeVirtual, size)

OutOfAddressSpace(t) ==
  /\ pc[t] = "finalize"
  /\ ~IsAllocSatisfied(t)
  /\ VirtualAlloc(alloc[t].request.size).start = NoAddress
  /\ pc' = [pc EXCEPT ![t] = "failed"]
  /\ UNCHANGED <<counters, pool, alloc, live, freeing, retired, memory,
                 uncommitting, guards>>

(* Flushed pages the unmapper has room for; the thread unmaps the others.  *)
Enqueued(pages) ==
  Cardinality({i \in DOMAIN pages :
    SizeOf(unmapping) + SizeOf(SubSeq(pages, 1, i - 1)) < QueueCapacity})

(* The memory of the flushed pages moves to the new page; what is missing  *)
(* is fetched in the next step.                                            *)
HarvestPages(t) ==
  LET size == alloc[t].request.size
      pages == alloc[t].pages
      vmem == VirtualAlloc(size)
      n == Enqueued(pages)
      now == SubSeq(pages, n + 1, Len(pages))
  IN  /\ pc[t] = "finalize"
      /\ ~IsAllocSatisfied(t)
      /\ vmem.start # NoAddress
      /\ unmapping' = unmapping \o SubSeq(pages, 1, n)
      /\ mapped' = Unmap(mapped, UNION {Span(now[i]) : i \in DOMAIN now})
      /\ freeVirtual' = FoldLeft(LAMBDA l, p : FreeVirtual(l, Span(p)),
                                 vmem.list, now)
      /\ alloc' = [alloc EXCEPT
           ![t].pages = <<>>,
           ![t].page = [type |-> alloc[t].request.type, start |-> vmem.start,
                        phys |-> AddSegments(pages), expired |-> TRUE]]
      /\ pc' = [pc EXCEPT ![t] = "commit"]
      /\ UNCHANGED <<counters, pool, live, freeing, retired, freePhysical, backed,
                     uncommitting, guards>>

(* What the thread fetches from the physical memory manager.               *)
Fetched(t) ==
  AllocPhysical(freePhysical, alloc[t].request.size - Size(alloc[t].page))

CommitSucceeds(t) ==
  LET new == Fetched(t)
      page == [alloc[t].page EXCEPT !.phys = @ \cup new.got]
  IN  /\ pc[t] = "commit"
      /\ freePhysical' = new.list
      /\ backed' = Commit(new.got, Cardinality(new.got))
      /\ mapped' = Map(mapped, page)
      /\ pc' = [pc EXCEPT ![t] = "publish"]
      /\ alloc' = [alloc EXCEPT ![t].page = page]
      /\ UNCHANGED <<counters, pool, live, freeing, retired, freeVirtual,
                     unmapping, uncommitting, guards>>

(* The first n new granules were committed, and no more.  The committed    *)
(* part of the page is split off and mapped; the rest is destroyed.        *)
CommitFails(t, n) ==
  LET new == Fetched(t)
      page == [alloc[t].page EXCEPT !.phys = @ \cup new.got]
      failed == new.got \ Lowest(new.got, n)
      kept == SplitCommitted(page, failed)
      some == kept.phys # {}
  IN  /\ pc[t] = "commit"
      /\ CommitMayFail
      /\ failed # {}
      /\ backed' = Commit(new.got, n)
      /\ mapped' = IF some THEN Map(mapped, kept) ELSE mapped
      /\ freeVirtual' = FreeVirtual(freeVirtual, Span(page) \ Span(kept))
      /\ freePhysical' = FreePhysical(new.list, failed)
      /\ pc' = [pc EXCEPT ![t] = "failed"]
      /\ alloc' = [alloc EXCEPT ![t].page = Nil,
                               ![t].pages = IF some THEN <<kept>> ELSE <<>>]
      /\ UNCHANGED <<counters, pool, live, freeing, retired, unmapping,
                     uncommitting, guards>>

(* free_pages_alloc_failed: what was committed returns to the cache, and   *)
(* the capacity is lowered, for good, by what was not.                     *)
RemainingCapacity(t) ==
  capacity - (alloc[t].request.size - SizeOf(alloc[t].pages))

FreeAllocFailed(t) ==
  LET pages == alloc[t].pages
      size == alloc[t].request.size
      max == RemainingCapacity(t)
  IN  /\ pc[t] = "failed"
      /\ currentMaxCapacity' = max
      /\ FinishFree([AllocState EXCEPT !.used = @ - size,
                                    !.cache = RecyclePages(@, pages),
                                    !.capacity = max,
                                    !.max = max], {t})
      /\ UNCHANGED <<claimed, usedGeneration, live, freeing, retired, memory,
                     uncommitting, guards>>

(* The end of alloc_page, and the page table entry.                        *)
Publish(t) ==
  LET satisfied == pc[t] = "finalize" /\ IsAllocSatisfied(t)
      page == IF satisfied THEN alloc[t].pages[1] ELSE alloc[t].page
      gen == alloc[t].request.gen
  IN  /\ satisfied \/ pc[t] = "publish"
      /\ UnusedObjects # {}    \* bounds the names
      /\ usedGeneration' = [usedGeneration EXCEPT ![gen] = @ + Size(page)]
      /\ live' = live \cup {[page |-> [page EXCEPT !.expired = TRUE], gen |-> gen,
                             obj |-> Min(UnusedObjects)]}
      /\ pc' = [pc EXCEPT ![t] = "idle"]
      /\ alloc' = [alloc EXCEPT ![t] = NoAllocation]
      /\ UNCHANGED <<capacity, claimed, used, currentMaxCapacity, pool, freeing,
                     retired, memory, uncommitting, guards>>

-----------------------------------------------------------------------------
(* Freeing: free_page for one page, free_pages for several.                *)

(* Entries of the page table are told apart by their objects.              *)
SizeOfAll(pages) == Cardinality(UNION {{p.obj} \X p.page.phys : p \in pages})

SizeIn(pages, gen) == SizeOfAll({p \in pages : p.gen = gen})

(* The pages leave the page table.                                         *)
RemoveFromTable(pages) ==
  /\ freeing = {}
  /\ pages # {}
  /\ live' = live \ pages
  /\ freeing' = pages
  /\ UNCHANGED <<counters, pool, pc, alloc, retired, memory, uncommitting, guards>>

(* Mutant: a page that is being read is recycled itself.                   *)
RegistersNothing(pages) == recycleGuard

(* Then they are registered and cloned if activated, that is: while        *)
(* somebody iterates the objects are kept, and clones of them recycled.    *)
Registered(pages) ==
  IF recycleGuard.count = 0 THEN recycleGuard
  ELSE [recycleGuard EXCEPT !.objects = @ \cup {p.obj : p \in pages}]

FreePages ==
  LET pages == [i \in 1..Cardinality(freeing) |-> SetToSeq(freeing)[i].page] IN
  /\ freeing # {}
  /\ recycleGuard' = Registered(freeing)
  /\ usedGeneration' = [gen \in Generations |->
                          usedGeneration[gen] - SizeIn(freeing, gen)]
  /\ FinishFree([AllocState EXCEPT !.used = @ - SizeOf(pages),
                                   !.cache = RecyclePages(@, pages)], {})
  /\ freeing' = {}
  /\ UNCHANGED <<claimed, currentMaxCapacity, live, retired, memory, uncommitting,
                 destroyGuard, iterating, reading>>

(* Flip promotion: a clone replaces the page in the page table; the object *)
(* it replaces stays with the relocation set until that is reset.          *)
FlipPromote(p) ==
  /\ p.gen = "young"
  /\ UnusedObjects # {}
  /\ live' = (live \ {p}) \cup {[p EXCEPT !.gen = "old", !.obj = Min(UnusedObjects)]}
  /\ retired' = retired \cup {p.obj}
  /\ usedGeneration' = [usedGeneration EXCEPT !["young"] = @ - Size(p.page),
                                             !["old"] = @ + Size(p.page)]
  /\ UNCHANGED <<capacity, claimed, used, currentMaxCapacity, pool, pc, alloc,
                 freeing, memory, uncommitting, guards>>

ResetRelocationSet ==
  /\ retired # {}
  /\ retired' = {}
  /\ destroyGuard' = Destroyed(retired)
  /\ UNCHANGED <<counters, pool, pc, alloc, live, freeing, memory, uncommitting,
                 recycleGuard, iterating, reading>>

-----------------------------------------------------------------------------
(* The unmapper: the oldest page is unmapped and destroyed.                *)

UnmapAndDestroy ==
  /\ unmapping # <<>>
  /\ LET page == Head(unmapping) IN
       /\ mapped' = Unmap(mapped, Span(page))
       /\ freeVirtual' = FreeVirtual(freeVirtual, Span(page))
  /\ unmapping' = Tail(unmapping)
  /\ UNCHANGED <<counters, pool, pc, alloc, live, freeing, retired, freePhysical,
                 backed, uncommitting, guards>>

-----------------------------------------------------------------------------
(* The uncommitter.                                                        *)

(* The amount to flush, in size_t arithmetic.                              *)
FlushSize ==
  LET retain == Max({used, MinCapacity})
      release == (capacity - retain) % SizeRange
  IN  Min({release, (currentMaxCapacity + 127) \div 128, 128})

NotUncommitting == [pages |-> <<>>, flushed |-> 0]

ClaimForUncommit ==
  LET flush == FlushForUncommit(cache, FlushSize, lastCommitExpired)
  IN  /\ uncommitting = NotUncommitting
      /\ MinCapacity < MaxCapacity    \* ZUncommit
      /\ flush.pages # <<>>
      /\ cache' = flush.cache
      /\ claimed' = claimed + SizeOf(flush.pages)
      /\ uncommitting' = [pages |-> flush.pages, flushed |-> SizeOf(flush.pages)]
      /\ UNCHANGED <<capacity, used, usedGeneration, currentMaxCapacity,
                     lastCommitExpired, stalled, pc, alloc, live, freeing, retired,
                     memory, guards>>

(* Unmap, uncommit and destroy the next page; the system may uncommit only *)
(* the first n granules, and the code goes on as if it had uncommitted all.*)
UncommitPage(n) ==
  /\ uncommitting.pages # <<>>
  /\ LET page == Head(uncommitting.pages) IN
       /\ n = Size(page) \/ (CommitMayFail /\ n < Size(page))
       /\ mapped' = Unmap(mapped, Span(page))
       /\ backed' = Uncommit(page.phys, n)
       /\ freeVirtual' = FreeVirtual(freeVirtual, Span(page))
       /\ freePhysical' = FreePhysical(freePhysical, page.phys)
  /\ uncommitting' = [uncommitting EXCEPT !.pages = Tail(@)]
  /\ UNCHANGED <<counters, pool, pc, alloc, live, freeing, retired, unmapping,
                 guards>>

(* The claim ends, and with it the capacity; nobody looks at the queue.     *)
FinishUncommit ==
  /\ uncommitting.pages = <<>>
  /\ uncommitting.flushed > 0
  /\ claimed' = claimed - uncommitting.flushed
  /\ capacity' = capacity - uncommitting.flushed
  /\ uncommitting' = NotUncommitting
  /\ UNCHANGED <<used, usedGeneration, currentMaxCapacity, pool, pc, alloc, live,
                 freeing, retired, memory, guards>>

(* ZUncommitDelay passes.                                                  *)
DelayPasses ==
  /\ lastCommitExpired' = TRUE
  /\ cache' = [type \in DOMAIN cache |->
                 [i \in DOMAIN cache[type] |->
                    [cache[type][i] EXCEPT !.expired = TRUE]]]
  /\ UNCHANGED <<counters, stalled, pc, alloc, live, freeing, retired, memory,
                 uncommitting, guards>>

-----------------------------------------------------------------------------
(* Iterations over the page table, which allocations and frees go on       *)
(* beside.                                                                 *)

Activated(guard) == [guard EXCEPT !.count = @ + 1]

(* The count drops; at zero the objects are let go of.                     *)
Deactivated(guard) ==
  [count |-> guard.count - 1,
   objects |-> IF guard.count = 1 THEN {} ELSE guard.objects]

StartIteration(r) ==
  /\ ~iterating[r]
  /\ iterating' = [iterating EXCEPT ![r] = TRUE]
  /\ destroyGuard' = Activated(destroyGuard)
  /\ recycleGuard' = Activated(recycleGuard)
  /\ UNCHANGED <<counters, pool, pc, alloc, live, freeing, retired, memory,
                 uncommitting, reading>>

ReadPageTable(r) ==
  /\ iterating[r]
  /\ \E p \in live : reading' = [reading EXCEPT ![r] = p.obj]
  /\ UNCHANGED <<counters, pool, pc, alloc, live, freeing, retired, memory,
                 uncommitting, recycleGuard, destroyGuard, iterating>>

(* When nobody iterates any more, the objects that were not recycled are   *)
(* scheduled for deletion, and then all that are scheduled are deleted.    *)
EndIteration(r) ==
  LET scheduled == IF recycleGuard.count = 1
                   THEN Destroyed(recycleGuard.objects) ELSE destroyGuard
  IN  /\ iterating[r]
      /\ iterating' = [iterating EXCEPT ![r] = FALSE]
      /\ reading' = [reading EXCEPT ![r] = Nil]
      /\ recycleGuard' = Deactivated(recycleGuard)
      /\ destroyGuard' = Deactivated(scheduled)
      /\ UNCHANGED <<counters, pool, pc, alloc, live, freeing, retired, memory,
                     uncommitting>>

-----------------------------------------------------------------------------
Init ==
  /\ capacity = InitialCapacity
  /\ claimed = 0
  /\ used = 0
  /\ usedGeneration = [gen \in Generations |-> 0]
  /\ currentMaxCapacity = MaxCapacity
  /\ cache = IF InitialCapacity = 0 THEN EmptyCache
             ELSE CacheFree(EmptyCache,
                    [type |-> "large", start |-> 0,
                     phys |-> 0..(InitialCapacity - 1), expired |-> FALSE])
  /\ lastCommitExpired = FALSE
  /\ stalled = <<>>
  /\ pc = [t \in Threads |-> "idle"]
  /\ alloc = [t \in Threads |-> NoAllocation]
  /\ live = {}
  /\ freeing = {}
  /\ retired = {}
  /\ freeVirtual = IF InitialCapacity = Reserved THEN <<>>
                   ELSE <<Area(InitialCapacity, Reserved - InitialCapacity)>>
  /\ freePhysical = IF InitialCapacity = MaxCapacity THEN <<>>
                    ELSE <<Area(InitialCapacity, MaxCapacity - InitialCapacity)>>
  /\ mapped = [v \in Virtual |-> IF v < InitialCapacity THEN v ELSE Nowhere]
  /\ backed = 0..(InitialCapacity - 1)
  /\ unmapping = <<>>
  /\ uncommitting = NotUncommitting
  /\ recycleGuard = [count |-> 0, objects |-> {}]
  /\ destroyGuard = [count |-> 0, objects |-> {}]
  /\ iterating = [r \in Readers |-> FALSE]
  /\ reading = [r \in Readers |-> Nil]

Thread(t) ==
  \/ \E request \in Requests : AllocSucceeds(t, request)
  \/ \E request \in Requests : AllocFails(t, request)
  \/ OutOfAddressSpace(t)
  \/ HarvestPages(t)
  \/ CommitSucceeds(t)
  \/ \E n \in 0..MaxCapacity : CommitFails(t, n)
  \/ FreeAllocFailed(t)
  \/ Publish(t)

Collector ==
  \/ NotifyOutOfMemory
  \/ \E pages \in SUBSET live : RemoveFromTable(pages)
  \/ FreePages
  \/ \E p \in live : FlipPromote(p)
  \/ ResetRelocationSet

Uncommitter ==
  \/ ClaimForUncommit
  \/ \E n \in 0..MaxCapacity : UncommitPage(n)
  \/ FinishUncommit
  \/ DelayPasses

Iteration(r) ==
  \/ StartIteration(r)
  \/ ReadPageTable(r)
  \/ EndIteration(r)

Next ==
  \/ \E t \in Threads : Thread(t)
  \/ Collector
  \/ UnmapAndDestroy
  \/ Uncommitter
  \/ \E r \in Readers : Iteration(r)

Spec == Init /\ [][Next]_vars

-----------------------------------------------------------------------------
(* Properties.                                                             *)

Allocating == {"finalize", "commit", "failed", "publish"}

(* The pages that hold memory: cached, being allocated, in the page table, *)
(* being freed, or claimed for uncommit.                                   *)
AllocationPages(t) ==
  Range(alloc[t].pages) \cup (IF alloc[t].page = Nil THEN {} ELSE {alloc[t].page})

HoldingPages ==
  Range(CachedPages(cache)) \cup UNION {AllocationPages(t) : t \in Threads}
    \cup {p.page : p \in live \cup freeing}
    \cup Range(uncommitting.pages)

(* The counters: the capacity is what is allocated, claimed for uncommit,  *)
(* or in the cache; used is what the threads have been granted and the     *)
(* page table holds; and the generations have what was handed out.         *)
Accounting ==
  /\ capacity <= currentMaxCapacity
  /\ capacity = used + claimed + SizeOf(CachedPages(cache))
  /\ used = Cardinality(UNION {{t} \X (1..alloc[t].request.size) :
                               t \in {u \in Threads : pc[u] \in Allocating}})
            + SizeOfAll(live \cup freeing)
  /\ claimed = uncommitting.flushed
  /\ \A gen \in Generations :
       usedGeneration[gen] = SizeIn(live \cup freeing, gen)

Disjoint(F(_), pages) ==
  \A p, q \in pages : p = q \/ F(p) \cap F(q) = {}

(* No granule of physical memory or of the address space is lost or held   *)
(* twice: what a page holds, or the unmapper still has mapped, is not free *)
(* and not in another page; and all the rest is free.                      *)
GranulesArePartitioned ==
  LET pages == HoldingPages
      mappedSpans == pages \cup Range(unmapping)
      unfinished == {t \in Threads : pc[t] = "commit"}
      Reserves(t) == alloc[t].page.start
                       .. (alloc[t].page.start + alloc[t].request.size - 1)
      spans == UNION {Span(p) : p \in mappedSpans}
                 \cup UNION {Reserves(t) : t \in unfinished}
  IN  /\ Disjoint(LAMBDA p : p.phys, pages)
      /\ Disjoint(Span, mappedSpans)
      /\ Granules(freePhysical)
           = Physical \ UNION {p.phys : p \in pages}
      /\ Granules(freeVirtual) = Virtual \ spans
      /\ IsMerged(freePhysical) /\ IsMerged(freeVirtual)

(* The memory is partitioned, and the counters say what the parts are.     *)
MemoryIsPartitioned == GranulesArePartitioned /\ Accounting

(* An object an iteration looks at is neither deleted nor given to the     *)
(* cache with its page.                                                    *)
ReadersAreSafe ==
  \A r \in Readers : reading[r] # Nil => reading[r] \in ReadableObjects

(* No lost wakeup: a step that makes memory available leaves nobody at the *)
(* head of the queue for whom it suffices.  The end of an uncommit, which  *)
(* does not look at the queue, is the exception.                           *)
Available == currentMaxCapacity - used - claimed

StallsAreServed ==
  [][(Available' > Available /\ ~FinishUncommit) =>
       \/ stalled' = <<>>
       \/ Available' < alloc'[Head(stalled')].request.size]_vars

(* "Never uncommit below min capacity" (zPageAllocator.cpp:871).  A failed *)
(* commit can leave less than that, as what was uncommitted meanwhile was  *)
(* measured against a capacity that has to be given back; and then         *)
(* _capacity - retain wraps around.                                        *)
UncommitKeepsMinCapacity ==
  [][ClaimForUncommit => capacity - claimed' >= MinCapacity]_vars
-----------------------------------------------------------------------------
(* Instances for the runs.                                                 *)

SmallAndMedium ==
  {[type |-> "small", size |-> 1, stall |-> FALSE, gen |-> "old"],
   [type |-> "medium", size |-> 2, stall |-> TRUE, gen |-> "young"]}

OneLarge == {[type |-> "large", size |-> 3, stall |-> FALSE, gen |-> "young"]}

Symmetry == Permutations(Threads)
===============================================================================

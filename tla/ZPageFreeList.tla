---------------------------- MODULE ZPageFreeList ----------------------------
(***************************************************************************)
(* A small young page that survives a collection in place with few live    *)
(* objects is recycled: the gaps between the objects its livemap names     *)
(* become free ranges of an allocator (ZPage::init_free_list), and the     *)
(* relocation of other pages allocates into them                           *)
(* (ZPage::alloc_object_free_list).  Each collection rebuilds the free     *)
(* list from the livemap that marking left.  The allocator behind the page *)
(* is the segregated-fit one or the buddy one (AllocatorWrapper.cpp).      *)
(***************************************************************************)
EXTENDS Integers, Sequences, FiniteSets, FiniteSetsExt, SequencesExt

CONSTANTS PageStart, PageSize,      \* in bytes
          FirstLevels, SecondLevelLog2,  \* the segregated-fit allocator's table
          MinBlockLog2, MaxBlockLog2,  \* the buddy allocator's blocks
          ObjectAlignment,
          ZMinFreeBlockSize,
          ObjectSizes,              \* sizes of objects
          MaxLiveBytes,             \* ZRecycleMaximumLive * size()
          MaxCollections            \* bound on free lists built

NumRegions == PageSize \div 2 ^ MaxBlockLog2
PageEnd == PageStart + PageSize

JS == INSTANCE JSMallocZ WITH PoolStart <- PageStart, PoolSize <- PageSize
BT == INSTANCE BTBuddyAllocator WITH Start <- PageStart

PageAssumption ==
  /\ NumRegions * 2 ^ MaxBlockLog2 = PageSize
  /\ \A s \in ObjectSizes : s % ObjectAlignment = 0
  /\ ZMinFreeBlockSize >= JS!MBS
AllocatorAssumptions ==
  JS!LevelsAssumption /\ JS!PoolAssumption /\ BT!BuddyAssumption

VARIABLES useBinaryBuddyAllocator,  \* which allocator the page has
          allocator,                \* its state
          live,                     \* objects the livemap names
          allocated,                \* objects placed into the free list since
          freed,                    \* ranges given to the allocator
          _bytes_freed, _bytes_used, _exhausted,
          collections,
          step                      \* the last operation, for the properties

vars == <<useBinaryBuddyAllocator, allocator, live, allocated, freed,
          _bytes_freed, _bytes_used, _exhausted, collections, step>>

Extent(o) == o.start .. o.start + o.size - 1
Disjoint(S) == \A o, p \in S : o # p => Extent(o) \cap Extent(p) = {}
PageObjects == {o \in [start : PageStart .. PageEnd - 1, size : ObjectSizes] :
              /\ o.start % ObjectAlignment = 0
              /\ o.start + o.size <= PageEnd}

\* The wrapper dispatches on the kind of allocator.
Reset == IF useBinaryBuddyAllocator THEN BT!Fill ELSE JS!Reset
FreeRange(a, gap) ==
  IF useBinaryBuddyAllocator
    THEN BT!FreeRange(a, gap.start, gap.size)
    ELSE JS!FreeRange(a, gap.start, gap.size)
Allocate(size) ==
  IF useBinaryBuddyAllocator THEN BT!Allocate(allocator, size) ELSE JS!Allocate(allocator, size)
FreeBlocks ==
  IF useBinaryBuddyAllocator THEN BT!FreeBlocks(allocator) ELSE JS!FreeBlocks(allocator)

\* The gaps below the live objects in address order, then the one that ends
\* the page; a gap too small for a block is dropped.
Gaps(objects) ==
  LET sorted == SetToSortSeq(objects, LAMBDA o, p : o.start < p.start)
      n      == Len(sorted)
      from(k) == IF k = 1 THEN PageStart ELSE sorted[k - 1].start + sorted[k - 1].size
      to(k)   == IF k = n + 1 THEN PageEnd ELSE sorted[k].start
      gap(k)  == [start |-> from(k),
                  size |-> ((to(k) - from(k)) \div ObjectAlignment) * ObjectAlignment]
  IN  SelectSeq([k \in 1 .. n + 1 |-> gap(k)], LAMBDA g : g.size >= ZMinFreeBlockSize)

Bytes(ranges) == FoldSet(LAMBDA r, n : n + r.size, 0, ranges)

\* ZPage::init_free_list over the objects that marking found live.
InitFreeList(objects) ==
  LET gaps == Gaps(objects)
  IN  /\ allocator' = FoldLeft(FreeRange, Reset, gaps)
      /\ live' = objects
      /\ allocated' = {}
      /\ freed' = ToSet(gaps)
      /\ _bytes_freed' = Bytes(ToSet(gaps))
      /\ _bytes_used' = 0
      /\ _exhausted' = FALSE
      /\ step' = [op |-> "init_free_list"]

Init ==
  /\ useBinaryBuddyAllocator \in BOOLEAN
  /\ allocator = Reset
  /\ live = {} /\ allocated = {} /\ freed = {}
  /\ _bytes_freed = 0 /\ _bytes_used = 0
  /\ _exhausted = FALSE
  /\ collections = 0
  /\ step = [op |-> "none"]

\* What a page may hold when marking is done: the first time any objects it
\* was filled with, later some of those it was left with.  A page without
\* live objects is freed instead, one with too many is not recycled
\* (ZFlipAgePagesTask::work).
Survivors ==
  {S \in (IF collections = 0 THEN {{o, p} : o \in PageObjects, p \in PageObjects}
                             ELSE SUBSET (live \cup allocated)) :
     S # {} /\ Disjoint(S) /\ Bytes(S) < MaxLiveBytes}

Collect ==
  /\ collections < MaxCollections
  /\ \E S \in Survivors : InitFreeList(S)
  /\ collections' = collections + 1
  /\ UNCHANGED useBinaryBuddyAllocator

\* ZPage::alloc_object_free_list
AllocObjectFreeList(size) ==
  /\ collections > 0
  /\ ~_exhausted
  /\ LET r == Allocate(size)
     IN  /\ allocator' = r.state
         /\ step' = [op |-> "alloc", size |-> size, found |-> r.found]
         /\ IF r.found
              THEN /\ allocated' = allocated \cup {[start |-> r.start, size |-> size]}
                   /\ _bytes_used' = _bytes_used + size
                   /\ UNCHANGED _exhausted
              ELSE /\ _exhausted' = TRUE
                   /\ UNCHANGED <<allocated, _bytes_used>>
  /\ UNCHANGED <<useBinaryBuddyAllocator, live, freed, _bytes_freed, collections>>

Next == Collect \/ \E size \in ObjectSizes : AllocObjectFreeList(size)

Spec == Init /\ [][Next]_vars

-----------------------------------------------------------------------------
(* Properties.                                                             *)

(* An object relocated into the page is placed over neither an object that *)
(* lives there nor another relocated one, whatever the gaps, the split     *)
(* blocks and the order of sizes; and what the allocator still offers      *)
(* overlaps none of them.                                                  *)
NothingIsOverwritten ==
  /\ \A o \in allocated \cup FreeBlocks : Extent(o) \subseteq PageStart .. PageEnd - 1
  /\ Disjoint(live \cup allocated \cup FreeBlocks)
  /\ FreeBlocks \cap (live \cup allocated) = {}

(* The bytes reported as recycled bound the bytes handed out: all the free *)
(* blocks and the relocated objects together fit the freed ranges.         *)
BytesAreAccounted ==
  /\ _bytes_freed = Bytes(freed)
  /\ _bytes_used = Bytes(allocated)
  /\ _bytes_used + Bytes(FreeBlocks) <= _bytes_freed

(* The page gives up on a size only when no free block is as large as the  *)
(* class it searches from: the bitmap search misses no block.              *)
ExhaustedIsEarned ==
  [][~useBinaryBuddyAllocator /\ step'.op = "alloc" /\ ~step'.found
       => \A b \in FreeBlocks : b.size < JS!TargetSize(JS!AlignSize(step'.size))]_vars
=============================================================================

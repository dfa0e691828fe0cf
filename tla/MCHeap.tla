------------------------------- MODULE MCHeap -------------------------------
(***************************************************************************)
(* One run for the data structures below the collector that share no       *)
(* state: the free list of a recycled page, the mark bits of a page, the   *)
(* memory of the mark stacks, the distribution of a table's indices over   *)
(* workers, the general allocators, and the table of compiled methods.  A  *)
(* behaviour exercises one of them, `running`; the others stay as they are *)
(* at first.                                                               *)
(***************************************************************************)
EXTENDS ZLiveMap, MCZNMethodTable, TLC

\* Two threads mark three objects, two of them in one segment, in a map
\* whose bits are all set.
MCStaleBits == {{"marked", "strong"}}

ASSUME MapAssumption

-----------------------------------------------------------------------------
\* A page of eight minimal blocks.
CONSTANTS PageStart, PageSize, FirstLevels, SecondLevelLog2, MinBlockLog2, MaxBlockLog2,
          ObjectAlignment, ZMinFreeBlockSize, ObjectSizes, MaxLiveBytes, MaxCollections

VARIABLES useBinaryBuddyAllocator, allocator, pageLive, allocated, freed, _bytes_freed,
          _bytes_used, _exhausted, collections, step
pageVars ==
  <<useBinaryBuddyAllocator, allocator, pageLive, allocated, freed, _bytes_freed, _bytes_used,
    _exhausted, collections, step>>

F == INSTANCE ZPageFreeList WITH live <- pageLive

ASSUME F!PageAssumption /\ F!AllocatorAssumptions

-----------------------------------------------------------------------------
\* A worker and a mutator, stacks of one entry and magazines of one stack:
\* every push but the first goes through the lists.
CONSTANTS Workers

VARIABLES _top, _end, _expand_lock, head, next, entries, contents, installed,
          magazine, stackPc, list, headSeen, link, then, pushes
stackVars ==
  <<_top, _end, _expand_lock, head, next, entries, contents, installed,
    magazine, stackPc, list, headSeen, link, then, pushes>>

S == INSTANCE ZMarkStackAllocator WITH
       Slots <- 1, MagazineSlots <- 1, ExpandSize <- 2, SpaceLimit <- 6,
       MaxPushes <- 3, pc <- stackPc, seen <- headSeen

-----------------------------------------------------------------------------
\* Two workers, two levels of two segments, two indices in each.
CONSTANTS Iterators

VARIABLES strategy, claims, stack, visits
indexVars == <<strategy, claims, stack, visits>>

I == INSTANCE ZIndexDistributor WITH
       Workers <- Iterators, Strategies <- {0, 1},
       ClaimLevels <- 2, Multiplier <- 2, SegmentSize <- 2

-----------------------------------------------------------------------------
\* Two regions of four minimal blocks, a client that holds two blocks;
\* four blocks with headers in a pool.
VARIABLES kind, startFull, lazyThreshold, state, lazy, owned, space
clientVars == <<kind, startFull, lazyThreshold, state, lazy, owned, space>>

C == INSTANCE AllocatorClient WITH
       Start <- 256, MinBlockLog2 <- 4, MaxBlockLog2 <- 6, NumRegions <- 2,
       FirstLevels <- 8, SecondLevelLog2 <- 1, PoolSize <- 256,
       Thresholds <- {0, 2}, Sizes <- {16, 24, 64}, MaxHeld <- 2
ASSUME C!SizesAssumption

-----------------------------------------------------------------------------
\* Two methods with the same hash, in tables of four entries and more; a worker
\* of each generation.
MCHash == [n \in NMethods |-> 3]
MCMaxCycles == [old |-> 2, young |-> 1]

MCSymmetry == Permutations(Threads) \cup Permutations(Iterators) \cup Permutations(NMethods)

-----------------------------------------------------------------------------
VARIABLE running

mcVars == <<vars, pageVars, stackVars, indexVars, clientVars, methodVars,
            running>>

MCInit ==
  /\ running \in {"free_list", "livemap", "stacks", "indices", "client", "methods"}
  /\ Init /\ F!Init /\ S!Init /\ I!Init /\ C!Init /\ N!Init
  /\ running # "free_list" => ~useBinaryBuddyAllocator
  /\ running # "indices" => strategy = 0
  /\ running # "client" => kind = "tree" /\ lazyThreshold = 0

OnlyRuns(part) ==
  /\ running = part
  /\ UNCHANGED running
  /\ IF part = "free_list" THEN TRUE ELSE UNCHANGED pageVars
  /\ IF part = "livemap" THEN TRUE ELSE UNCHANGED vars
  /\ IF part = "stacks" THEN TRUE ELSE UNCHANGED stackVars
  /\ IF part = "indices" THEN TRUE ELSE UNCHANGED indexVars
  /\ IF part = "client" THEN TRUE ELSE UNCHANGED clientVars
  /\ IF part = "methods" THEN TRUE ELSE UNCHANGED methodVars

MCNext ==
  \/ OnlyRuns("free_list") /\ F!Next
  \/ OnlyRuns("livemap") /\ Next
  \/ OnlyRuns("stacks") /\ S!Next
  \/ OnlyRuns("indices") /\ I!Next
  \/ OnlyRuns("client") /\ C!Next
  \/ OnlyRuns("methods") /\ N!Next

MCSpec == MCInit /\ [][MCNext]_mcVars

-----------------------------------------------------------------------------
\* Each of these is about one of the structures, and looked at while it runs;
\* those of the livemap, MarksAreExact, LiveCountIsExact and BaseIsNearest, are
\* in ZLiveMap, that of the methods, CodeIsSafe, in MCZNMethodTable.

\* Nothing is in two hands: no byte of a recycled page
\* (ZPage::alloc_object_free_list), whose recycled bytes add up, none that a
\* general allocator gave to a client, no mark stack, and none is lost
\* (ZStackList, ZMarkThreadLocalStacks), and no index of a table
\* (ZIndexDistributor).
NothingIsHandedOutTwice ==
  /\ running = "free_list" => F!NothingIsOverwritten /\ F!BytesAreAccounted
  /\ running = "client" => C!NothingIsHandedOutTwice
  /\ running = "stacks" => S!StacksAreHeldOnce
  /\ running = "indices" => I!EveryIndexOnce

\* A client's buddy allocator (bbuddy.cpp, ibuddy.cpp, btbuddy.cpp) refuses a
\* request only when every block of its size is in use, and memory that came
\* back is whole again, in these and in the allocator with headers
\* (JSMalloc::free), whose refusals nothing is said of: it may leave free
\* blocks unoffered (JSMalloc.cpp:299-302).  The allocator without headers of
\* a recycled page (JSMalloc.cpp, ZOptimizedConfig) gives up only when no free
\* block is as large as the class it searches from.
NothingIsLost ==
  /\ [](running = "client" => C!NothingIsLost)
  /\ F!ExhaustedIsEarned
=============================================================================

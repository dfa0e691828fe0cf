--------------------------- MODULE AllocatorClient ---------------------------
(***************************************************************************)
(* A client of the general allocators: the binary buddy allocator, the     *)
(* inverse one, the binary-tree one and the segregated-fit one with        *)
(* headers.  The buddy allocators share the public operations and the lazy *)
(* lists of buddy_allocator.cpp.  An allocator starts with all memory free *)
(* or, `startFull`, with all memory in the client's hands, which it then   *)
(* gives back by ranges; the tree allocator that starts full is the one of *)
(* ZPageFreeList, and the header of a block that starts full has no size.  *)
(* There is one thread: deallocation takes none of the region locks.       *)
(* Requests exceed half a minimal block: below that the inverse allocator  *)
(* reads a free list beyond the last level.                                *)
(***************************************************************************)
EXTENDS Integers, Sequences, FiniteSets, FiniteSetsExt, SequencesExt

CONSTANTS Start,                    \* of the memory
          MinBlockLog2, MaxBlockLog2, NumRegions,  \* the buddy allocators' blocks
          FirstLevels, SecondLevelLog2, PoolSize,  \* the allocator with headers
          Thresholds,               \* lazyThreshold
          Sizes,                    \* of requests
          MaxHeld                   \* bound on the blocks the client holds

BB == INSTANCE BinaryBuddyAllocator
IB == INSTANCE IBuddyAllocator
BT == INSTANCE BTBuddyAllocator
JM == INSTANCE JSMalloc WITH PoolStart <- Start

SizesAssumption == \A s \in Sizes : 2 * s > BB!MinSize /\ s <= BB!MaxSize

VARIABLES kind, startFull, lazyThreshold,
          state,    \* the allocator's
          lazy,     \* its lazy lists
          owned,    \* blocks the client was given, with the size it asked for
          space     \* minimal blocks it had from the start

vars == <<kind, startFull, lazyThreshold, state, lazy, owned, space>>

Init ==
  /\ kind \in {"binary", "inverse", "tree", "headers"}
  /\ startFull \in BOOLEAN /\ (startFull => kind \in {"binary", "inverse"})
  /\ lazyThreshold \in Thresholds /\ (kind = "headers" => lazyThreshold = 0)
  /\ state = CASE kind = "binary"  -> BB!Create(startFull)
               [] kind = "inverse" -> IB!Create(startFull)
               [] kind = "tree"    -> BT!Empty
               [] kind = "headers" -> JM!Reset
  /\ lazy = BB!NoLazy
  /\ owned = {}
  /\ space = IF startFull
               THEN {Start + k * BB!MinSize : k \in 0 .. (NumRegions * BB!MaxSize) \div BB!MinSize - 1}
               ELSE {}

\* allocate_internal of the allocator at hand.
AllocateInternal(size) ==
  CASE kind = "binary"  -> BB!AllocateInternal(state, size)
    [] kind = "inverse" -> IB!AllocateInternal(state, size)
    [] kind = "tree"    -> BT!AllocateInternal(state, size)
    [] kind = "headers" -> JM!Allocate(state, size)
DeallocateInternal(s, ptr, size) ==
  CASE kind = "binary"  -> BB!DeallocateInternal(s, ptr, size)
    [] kind = "inverse" -> IB!DeallocateInternal(s, ptr, size)
    [] kind = "tree"    -> BT!DeallocateInternal(s, ptr, size)
FreeBlocks ==
  CASE kind = "binary"  -> BB!FreeBlocks(state)
    [] kind = "inverse" -> IB!FreeBlocks(state)
    [] kind = "tree"    -> BT!FreeBlocks(state)
    [] kind = "headers" -> JM!FreeBlocks(state)

Parameters == <<kind, startFull, lazyThreshold>>

Give(ptr, size) == owned' = owned \cup {[start |-> ptr, size |-> size]}

\* BuddyAllocator::allocate, JSMallocBase::allocate
AllocateLazily(size) ==
  /\ kind # "headers" /\ BB!LazyHas(lazy, size)
  /\ lazy' = BB!LazyPop(lazy, size)
  /\ Give(BB!LazyFirst(lazy, size), size)
  /\ UNCHANGED state
Allocate(size) ==
  /\ Cardinality(owned) < MaxHeld
  /\ \/ AllocateLazily(size)
     \/ /\ kind = "headers" \/ ~BB!LazyHas(lazy, size)
        /\ state' = AllocateInternal(size).state
        /\ IF AllocateInternal(size).found
             THEN Give(AllocateInternal(size).start, size)
             ELSE UNCHANGED owned
        /\ UNCHANGED lazy
  /\ UNCHANGED <<Parameters, space>>

\* The size a buddy allocator reads from its map of split blocks.
AllocSize(ptr) == BB!GetAllocSize(state.bits.split, ptr)

\* BuddyAllocator::deallocate with the size, or without it.
DeallocateSized(ptr, size) ==
  /\ IF BB!LazyTakes(lazy, lazyThreshold, size)
       THEN lazy' = BB!LazyPush(lazy, ptr, size) /\ UNCHANGED state
       ELSE /\ state' = DeallocateInternal(state, ptr,
                                           BB!RoundUpPow2(BB!Larger(size, BB!MinSize)))
            /\ UNCHANGED lazy
Deallocate(o) ==
  /\ \/ kind # "headers" /\ DeallocateSized(o.start, o.size)
     \/ kind \in {"binary", "inverse"} /\ DeallocateSized(o.start, AllocSize(o.start))
     \/ kind = "headers" /\ state' = JM!Free(state, o.start) /\ UNCHANGED lazy
  /\ owned' = owned \ {o}
  /\ UNCHANGED <<Parameters, space>>

\* The client gives back the first of the memory it had from the start.
DeallocateRange(size) ==
  LET from  == Min(space)
      range == {b \in space : b < from + size}
  IN  /\ space # {} /\ from + size <= Start + NumRegions * BB!MaxSize
      /\ state' = IF kind = "binary" THEN BB!DeallocateRange(state, from, size)
                                     ELSE IB!DeallocateRange(state, from, size)
      /\ space' = space \ range
      /\ UNCHANGED <<Parameters, lazy, owned>>

EmptyLazyList ==
  /\ lazy # BB!NoLazy
  /\ state' = FoldLeft(LAMBDA s, b : DeallocateInternal(s, b.start, b.size),
                       state, BB!LazyBlocks(lazy))
  /\ lazy' = BB!NoLazy
  /\ UNCHANGED <<Parameters, owned, space>>

Next ==
  \/ \E size \in Sizes : Allocate(size)
  \/ \E o \in owned : Deallocate(o)
  \/ \E n \in 1 .. Cardinality(space) : DeallocateRange(n * BB!MinSize)
  \/ EmptyLazyList

Spec == Init /\ [][Next]_vars

-----------------------------------------------------------------------------
(* Properties.                                                             *)

Lazy == {[start |-> b.start, size |-> b.size] : b \in ToSet(BB!LazyBlocks(lazy))}
Space == {[start |-> b, size |-> BB!MinSize] : b \in space}

Header == IF kind = "headers" THEN JM!HeaderLength ELSE 0
Memory == Start .. Start + (IF kind = "headers" THEN PoolSize ELSE NumRegions * BB!MaxSize) - 1
\* A buddy allocator's request takes a whole block.
Room(o) == IF kind = "headers" THEN o.size
                               ELSE BB!SizeOfLevel(BB!FindSmallestBlockLevel(o.size))
Extent(o) == o.start - Header .. o.start + Room(o) - 1

(* The blocks that clients hold, those on lazy lists and those the         *)
(* allocator still offers are apart from each other, each with its header  *)
(* where it has one, and lie in the memory: over any order of requests,    *)
(* splits, merges and ranges no byte is handed out twice.                  *)
NothingIsHandedOutTwice ==
  LET blocks == owned \cup Lazy \cup Space \cup FreeBlocks
  IN  /\ \A b \in blocks : Extent(b) \subseteq Memory
      /\ \A b, c \in blocks : b # c => Extent(b) \cap Extent(c) = {}
      /\ Cardinality(blocks) =
           Cardinality(owned) + Cardinality(Lazy) + Cardinality(Space) + Cardinality(FreeBlocks)

\* The blocks of a level that no client and no lazy list has a part of.
Unused(level) ==
  {b \in {Start + k * BB!SizeOfLevel(level) :
            k \in 0 .. (NumRegions * BB!MaxSize) \div BB!SizeOfLevel(level) - 1} :
     \A o \in owned \cup Lazy \cup Space :
       Extent(o) \cap (b .. b + BB!SizeOfLevel(level) - 1) = {}}
LargestBlocks ==
  IF kind = "headers"
    THEN FreeBlocks = {[start |-> Start + Header, size |-> PoolSize - Header]}
    ELSE Cardinality(Unused(0)) = NumRegions /\ AllocateInternal(BB!MaxSize).found

(* A buddy allocator (bbuddy.cpp, ibuddy.cpp, btbuddy.cpp) refuses a       *)
(* request exactly when clients or lazy lists have a part of every block   *)
(* of its size, so splits, merges and ranges lose no block; and memory     *)
(* given back in full is again blocks of the largest size, one block in    *)
(* the allocator with headers (JSMalloc::free).  That allocator may refuse *)
(* a request although a large enough block is free: remove_block takes a   *)
(* class's bit with the tail of a list that has other blocks               *)
(* (JSMalloc.cpp:299-302), which then are not offered.                     *)
NothingIsLost ==
  /\ kind # "headers" =>
       \A size \in Sizes :
         AllocateInternal(size).found <=> Unused(BB!FindSmallestBlockLevel(size)) # {}
  /\ owned = {} /\ space = {} /\ lazy = BB!NoLazy => LargestBlocks

=============================================================================

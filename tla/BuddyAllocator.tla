--------------------------- MODULE BuddyAllocator ---------------------------
(***************************************************************************)
(* What the buddy allocators share (buddy_allocator.cpp): the geometry of  *)
(* regions and blocks, the split of a freed range into blocks, the map of  *)
(* split blocks that tells a block's size from its address, and the lazy   *)
(* lists that keep freed blocks of a size from being merged.  A region is  *)
(* a complete binary tree of blocks; the root is node 0, the children of   *)
(* node i are 2i+1 and 2i+2.                                               *)
(***************************************************************************)
EXTENDS Integers, Sequences, FiniteSets, SequencesExt

CONSTANTS MinBlockLog2,   \* minBlockSizeLog2; 4 in the code
          MaxBlockLog2,   \* maxBlockSizeLog2; 18 for a page
          NumRegions,     \* numRegions; 8 for a page
          Start           \* _start

NumLevels == MaxBlockLog2 - MinBlockLog2 + 1
MinSize   == 2 ^ MinBlockLog2
MaxSize   == 2 ^ MaxBlockLog2
Regions   == 0 .. NumRegions - 1
Nodes     == 0 .. 2 ^ NumLevels - 2
Levels    == 0 .. NumLevels - 1

BuddyAssumption ==
  /\ MinBlockLog2 >= 4
  /\ MaxBlockLog2 > MinBlockLog2
  /\ NumRegions \in Nat \ {0}
  /\ Start \in Nat

Larger(a, b) == IF a > b THEN a ELSE b

-----------------------------------------------------------------------------
(* Geometry.                                                               *)

RegionStart(r) == Start + r * MaxSize
GetRegion(ptr) == (ptr - Start) \div MaxSize
SizeOfLevel(l) == MaxSize \div 2 ^ l
IndexOfLevel(l) == 2 ^ l - 1
LevelOfIndex(i) == CHOOSE l \in Levels : IndexOfLevel(l) <= i /\ i < IndexOfLevel(l + 1)
IndexInLevel(ptr, r, l) == (ptr - RegionStart(r)) \div SizeOfLevel(l)
BlockIndex(ptr, r, l) == IndexOfLevel(l) + IndexInLevel(ptr, r, l)
BuddyIndex(ptr, r, l) ==
  LET i == BlockIndex(ptr, r, l) IN IF i % 2 = 0 THEN i - 1 ELSE i + 1
GetAddress(r, i) ==
  RegionStart(r) + (i - IndexOfLevel(LevelOfIndex(i))) * SizeOfLevel(LevelOfIndex(i))
GetBuddy(ptr, r, l) ==
  IF l = 0 THEN ptr
           ELSE RegionStart(r) + SizeOfLevel(l) * (BuddyIndex(ptr, r, l) - IndexOfLevel(l))
AlignLeft(ptr, l) ==
  LET r == GetRegion(ptr) IN RegionStart(r) + SizeOfLevel(l) * IndexInLevel(ptr, r, l)

\* The deepest level whose blocks hold size bytes.
FindSmallestBlockLevel(size) ==
  CHOOSE l \in Levels : /\ size <= SizeOfLevel(l)
                        /\ l < NumLevels - 1 => size > SizeOfLevel(l + 1)
RoundUpPow2(size) == CHOOSE p \in {2 ^ k : k \in 0 .. MaxBlockLog2} :
                       size <= p /\ p < 2 * size

\* The first level from start on whose blocks begin at ptr.
LevelAlignment(ptr, r, start) ==
  IF start >= NumLevels
    THEN NumLevels - 1
    ELSE CHOOSE l \in start .. NumLevels :
           /\ (ptr - RegionStart(r)) % SizeOfLevel(l) = 0
           /\ \A k \in start .. l - 1 : (ptr - RegionStart(r)) % SizeOfLevel(k) # 0

-----------------------------------------------------------------------------
(* Freeing a range.                                                        *)

\* The block that the range loop of deallocate_range frees at from: the
\* whole rest of the region when that is an aligned block, else the
\* largest smaller block that begins there.
BlockOfRange(from, to, r) ==
  LET most == FindSmallestBlockLevel(to - from)
  IN  IF SizeOfLevel(most) = to - from /\ most = LevelAlignment(from, r, most)
        THEN to - from
        ELSE SizeOfLevel(LevelAlignment(from, r, most + 1))

\* A range is clipped to whole minimal blocks.
AlignMin(a) == Start + ((a - Start) \div MinSize) * MinSize
RangeFrom(ptr) == AlignMin(ptr + MinSize - 1)
RangeTo(ptr, size) == AlignMin(ptr + size)

\* The blocks that the range loop visits in region r.
RangeSteps(from, to, r) ==
  LET at[n \in 0 .. MaxSize \div MinSize] ==
        IF n = 0 THEN from
        ELSE IF at[n - 1] >= to THEN to
        ELSE at[n - 1] + BlockOfRange(at[n - 1], to, r)
      steps == {n \in 1 .. MaxSize \div MinSize : at[n - 1] < to}
  IN  [n \in steps |-> [start |-> at[n - 1], size |-> at[n] - at[n - 1]]]

\* The blocks deallocate_range frees, region by region.
RangeBlocks(ptr, size) ==
  LET first == RangeFrom(ptr)
      last  == RangeTo(ptr, size)
      Within(r) ==
        RangeSteps(Larger(RegionStart(r), first),
                   IF RegionStart(r + 1) < last THEN RegionStart(r + 1) ELSE last, r)
  IN  IF first >= last
        THEN <<>>
        ELSE FlattenSeq([k \in 1 .. GetRegion(last - 1) - GetRegion(first) + 1 |->
                           Within(GetRegion(first) + k - 1)])

-----------------------------------------------------------------------------
(* The map of split blocks: a set of nodes per region.                     *)

\* The level of the allocated block at ptr: below the deepest split block
\* that contains it.
GetLevel(split, ptr) ==
  LET r == GetRegion(ptr)
      below == {l \in Levels \ {0} : BlockIndex(ptr, r, l - 1) \in split[r]}
  IN  IF below = {} THEN 0 ELSE CHOOSE l \in below : \A k \in below : k <= l
GetAllocSize(split, ptr) == SizeOfLevel(GetLevel(split, ptr))

\* split_bits: the blocks that contain ptr from one level down to another.
SplitBits(split, ptr, r, first, last) ==
  [split EXCEPT ![r] = @ \cup {BlockIndex(ptr, r, l) : l \in {k \in first .. last - 1 :
                                                               k < NumLevels - 1}}]

\* deallocate_range forgets the splits of a block and of all below it.
ClearSplits(split, blk) ==
  LET r == GetRegion(blk.start)
      top == FindSmallestBlockLevel(blk.size)
  IN  [split EXCEPT ![r] = @ \ UNION {
         {BlockIndex(blk.start, r, l) + k : k \in 0 .. blk.size \div SizeOfLevel(l) - 1} :
           l \in top .. NumLevels - 2}]

-----------------------------------------------------------------------------
(* The lazy lists: a sequence of blocks per level.                         *)

\* init_lazy_lists: half as many blocks at every level up.
LazyThresholds(lazyThreshold) ==
  [l \in Levels |-> IF l = 0 THEN 0 ELSE lazyThreshold \div 2 ^ (NumLevels - 1 - l)]
NoLazy == [l \in Levels |-> <<>>]

LazyHas(lazy, size) == lazy[FindSmallestBlockLevel(size)] # <<>>
LazyFirst(lazy, size) == Head(lazy[FindSmallestBlockLevel(size)])
LazyPop(lazy, size) == [lazy EXCEPT ![FindSmallestBlockLevel(size)] = Tail(@)]

LazyTakes(lazy, lazyThreshold, size) ==
  LET l == FindSmallestBlockLevel(Larger(size, MinSize))
  IN  Len(lazy[l]) < LazyThresholds(lazyThreshold)[l]
LazyPush(lazy, ptr, size) ==
  [lazy EXCEPT ![FindSmallestBlockLevel(Larger(size, MinSize))] = Append(@, ptr)]

\* The blocks empty_lazy_list frees, in its order.
LazyBlocks(lazy) ==
  FlattenSeq([k \in 1 .. NumLevels |->
    [i \in DOMAIN lazy[k - 1] |->
       [start |-> lazy[k - 1][i], size |-> SizeOfLevel(k - 1)]]])

-----------------------------------------------------------------------------
(* Free lists: a sequence of addresses per region and level.               *)

PushFreeList(lists, ptr, r, l) == [lists EXCEPT ![r][l] = Append(@, ptr)]
PopFreeList(lists, r, l) == [lists EXCEPT ![r][l] = Tail(@)]
\* list_remove takes a node out of whatever list it is in.
ListRemove(lists, ptrs) ==
  [r \in Regions |-> [l \in Levels |-> SelectSeq(lists[r][l], LAMBDA p : p \notin ptrs)]]

=============================================================================

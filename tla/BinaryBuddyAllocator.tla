------------------------ MODULE BinaryBuddyAllocator ------------------------
(***************************************************************************)
(* The buddy allocator with free lists per level (bbuddy.cpp).  A pair of  *)
(* buddies has one bit, set when exactly one of the two is free; a block   *)
(* merges with its buddy when freeing it clears the bit.                   *)
(***************************************************************************)
EXTENDS BuddyAllocator

\* The bit of a block and its buddy.
MapIndex(i) == IF i = 0 THEN 0 ELSE (i - 1) \div 2 + 1
Pair(ptr, r, l) == MapIndex(BlockIndex(ptr, r, l))
Flip(bits, flipped) == (bits \ flipped) \cup (flipped \ bits)

InitBitmaps(startFull) ==
  [odd   |-> [r \in Regions |-> {}],
   split |-> [r \in Regions |-> IF startFull THEN 0 .. 2 ^ (NumLevels - 1) - 1 ELSE {}]]

Create(startFull) ==
  [bits  |-> InitBitmaps(startFull),
   lists |-> [r \in Regions |-> [l \in Levels |->
                IF l = 0 /\ ~startFull THEN <<RegionStart(r)>> ELSE <<>>]]]

\* The levels of a region that can serve a request: those that hold the
\* size and have a free block.
Offers(a, r, level) == {l \in 0 .. level : a.lists[r][l] # <<>>}

\* Take the smallest block that is large enough out of the first region
\* that has one, and halve it until it fits: the right halves stay free.
AllocateInternal(a, size) ==
  LET level == FindSmallestBlockLevel(size)
      able  == {r \in Regions : Offers(a, r, level) # {}}
      r     == CHOOSE q \in able : \A p \in able : q <= p
      from  == CHOOSE l \in Offers(a, r, level) : \A k \in Offers(a, r, level) : k <= l
      block == Head(a.lists[r][from])
      flipped == {Pair(block, r, l) : l \in {k \in from .. level : k > 0 \/ k = level}}
      halved  == {BlockIndex(block, r, l) : l \in from .. level - 1}
  IN  IF able = {}
        THEN [found |-> FALSE, state |-> a]
        ELSE [found |-> TRUE,
              start |-> block,
              state |-> [bits  |-> [odd   |-> [a.bits.odd EXCEPT ![r] = Flip(@, flipped)],
                                    split |-> [a.bits.split EXCEPT ![r] = @ \cup halved]],
                         lists |-> [a.lists EXCEPT ![r] = [l \in Levels |->
                                      CASE l = from -> Tail(@[l])
                                        [] l \in from + 1 .. level -> <<block + SizeOfLevel(l)>>
                                        [] OTHER -> @[l]]]]]

\* A defect: the climb stops one level early.
MergeOnce(a, ptr, r, level) ==
  IF level > 0 /\ Pair(ptr, r, level) \in a.bits.odd[r] THEN level - 1 ELSE level
\* The level a freed block reaches: it merges while its buddy is free.
MergeLevel(a, ptr, r, level) ==
  level - Cardinality({l \in 1 .. level :
                         \A k \in l .. level : Pair(ptr, r, k) \in a.bits.odd[r]})

DeallocateInternal(a, ptr, size) ==
  LET r     == GetRegion(ptr)
      level == FindSmallestBlockLevel(size)
      top   == MergeLevel(a, ptr, r, level)
      flipped == {Pair(ptr, r, l) : l \in {k \in top .. level : k > 0 \/ k = level}}
      joined  == {BlockIndex(ptr, r, l) : l \in {k \in top .. level : k < NumLevels - 1}}
      buddies == {GetBuddy(AlignLeft(ptr, l), r, l) : l \in top + 1 .. level}
  IN  [bits  |-> [odd   |-> [a.bits.odd EXCEPT ![r] = Flip(@, flipped)],
                  split |-> [a.bits.split EXCEPT ![r] = @ \ joined]],
       lists |-> PushFreeList(ListRemove(a.lists, buddies), AlignLeft(ptr, top), r, top)]

\* deallocate_range: no block of the range is split any more.
DeallocateRange(a, ptr, size) ==
  LET FreeOne(b, blk) ==
        DeallocateInternal([b EXCEPT !.bits.split = ClearSplits(@, blk)], blk.start, blk.size)
  IN  FoldLeft(FreeOne, a, RangeBlocks(ptr, size))

FreeBlocks(a) ==
  {[start |-> b, size |-> SizeOfLevel(l)] :
     <<b, l>> \in UNION {ToSet(a.lists[r][l]) \X {l} : r \in Regions, l \in Levels}}

=============================================================================

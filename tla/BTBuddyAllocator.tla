-------------------------- MODULE BTBuddyAllocator --------------------------
(***************************************************************************)
(* The buddy allocator a page's free list uses under ZUseBuddyAllocator    *)
(* (btbuddy.cpp with ZConfig): a complete binary tree per region stores at *)
(* every node the height of the largest free block below it; a leaf has    *)
(* height 1.  The size map is left out: with the four bits per block of    *)
(* ZConfig it is only written on this path.                                *)
(***************************************************************************)
EXTENDS BuddyAllocator

TreeHeight(size) == NumLevels - FindSmallestBlockLevel(size)

\* fill: every block is taken to be allocated.
Fill == [r \in Regions |-> [i \in Nodes |-> 0]]
\* init_bitmaps of an allocator that starts empty.
Empty == [r \in Regions |-> [i \in Nodes |-> NumLevels - LevelOfIndex(i)]]

Parent(i) == IF i = 0 THEN 0 ELSE (i - 1) \div 2

\* The ancestors of a node of height h, nearest first, with their heights.
Ascent(i, h) ==
  LET up[k \in h .. NumLevels] == IF k = h THEN i ELSE Parent(up[k - 1])
  IN  [k \in 1 .. NumLevels - h |-> [node |-> up[h + k], height |-> h + k]]

\* Recompute one ancestor from its children; two free buddies merge.
MergeParent(tree, a) ==
  LET left == tree[2 * a.node + 1] right == tree[2 * a.node + 2]
  IN  [tree EXCEPT ![a.node] = IF left = right /\ left = a.height - 1
                                 THEN a.height
                                 ELSE Larger(left, right)]
MaxParent(tree, a) ==
  [tree EXCEPT ![a.node] = Larger(tree[2 * a.node + 1], tree[2 * a.node + 2])]

DeallocateInternal(bt, ptr, size) ==
  LET r == GetRegion(ptr)
      h == TreeHeight(size)
      i == BlockIndex(ptr, r, FindSmallestBlockLevel(size))
  IN  [bt EXCEPT ![r] = FoldLeft(MergeParent, [@ EXCEPT ![i] = h], Ascent(i, h))]

\* deallocate_range
FreeRange(bt, ptr, size) ==
  LET FreeOne(b, blk) == DeallocateInternal(b, blk.start, blk.size)
  IN  FoldLeft(FreeOne, bt, RangeBlocks(ptr, size))

\* The node the descent of allocate_internal ends at: left where the left
\* child promises a block that is high enough, right otherwise.
Descend(tree, h) ==
  LET down[l \in 0 .. NumLevels - h] ==
        IF l = 0 THEN 0
        ELSE LET left == 2 * down[l - 1] + 1
             IN  IF tree[left] < h THEN left + 1 ELSE left
  IN  down[NumLevels - h]

AllocateInternal(bt, size) ==
  LET h == TreeHeight(size)
      able == {r \in Regions : bt[r][0] >= h}
      r == CHOOSE r \in able : \A q \in able : r <= q
      i == Descend(bt[r], h)
  IN  IF able = {}
        THEN [found |-> FALSE, state |-> bt]
        ELSE [found |-> TRUE,
              start |-> GetAddress(r, i),
              state |-> [bt EXCEPT ![r] =
                           FoldLeft(MaxParent, [@ EXCEPT ![i] = 0], Ascent(i, h))]]

\* allocate, without lazy lists: the threshold a page passes is 0.
Allocate(bt, size) ==
  IF size > MaxSize THEN [found |-> FALSE, state |-> bt] ELSE AllocateInternal(bt, size)

\* The blocks that the tree says are free: nodes as high as their level
\* allows below ancestors that are not free themselves.
Ancestors(i) == LET h == NumLevels - LevelOfIndex(i)
                IN  {Ascent(i, h)[k] : k \in DOMAIN Ascent(i, h)}
FreeBlocks(bt) ==
  {[start |-> GetAddress(r, i), size |-> SizeOfLevel(LevelOfIndex(i))] :
     <<r, i>> \in {<<r, i>> \in Regions \X Nodes :
       /\ bt[r][i] = NumLevels - LevelOfIndex(i)
       /\ \A a \in Ancestors(i) : bt[r][a.node] \in bt[r][i] .. a.height - 1}}

=============================================================================

--------------------------- MODULE IBuddyAllocator ---------------------------
(***************************************************************************)
(* The inverse buddy allocator (ibuddy.cpp).  Every free minimal block is  *)
(* in a free list of its own: at the level of the largest free block whose *)
(* buddy was already free when it was freed.  A bit per node says that     *)
(* such a block is at the node.  The top level of a region is the first    *)
(* whose list can be non-empty.                                            *)
(***************************************************************************)
EXTENDS BuddyAllocator

MinLevel == NumLevels - 1

InitBitmaps(startFull) ==
  [free  |-> [r \in Regions |-> IF startFull THEN {} ELSE {i \in Nodes : i % 2 = 0}],
   split |-> [r \in Regions |-> IF startFull THEN 0 .. 2 ^ (NumLevels - 1) - 1 ELSE {}]]

\* Every second block of a level, starting from the second one.
InitialList(r, l) ==
  IF l = 0 THEN <<RegionStart(r)>>
           ELSE [k \in 1 .. 2 ^ (l - 1) |-> RegionStart(r) + (2 * k - 1) * SizeOfLevel(l)]

Create(startFull) ==
  [bits |-> InitBitmaps(startFull),
   lists |-> [r \in Regions |-> [l \in Levels |->
                IF startFull THEN <<>> ELSE InitialList(r, l)]],
   topLevel |-> [r \in Regions |-> 0]]

\* The top level moves down over empty lists.
MovedTop(a, r) ==
  CHOOSE l \in a.topLevel[r] .. NumLevels :
    /\ \A k \in a.topLevel[r] .. l - 1 : a.lists[r][k] = <<>>
    /\ l < NumLevels => a.lists[r][l] # <<>>

MinBlocks(from, size) == {from + k * MinSize : k \in 0 .. size \div MinSize - 1}
NodesBelow(ptr, r, level) ==
  UNION {{BlockIndex(ptr, r, l) + k : k \in 0 .. SizeOfLevel(level) \div SizeOfLevel(l) - 1} :
           l \in level + 1 .. MinLevel}

\* The block at the top level of the first region where it is large enough.
\* A minimal request is served by that block alone, a larger one by the
\* block of its level around it, whose other minimal blocks leave their
\* lists.
AllocateInternal(a, size) ==
  LET Fits(r) == MovedTop(a, r) < NumLevels /\ SizeOfLevel(MovedTop(a, r)) >= size
      able    == {r \in Regions : Fits(r)}
      region  == CHOOSE q \in able : \A p \in able : q <= p
      visited == IF able = {} THEN Regions ELSE 0 .. region
      top     == [r \in Regions |-> IF r \in visited THEN MovedTop(a, r) ELSE a.topLevel[r]]
      block   == Head(a.lists[region][top[region]])
      level   == FindSmallestBlockLevel(size)
      left    == IF level = MinLevel THEN block ELSE AlignLeft(block, level)
      rest    == MinBlocks(left, SizeOfLevel(level)) \ {block}
      taken   == {BlockIndex(block, region, top[region])} \cup NodesBelow(left, region, level)
  IN  IF able = {}
        THEN [found |-> FALSE, state |-> [a EXCEPT !.topLevel = top]]
        ELSE [found |-> TRUE,
              start |-> left,
              state |-> [bits |-> [free  |-> [a.bits.free EXCEPT ![region] = @ \ taken],
                                   split |-> SplitBits(a.bits.split, block, region,
                                                       top[region], level)],
                         lists |-> ListRemove(PopFreeList(a.lists, region, top[region]), rest),
                         topLevel |-> top]]

RaisedTop(top, level) == IF level < top THEN level ELSE top

\* The level a freed minimal block climbs to: up while the buddy is free.
ClimbLevel(a, ptr, r) ==
  MinLevel - Cardinality({l \in 1 .. MinLevel :
                            \A k \in l .. MinLevel : BuddyIndex(ptr, r, k) \in a.bits.free[r]})

DeallocateSingle(a, ptr) ==
  LET r     == GetRegion(ptr)
      level == ClimbLevel(a, ptr, r)
      joined == {BlockIndex(ptr, r, l) : l \in level .. MinLevel - 1}
      node  == IF level > 0 THEN {BlockIndex(ptr, r, level)} ELSE {}
  IN  [bits |-> [free  |-> [a.bits.free EXCEPT ![r] = @ \cup node],
                 split |-> [a.bits.split EXCEPT ![r] = @ \ joined]],
       lists |-> PushFreeList(a.lists, ptr, r, level),
       topLevel |-> [a.topLevel EXCEPT ![r] = RaisedTop(@, level)]]

DeallocateRange(a, ptr, size) ==
  LET from == RangeFrom(ptr)
      n    == (RangeTo(ptr, size) - from) \div MinSize
  IN  FoldLeft(DeallocateSingle, a, [k \in 1 .. n |-> from + (k - 1) * MinSize])

DeallocateInternal(a, ptr, size) == DeallocateRange(a, ptr, RoundUpPow2(size))

FreeBlocks(a) ==
  {[start |-> b, size |-> MinSize] :
     b \in UNION {ToSet(a.lists[r][l]) : r \in Regions, l \in Levels}}

=============================================================================

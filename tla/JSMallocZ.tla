----------------------------- MODULE JSMallocZ -----------------------------
(***************************************************************************)
(* The segregated-fit allocator a page's free list uses by default         *)
(* (JSMalloc.cpp, configuration ZOptimizedConfig): one list of free blocks *)
(* per size class, a bitmap of the classes that have a block, no headers   *)
(* and no coalescing.  A block is a record of its start and its size in    *)
(* bytes.  A page is allocated from by one thread at a time, so an         *)
(* operation is one step.                                                  *)
(***************************************************************************)
EXTENDS Integers, Sequences

CONSTANTS FirstLevels,      \* _fl_index; 14 in the code
          SecondLevelLog2,  \* _sl_index_log2; 2 in the code
          PoolStart,        \* _block_start
          PoolSize          \* _pool_size

MinAllocLog2    == 4      \* _min_alloc_size_log2
MBS             == 16     \* _mbs
WordLog2        == 12     \* bits of a size_t here; 64 in the code
NumLists        == FirstLevels * 2 ^ SecondLevelLog2

LevelsAssumption ==
  /\ FirstLevels \in Nat \ {0}
  /\ SecondLevelLog2 \in 0 .. MinAllocLog2
PoolAssumption ==
  /\ PoolStart \in Nat
  /\ PoolSize \in Nat
  /\ PoolSize % MBS = 0
  /\ PoolSize < 2 ^ WordLog2

Ilog2(n) == CHOOSE k \in 0 .. WordLog2 - 1 : 2 ^ k <= n /\ n < 2 ^ (k + 1)
Subtract(a, b) == (a - b) % 2 ^ WordLog2

\* The size class of a block: 2^SecondLevelLog2 classes per power of
\* two; everything beyond the table, and what wraps below it, is in the
\* extra list.
GetMapping(size) ==
  LET fl == Ilog2(size)
      sl == size \div 2 ^ (fl - SecondLevelLog2) - 2 ^ SecondLevelLog2
      mapping == (fl - MinAllocLog2) * 2 ^ SecondLevelLog2 + sl
  IN  IF mapping \in 0 .. NumLists THEN mapping ELSE NumLists

AlignSize(size) == ((size + MBS - 1) \div MBS) * MBS

\* The smallest size whose class holds only blocks that fit.
TargetSize(size) == size + 2 ^ (Ilog2(size) - SecondLevelLog2) - 1

\* reset(true): everything is taken to be allocated.
Reset == [bitmap |-> {}, blocks |-> [m \in 0 .. NumLists |-> <<>>]]

InsertBlock(js, blk) ==
  LET m == GetMapping(blk.size)
  IN  [bitmap |-> js.bitmap \union {m},
       blocks |-> [js.blocks EXCEPT ![m] = <<blk>> \o @]]

\* Free one range; a pointer outside the pool is ignored.
FreeRange(js, start, size) ==
  IF start \in PoolStart .. PoolStart + PoolSize - 1
    THEN InsertBlock(js, [start |-> start, size |-> size])
    ELSE js

\* The classes that the bitmap offers for a request, and the first of them
\* that has a block; a class found empty on the way loses its bit.
AdjustAvailable(js, m) == {i \in js.bitmap : i >= m}
RemoveFrom(js, m) ==
  LET offered == AdjustAvailable(js, m)
      filled  == {i \in offered : js.blocks[i] # <<>>}
  IN  IF filled = {}
        THEN [found |-> FALSE, js |-> [js EXCEPT !.bitmap = @ \ offered]]
        ELSE LET i    == CHOOSE i \in filled : \A j \in filled : i <= j
                 rest == Tail(js.blocks[i])
                 gone == {j \in offered : j < i} \union
                           IF rest = <<>> THEN {i} ELSE {}
             IN  [found |-> TRUE,
                  blk   |-> Head(js.blocks[i]),
                  js    |-> [bitmap |-> js.bitmap \ gone,
                             blocks |-> [js.blocks EXCEPT ![i] = rest]]]

\* What split_block leaves of a block once size bytes are cut from it.
SplitBlock(blk, size) ==
  [start |-> blk.start + size, size |-> Subtract(blk.size, size)]

\* find_block: a block that is large enough, its rest given back when that
\* is a block of its own.
FindBlock(js, request) ==
  LET size  == AlignSize(request)
      taken == RemoveFrom(js, GetMapping(TargetSize(size)))
  IN  IF taken.found /\ Subtract(taken.blk.size, size) >= MBS
        THEN [taken EXCEPT !.js = InsertBlock(@, SplitBlock(taken.blk, size))]
        ELSE taken

Allocate(js, request) ==
  LET taken == FindBlock(js, request)
  IN  IF taken.found
        THEN [found |-> TRUE, start |-> taken.blk.start, state |-> taken.js]
        ELSE [found |-> FALSE, state |-> taken.js]

FreeBlocks(js) ==
  UNION {{js.blocks[m][i] : i \in DOMAIN js.blocks[m]} : m \in 0 .. NumLists}

=============================================================================

------------------------------ MODULE JSMalloc ------------------------------
(***************************************************************************)
(* The segregated-fit allocator with block headers (JSMalloc.cpp,          *)
(* configuration BaseConfig): the blocks tile the pool, each with a header *)
(* that holds its size, whether it is free and the block before it; a      *)
(* block is named by the address of its header.  Free blocks are in a list *)
(* per size class, a bit per class offers it, and a freed block merges     *)
(* with its free neighbours.                                               *)
(***************************************************************************)
EXTENDS Integers, Sequences, SequencesExt, Functions

CONSTANTS FirstLevels,      \* _fl_index; 32 in the code
          SecondLevelLog2,  \* _sl_index_log2; 5 in the code
          PoolStart,        \* _block_start
          PoolSize          \* _pool_size

HeaderLength == 32          \* _block_header_length
MBS          == 32          \* _mbs
Classes      == 0 .. FirstLevels * 2 ^ SecondLevelLog2 - 1
None         == -1          \* nullptr

Ilog2(n) == CHOOSE k \in 0 .. FirstLevels : 2 ^ k <= n /\ n < 2 ^ (k + 1)
AlignSize(size) == ((size + MBS - 1) \div MBS) * MBS

\* get_mapping and flatten_mapping
ClassOf(size) ==
  LET fl == Ilog2(size)
  IN  fl * 2 ^ SecondLevelLog2 + size \div 2 ^ (fl - SecondLevelLog2) - 2 ^ SecondLevelLog2

PtrInPool(ptr) == ptr \in PoolStart .. PoolStart + PoolSize - 1
GetNextPhysBlock(js, b) ==
  LET next == b + HeaderLength + js.phys[b].size
  IN  IF PtrInPool(next) THEN next ELSE None

\* mark_free, mark_used
Mark(js, b, free) == [js EXCEPT !.phys[b].free = free]

InsertBlock(js, b) ==
  LET class == ClassOf(js.phys[b].size)
  IN  Mark([js EXCEPT !.blocks[class] = <<b>> \o @, !.bitmap = @ \cup {class}], b, TRUE)

\* A block without a successor in its list takes the bit of the class with
\* it, whether or not there is a block before it.
RemoveBlock(js, b, class) ==
  LET list == js.blocks[class]
  IN  Mark([js EXCEPT !.blocks[class] = Remove(@, b),
                      !.bitmap = IF list[Len(list)] = b THEN @ \ {class} ELSE @], b, FALSE)

\* reset(false): the pool is one free block.
Reset ==
  InsertBlock([phys   |-> [b \in {PoolStart} |->
                             [size |-> PoolSize - HeaderLength, free |-> FALSE, prev |-> None]],
               blocks |-> [c \in Classes |-> <<>>],
               bitmap |-> {}], PoolStart)

\* The block after b in memory learns of its new neighbour.
RelinkNext(js, b) ==
  LET next == GetNextPhysBlock(js, b)
  IN  IF next = None THEN js ELSE [js EXCEPT !.phys[next].prev = b]

\* split_block, then insert_block of the remainder at address b + header + size.
SplitBlock(js, b, size) ==
  LET rest == b + HeaderLength + size
      left == [size |-> js.phys[b].size - HeaderLength - size, free |-> FALSE, prev |-> b]
      cut  == [js EXCEPT !.phys = (rest :> left) @@ [@ EXCEPT ![b].size = size]]
  IN  InsertBlock(RelinkNext(cut, rest), rest)

TargetSize(size) == size + 2 ^ (Ilog2(size) - SecondLevelLog2) - 1

\* find_block, with adjust_available_mapping.
Allocate(js, request) ==
  LET size    == AlignSize(request)
      offered == {c \in js.bitmap : c >= ClassOf(TargetSize(size))}
      class   == CHOOSE c \in offered : \A d \in offered : c <= d
      b       == Head(js.blocks[class])
      taken   == RemoveBlock(js, b, class)
  IN  IF offered = {}
        THEN [found |-> FALSE, state |-> js]
        ELSE [found |-> TRUE,
              start |-> b + HeaderLength,
              state |-> IF js.phys[b].size - size >= MBS + HeaderLength
                          THEN SplitBlock(taken, b, size)
                          ELSE taken]

RemoveIfFree(js, b) ==
  IF js.phys[b].free THEN RemoveBlock(js, b, ClassOf(js.phys[b].size)) ELSE js

CoalesceBlocks(js, b, c) ==
  LET removed == RemoveIfFree(RemoveIfFree(js, b), c)
      joined  == [removed EXCEPT
                    !.phys = Restrict([@ EXCEPT ![b].size = @ + HeaderLength + js.phys[c].size],
                                      DOMAIN @ \ {c})]
  IN  RelinkNext(joined, b)

MergePrev(js, b) ==
  LET prev == js.phys[b].prev
  IN  IF prev # None /\ js.phys[prev].free
        THEN [state |-> CoalesceBlocks(js, prev, b), block |-> prev]
        ELSE [state |-> js, block |-> b]
MergeNext(js, b) ==
  LET next == GetNextPhysBlock(js, b)
  IN  IF next # None /\ js.phys[next].free THEN CoalesceBlocks(js, b, next) ELSE js

Free(js, ptr) ==
  LET merged == MergePrev(js, ptr - HeaderLength)
  IN  InsertBlock(MergeNext(merged.state, merged.block), merged.block)

FreeBlocks(js) ==
  {[start |-> b + HeaderLength, size |-> js.phys[b].size] :
     b \in UNION {ToSet(js.blocks[c]) : c \in Classes}}

=============================================================================

------------------------------ MODULE ZPageCache ------------------------------
(***************************************************************************)
(* The cache of free pages: ZPageCache.  A request takes a page of its     *)
(* kind, or splits or retypes a larger one; memory is taken back, from the *)
(* least recently used end of the lists, to build a page of another size   *)
(* or to be uncommitted.                                                   *)
(*                                                                         *)
(* A page is a record: its type, its first virtual granule (start), its    *)
(* physical granules (phys), which are mapped there in address order, and  *)
(* whether it has been unused for ZUncommitDelay (expired).  There is one  *)
(* NUMA node.                                                              *)
(***************************************************************************)
EXTENDS Integers, Sequences, SequencesExt, FiniteSets, FiniteSetsExt

CONSTANTS
  MediumSize   \* ZPageSizeMedium, in granules; a small page is one granule

ASSUME MediumAssumption == MediumSize \in Nat \ {0, 1}

SmallSize == 1

TypeFromSize(size) ==
  IF size = SmallSize THEN "small"
  ELSE IF size = MediumSize THEN "medium" ELSE "large"

Size(page) == Cardinality(page.phys)
SizeOf(pages) == Cardinality(UNION {{i} \X pages[i].phys : i \in DOMAIN pages})

EmptyCache == [small |-> <<>>, medium |-> <<>>, large |-> <<>>]
CachedPages(cache) == cache.small \o cache.medium \o cache.large

Lowest(granules, n) ==
  {g \in granules : Cardinality({h \in granules : h < g}) < n}

(* ZPage::split_with_pmem: a new page takes the front of the page;         *)
(* reset() forgets when either was last used.                             *)
SplitFront(page, type, size) ==
  [type |-> type, start |-> page.start,
   phys |-> Lowest(page.phys, size), expired |-> TRUE]

SplitRest(page, size) ==
  [page EXCEPT !.type = TypeFromSize(Size(page) - size),
               !.start = @ + size,
               !.phys = @ \ Lowest(@, size),
               !.expired = TRUE]

CacheFree(cache, page) == [cache EXCEPT ![page.type] = <<page>> \o @]

WithSize(list, Test(_)) == {i \in DOMAIN list : Test(Size(list[i]))}

TakeAt(cache, type, i) ==
  [page |-> cache[type][i], cache |-> [cache EXCEPT ![type] = RemoveAt(@, i)]]

(* A page of the exact type: any small or medium page, or a large page of  *)
(* exactly the size.                                                       *)
ExactPages(cache, type, size) ==
  IF type = "large" THEN WithSize(cache.large, LAMBDA s : s = size)
  ELSE DOMAIN cache[type]

OversizedLarge(cache, size) == WithSize(cache.large, LAMBDA s : s >= size)

HasOversizedMedium(cache, size) == size <= MediumSize /\ cache.medium # <<>>

(* alloc_page: found, the page, and what is left of the cache.             *)
CacheAlloc(cache, type, size) ==
  IF ExactPages(cache, type, size) # {}
  THEN [found |-> TRUE] @@ TakeAt(cache, type, Min(ExactPages(cache, type, size)))
  ELSE IF OversizedLarge(cache, size) = {} /\ ~HasOversizedMedium(cache, size)
  THEN [found |-> FALSE, cache |-> cache]
  ELSE LET taken == IF OversizedLarge(cache, size) # {}
                    THEN TakeAt(cache, "large", Min(OversizedLarge(cache, size)))
                    ELSE TakeAt(cache, "medium", 1)
           page == taken.page
       IN  IF size < Size(page)
           THEN [found |-> TRUE, page |-> SplitFront(page, type, size),
                 cache |-> CacheFree(taken.cache, SplitRest(page, size))]
           ELSE [found |-> TRUE, page |-> [page EXCEPT !.type = type],
                 cache |-> taken.cache]

(* The pages flush visits, in its order: the large, the medium and the     *)
(* small pages, each list from its end and up to the first page that is    *)
(* not accepted.                                                           *)
Victims(list, accepted) ==
  LET refused == {i \in DOMAIN list : list[i] \notin accepted}
      last == IF refused = {} THEN 0 ELSE Max(refused)
  IN  Reverse(SubSeq(list, last + 1, Len(list)))

AllVictims(cache, accepted) ==
  Victims(cache.large, accepted) \o Victims(cache.medium, accepted)
    \o Victims(cache.small, accepted)

(* It stops when enough has been flushed, and gives back what is too much  *)
(* of the last page.                                                       *)
Flush(cache, accepted, requested) ==
  LET victims == AllVictims(cache, accepted)
      n == Cardinality({i \in DOMAIN victims :
                          SizeOf(SubSeq(victims, 1, i - 1)) < requested})
      pages == SubSeq(victims, 1, n)
      over == SizeOf(pages) - requested
      left == [type \in DOMAIN cache |->
                 SelectSeq(cache[type], LAMBDA p : p \notin Range(pages))]
      last == pages[n]
  IN  IF over > 0
      THEN [pages |-> [pages EXCEPT ![n] = SplitRest(last, over)],
            cache |-> CacheFree(left,
                        SplitFront(last, TypeFromSize(over), over))]
      ELSE [pages |-> pages, cache |-> left]

FlushForAllocation(cache, requested) ==
  Flush(cache, Range(CachedPages(cache)), requested)

(* commitExpired: ZUncommitDelay has passed since the last commit.         *)
FlushForUncommit(cache, requested, commitExpired) ==
  IF ~commitExpired \/ requested = 0 THEN [pages |-> <<>>, cache |-> cache]
  ELSE Flush(cache, {p \in Range(CachedPages(cache)) : p.expired}, requested)
===============================================================================

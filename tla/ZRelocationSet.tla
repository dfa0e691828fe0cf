--------------------------- MODULE ZRelocationSet ---------------------------
(***************************************************************************)
(* How a young collection chooses and installs its relocation set:         *)
(* ZGeneration::select_relocation_set, the selector                        *)
(* (zRelocationSetSelector), the installation of forwardings by parallel   *)
(* workers out of one block of memory (zRelocationSet.cpp), the aging of   *)
(* the pages that stay (ZFlipAgePagesTask), and the reset before the next  *)
(* collection.                                                             *)
(*                                                                         *)
(* Pages are visited in the order of their numbers.  Marking has given     *)
(* each a number of live bytes, none for a page that is empty.  A          *)
(* forwarding takes one unit of memory and its entries one each.           *)
(***************************************************************************)
EXTENDS Integers, Sequences, SequencesExt, FiniteSetsExt

CONSTANTS Pages,              \* 1 .. n
          TypeOf,             \* "small", "medium" or "large"
          PageSize, ObjectSizeLimit,   \* of small and medium pages
          NPartitions,        \* of the semi-sort; 2^11 in the code
          FragmentationLimit, \* ZYoungCompactionLimit, in percent
          LiveBytes,          \* what marking may find in a page
          Ages,               \* 0 .. MaxTenuringThreshold
          PageAges,           \* the ages the pages may have
          RecycleLimit,       \* ZRecycleMaximumLive, in percent of a page
          Bulk,               \* empty pages freed at once; 64 in the code
          Workers

Groups == {"small", "medium", "large"}
MaxAge == Max(Ages)
Old == MaxAge + 1     \* ZPageAge::old
Null == 0

VARIABLES
  phase,
  age, live,        \* of each page
  cursor,           \* the next page the iterator visits
  _live_pages, _not_selected_pages, _forwarding_entries,   \* of each group
  _empty_pages,
  freed,            \* pages that went back to the page allocator
  _tenuring_threshold,
  nextIndex,        \* of each parallel iterator
  local,            \* each worker's page, and the pages it will register
  _top, _end,       \* of the forwarding allocator
  _forwardings,
  _forwarding_table,
  toAge,            \* where each page's objects go
  _flip_promoted_pages, _in_place_relocate_promoted_pages, _recyclable_pages,
  destroyed         \* page objects deleted by the reset

pageVars == <<age, live, freed>>
selectorVars == <<_live_pages, _not_selected_pages, _forwarding_entries, _empty_pages>>
workVars == <<nextIndex, local>>
allocatorVars == <<_top, _end, _forwardings>>
registerVars == <<_flip_promoted_pages, _in_place_relocate_promoted_pages, _recyclable_pages>>
vars == <<phase, pageVars, cursor, selectorVars, _tenuring_threshold, workVars,
          allocatorVars, _forwarding_table, toAge, registerVars, destroyed>>

Idle == [page |-> Null, index |-> Null, promoted |-> <<>>, recyclable |-> <<>>, through |-> FALSE]

Init ==
  /\ phase = "mark"
  /\ age = [p \in Pages |-> 0]
  /\ live = [p \in Pages |-> 0]
  /\ cursor = 1
  /\ _live_pages = [g \in Groups |-> <<>>]
  /\ _not_selected_pages = [g \in Groups |-> <<>>]
  /\ _forwarding_entries = [g \in Groups |-> 0]
  /\ _empty_pages = <<>>
  /\ freed = {}
  /\ _tenuring_threshold = 0
  /\ nextIndex = [g \in Groups |-> 1]
  /\ local = [w \in Workers |-> Idle]
  /\ _top = 0 /\ _end = 0
  /\ _forwardings = <<>>
  /\ _forwarding_table = {}
  /\ toAge = [p \in Pages |-> Null]
  /\ _flip_promoted_pages = <<>>
  /\ _in_place_relocate_promoted_pages = <<>>
  /\ _recyclable_pages = [a \in Ages |-> <<>>]
  /\ destroyed = <<>>

-----------------------------------------------------------------------------
(* Registration.                                                           *)

\* Marking ends.
MarkEnd ==
  /\ phase = "mark"
  /\ age' \in PageAges
  /\ live' \in [Pages -> LiveBytes]
  /\ phase' = "register"
  /\ UNCHANGED <<freed, cursor, selectorVars, _tenuring_threshold, workVars, allocatorVars,
                 _forwarding_table, toAge, registerVars, destroyed>>

\* Objects are one unit: a page has as many as it has live bytes.
LiveObjects(p) == live[p]
NEntries(p) == CHOOSE n \in {2 ^ i : i \in 1 .. 10} : n >= 2 * LiveObjects(p) /\ n < 4 * LiveObjects(p)

IsLarge(g) == g = "large"
Size(p) == IF IsLarge(TypeOf[p]) THEN live[p] ELSE PageSize[TypeOf[p]]

\* Pages that are guaranteed not to be selected are filtered out.
RegisterLivePage(p) ==
  LET g == TypeOf[p]
      garbage == Size(p) - live[p]
  IN  /\ IF ~IsLarge(g) /\ garbage * 100 > PageSize[g] * FragmentationLimit
           THEN /\ _live_pages' = [_live_pages EXCEPT ![g] = Append(@, p)]
                /\ UNCHANGED _not_selected_pages
           ELSE /\ _not_selected_pages' = [_not_selected_pages EXCEPT ![g] = Append(@, p)]
                /\ UNCHANGED _live_pages
      /\ UNCHANGED <<_empty_pages, freed>>

\* Empty pages are freed when there are enough of them.
RegisterEmptyPage(p) ==
  /\ IF Len(_empty_pages) + 1 >= Bulk
       THEN freed' = freed \cup ToSet(_empty_pages) \cup {p} /\ _empty_pages' = <<>>
       ELSE _empty_pages' = Append(_empty_pages, p) /\ UNCHANGED freed
  /\ UNCHANGED <<_live_pages, _not_selected_pages>>

\* The loop of select_relocation_set over the page table.
RegisterPage ==
  /\ phase = "register"
  /\ cursor \in Pages
  /\ cursor' = cursor + 1
  /\ IF live[cursor] > 0 THEN RegisterLivePage(cursor) ELSE RegisterEmptyPage(cursor)
  /\ UNCHANGED <<phase, age, live, _forwarding_entries, _tenuring_threshold, workVars,
                 allocatorVars, _forwarding_table, toAge, registerVars, destroyed>>

\* free_empty_pages of the rest.
FreeRemaining ==
  /\ phase = "register"
  /\ cursor \notin Pages
  /\ freed' = freed \cup ToSet(_empty_pages)
  /\ _empty_pages' = <<>>
  /\ phase' = "select"
  /\ UNCHANGED <<age, live, cursor, _live_pages, _not_selected_pages, _forwarding_entries,
                 _tenuring_threshold, workVars, allocatorVars, _forwarding_table, toAge,
                 registerVars, destroyed>>

-----------------------------------------------------------------------------
(* Selection.                                                              *)

Partition(g, p) == live[p] \div (PageSize[g] \div NPartitions)

\* semi_sort: by partition, in the order of registration within one.
SemiSort(g, pages) ==
  FlattenSeq([i \in 1 .. NPartitions |->
                SelectSeq(pages, LAMBDA p : Partition(g, p) = i - 1)])

SumLive(pages) == FoldLeft(LAMBDA sum, p : sum + live[p], 0, pages)
SumEntries(pages) == FoldLeft(LAMBDA sum, p : sum + NEntries(p), 0, pages)

\* The most pages a candidate set's objects can need, in whatever order they
\* are relocated.
Needed(g, pages) ==
  LET room == PageSize[g] - ObjectSizeLimit[g]
  IN  (SumLive(pages) + room - 1) \div room

\* select_inner: the longest prefix that still reclaimed enough, compared
\* with the one chosen before it.
SelectedFrom(g, sorted) ==
  LET selected[n \in 0 .. Len(sorted)] ==
        IF n = 0 THEN [from |-> 0, to |-> 0]
        ELSE LET before == selected[n - 1]
                 to == Needed(g, SubSeq(sorted, 1, n))
             IN  IF (100 - FragmentationLimit) * (n - before.from) > 100 * (to - before.to)
                   THEN [from |-> n, to |-> to]
                   ELSE before
  IN  selected[Len(sorted)].from

\* The entries of the pages that are selected.
SelectedEntries(g, sorted) == SumEntries(SubSeq(sorted, 1, SelectedFrom(g, sorted)))

\* select of the three groups; what is left over is not selected.
Select ==
  /\ phase = "select"
  /\ LET sorted == [g \in Groups |-> IF IsLarge(g) THEN <<>> ELSE SemiSort(g, _live_pages[g])]
         from == [g \in Groups |-> IF IsLarge(g) THEN 0 ELSE SelectedFrom(g, sorted[g])]
     IN  /\ _live_pages' = [g \in Groups |-> SubSeq(sorted[g], 1, from[g])]
         /\ _not_selected_pages' =
              [g \in Groups |-> _not_selected_pages[g] \o
                                  SubSeq(sorted[g], from[g] + 1, Len(sorted[g]))]
         /\ _forwarding_entries' =
              [g \in Groups |-> IF IsLarge(g) THEN 0 ELSE SelectedEntries(g, sorted[g])]
  /\ phase' = "threshold"
  /\ UNCHANGED <<pageVars, cursor, _empty_pages, _tenuring_threshold, workVars, allocatorVars,
                 _forwarding_table, toAge, registerVars, destroyed>>

\* compute_tenuring_threshold rounds an estimate into these bounds.
Thresholds ==
  LET populated == {age[p] : p \in {q \in Pages : live[q] > 0}}
      upper == Min({Max(populated) + 1, MaxAge})
  IN  IF populated = {} THEN {0} ELSE Min({1, upper}) .. upper

NSelected == Len(_live_pages["medium"]) + Len(_live_pages["small"])

\* select_tenuring_threshold, zero if everything is promoted; then the task
\* resets the allocator to the size of the forwardings and their entries.
SelectTenuringThreshold ==
  /\ phase = "threshold"
  /\ _tenuring_threshold' \in Thresholds \cup {0}
  /\ _top' = 0
  /\ _end' = NSelected + _forwarding_entries["small"] + _forwarding_entries["medium"]
  /\ _forwardings' = [i \in 1 .. NSelected |-> Null]
  /\ phase' = "install"
  /\ UNCHANGED <<pageVars, cursor, selectorVars, workVars, _forwarding_table, toAge,
                 registerVars, destroyed>>

-----------------------------------------------------------------------------
(* Installation and aging, by the workers.                                 *)

\* ZRelocate::compute_to_age
ComputeToAge(a) == IF a >= _tenuring_threshold THEN Old ELSE a + 1

\* ZArrayParallelIterator: the next of a group's selected pages.
ClaimSelected(w, g) ==
  /\ phase = "install"
  /\ local[w].page = Null
  /\ g \in {"small", "medium"}
  /\ g = "medium" => nextIndex["small"] > Len(_live_pages["small"])
  /\ nextIndex[g] <= Len(_live_pages[g])
  /\ nextIndex' = [nextIndex EXCEPT ![g] = @ + 1]
  /\ LET p == _live_pages[g][nextIndex[g]]
         index == nextIndex[g] + IF g = "small" THEN Len(_live_pages["medium"]) ELSE 0
     IN  local' = [local EXCEPT ![w] = [Idle EXCEPT !.page = p, !.index = index]]
  /\ UNCHANGED <<phase, pageVars, cursor, selectorVars, _tenuring_threshold, allocatorVars,
                 _forwarding_table, toAge, registerVars, destroyed>>

\* ZForwarding::alloc moves the top of the allocator; install stores it.
Install(w) ==
  /\ phase = "install"
  /\ local[w].page # Null
  /\ LET p == local[w].page IN
     /\ _top' = _top + 1 + NEntries(p)
     /\ _forwardings' = [_forwardings EXCEPT ![local[w].index] = p]
     /\ toAge' = [toAge EXCEPT ![p] = ComputeToAge(age[p])]
  /\ local' = [local EXCEPT ![w] = Idle]
  /\ UNCHANGED <<phase, pageVars, cursor, selectorVars, _tenuring_threshold, nextIndex, _end,
                 _forwarding_table, registerVars, destroyed>>

AllIdle == \A w \in Workers : local[w] = Idle

\* The task ends when every page is installed; the next one ages pages.
InstallEnd ==
  /\ phase = "install"
  /\ AllIdle
  /\ \A g \in {"small", "medium"} : nextIndex[g] > Len(_live_pages[g])
  /\ phase' = "flip small"
  /\ nextIndex' = [g \in Groups |-> 1]
  /\ UNCHANGED <<pageVars, cursor, selectorVars, _tenuring_threshold, local, allocatorVars,
                 _forwarding_table, toAge, registerVars, destroyed>>

FlipPhase == [small |-> "flip small", medium |-> "flip medium", large |-> "flip large"]

\* Small pages that stay young and are not too full are recycled.
IsRecyclable(p, to_age) ==
  /\ TypeOf[p] = "small"
  /\ to_age # Old
  /\ live[p] * 100 < RecycleLimit * Size(p)

\* ZFlipAgePagesTask: the page gets its new age; a promoted one is replaced by
\* a clone, and the old page object is kept to be registered.
FlipAge(w, g) ==
  /\ phase = FlipPhase[g]
  /\ ~local[w].through
  /\ nextIndex[g] <= Len(_not_selected_pages[g])
  /\ nextIndex' = [nextIndex EXCEPT ![g] = @ + 1]
  /\ LET p == _not_selected_pages[g][nextIndex[g]]
         to_age == ComputeToAge(age[p])
     IN  /\ age' = [age EXCEPT ![p] = to_age]
         /\ toAge' = [toAge EXCEPT ![p] = to_age]
         /\ local' = [local EXCEPT
                        ![w].promoted = IF to_age = Old THEN Append(@, p) ELSE @,
                        ![w].recyclable = IF IsRecyclable(p, to_age) THEN Append(@, p) ELSE @]
  /\ UNCHANGED <<phase, live, cursor, selectorVars, freed, _tenuring_threshold, allocatorVars,
                 _forwarding_table, registerVars, destroyed>>

\* What a worker that finds no more pages registers, after the promoted ones.
RegisterPromoted(w, g, promoted) ==
  /\ phase = FlipPhase[g]
  /\ ~local[w].through
  /\ nextIndex[g] > Len(_not_selected_pages[g])
  /\ _flip_promoted_pages' = promoted
  /\ _recyclable_pages' =
       [a \in Ages |-> _recyclable_pages[a] \o
                         SelectSeq(local[w].recyclable, LAMBDA p : age[p] - 1 = a)]
  /\ local' = [local EXCEPT ![w] = [Idle EXCEPT !.through = TRUE]]
  /\ UNCHANGED <<phase, pageVars, cursor, selectorVars, _tenuring_threshold, nextIndex,
                 allocatorVars, _forwarding_table, toAge, _in_place_relocate_promoted_pages,
                 destroyed>>
\* A defect: the pages of the workers before are dropped.
RegisterReplaces(w, g) == RegisterPromoted(w, g, local[w].promoted)
\* A worker that finds no more pages registers, under the locks, what it has.
Register(w, g) == RegisterPromoted(w, g, _flip_promoted_pages \o local[w].promoted)

\* The task of a group ends; after the last one the forwardings are inserted
\* into the forwarding table.
FlipEnd(g) ==
  /\ phase = FlipPhase[g]
  /\ \A w \in Workers : local[w].through
  /\ local' = [w \in Workers |-> Idle]
  /\ phase' = CASE g = "small" -> "flip medium" [] g = "medium" -> "flip large"
                [] g = "large" -> "relocate"
  /\ _forwarding_table' = IF g = "large" THEN ToSet(_forwardings) ELSE _forwarding_table
  /\ UNCHANGED <<pageVars, cursor, selectorVars, _tenuring_threshold, nextIndex, allocatorVars,
                 toAge, registerVars, destroyed>>

-----------------------------------------------------------------------------
(* Relocation, and the reset before the next collection.                   *)

\* A page that was relocated out of is freed; one that was compacted in place
\* keeps its memory, and its page object is registered if it was promoted.
Relocate(p) ==
  /\ phase = "relocate"
  /\ p \in _forwarding_table
  /\ p \notin freed
  /\ age[p] # toAge[p]
  /\ \/ /\ freed' = freed \cup {p}
        /\ UNCHANGED <<age, _in_place_relocate_promoted_pages>>
     \/ /\ age' = [age EXCEPT ![p] = toAge[p]]
        /\ _in_place_relocate_promoted_pages' =
             IF toAge[p] = Old THEN Append(_in_place_relocate_promoted_pages, p)
                               ELSE _in_place_relocate_promoted_pages
        /\ UNCHANGED freed
  /\ UNCHANGED <<phase, live, cursor, selectorVars, _tenuring_threshold, workVars,
                 allocatorVars, _forwarding_table, toAge, _flip_promoted_pages,
                 _recyclable_pages, destroyed>>

\* reset_relocation_set
Reset ==
  /\ phase = "relocate"
  /\ \A p \in _forwarding_table : p \in freed \/ age[p] = toAge[p]
  /\ phase' = "reset"
  /\ _forwarding_table' = _forwarding_table \ ToSet(_forwardings)
  /\ _forwardings' = <<>>
  /\ _recyclable_pages' = [a \in Ages |-> <<>>]
  /\ destroyed' = _in_place_relocate_promoted_pages \o _flip_promoted_pages
  /\ _in_place_relocate_promoted_pages' = <<>>
  /\ _flip_promoted_pages' = <<>>
  /\ UNCHANGED <<pageVars, cursor, selectorVars, _tenuring_threshold, workVars, _top, _end, toAge>>

Next ==
  \/ MarkEnd \/ RegisterPage \/ FreeRemaining \/ Select \/ SelectTenuringThreshold \/ InstallEnd \/ Reset
  \/ \E g \in Groups : FlipEnd(g)
  \/ \E w \in Workers, g \in Groups : ClaimSelected(w, g) \/ FlipAge(w, g) \/ Register(w, g)
  \/ \E w \in Workers : Install(w)
  \/ \E p \in Pages : Relocate(p)

-----------------------------------------------------------------------------
Marked == {p \in Pages : live[p] > 0}

\* The memory reserved for the forwardings, from counts summed up while pages
\* were only candidates, is what installing them takes: the allocator never
\* fails (zForwardingAllocator.inline.hpp:44) and is full at the end
\* (zRelocationSet.cpp:106), with a forwarding at every index, medium pages
\* first.
ForwardingsFit ==
  /\ phase = "install" => _top <= _end
  /\ phase \in {"relocate", "flip small"} =>
       /\ _top = _end
       /\ _forwardings = _live_pages["medium"] \o _live_pages["small"]

\* A set is only chosen if its objects need fewer pages than it has, whatever
\* the order they are relocated in, and the semi-sort stays in its partitions.
SelectionReclaims ==
  /\ phase = "select" =>
       \A g \in {"small", "medium"}, p \in Pages :
         Contains(_live_pages[g], p) => Partition(g, p) < NPartitions
  /\ phase = "threshold" =>
       \A g \in {"small", "medium"} : _live_pages[g] # <<>> =>
         Needed(g, _live_pages[g]) < Len(_live_pages[g])

\* Every page that marking found is relocated or aged, not both; the empty
\* ones are freed, and the next collection finds only pages that are older.
\* Each page object that a clone replaced is destroyed once, and the pages
\* kept for recycling are listed under the age they came from.
EveryPageMovesOn ==
  /\ phase = "relocate" =>
       /\ \A p \in Marked :
            (p \in _forwarding_table) # (\E g \in Groups : Contains(_not_selected_pages[g], p))
       /\ Pages \ Marked \subseteq freed
       /\ \A p \in Marked : toAge[p] > 0
       /\ \A a \in Ages, p \in Pages : Contains(_recyclable_pages[a], p) =>
            age[p] = a + 1
  /\ phase = "reset" =>
       /\ \A p \in Marked : p \in freed \/ age[p] = toAge[p]
       /\ IsInjective(destroyed)
       /\ ToSet(destroyed) = {p \in Marked \ freed : age[p] = Old}
=============================================================================

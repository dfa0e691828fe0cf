--------------------------- MODULE ZRelocateTargets ---------------------------
(***************************************************************************)
(* Where the GC workers of a young collection put the objects of small     *)
(* pages: ZRelocateWork::relocate_object and ZRelocateSmallAllocator.  A   *)
(* worker copies into the free list of a recycled page (its recycle        *)
(* target) or to the top of a page of its own (its target); when neither   *)
(* has room it takes the next recyclable page, allocates a page, or        *)
(* relocates the page onto itself.  Target pages are allocated into        *)
(* without synchronization, and are retired, and freed if empty, when the  *)
(* worker moves on.                                                        *)
(*                                                                         *)
(* Sizes are in units of which a page has PageSize.  What fits a free list *)
(* depends on how fragmented it is: an allocation that would fit the space *)
(* left may fail.                                                          *)
(***************************************************************************)
EXTENDS Integers, Sequences, FiniteSets

CONSTANTS
  Workers,
  Pages,       \* all small pages
  FromPages,   \* the relocation set, all of it unclaimed at the beginning
  Layout,      \* the sizes of the live objects of each from-page
  ToAge,       \* age of the objects of each from-page afterwards
  Recyclable,  \* _recyclable_pages: flip-aged pages with free lists
  FreeSpace,   \* space in each of those free lists
  PageSize,
  MaxRelocationInFreeLists,
  NoPage

Ages == {"survivor", "old"}

\* Objects lie one after the other: where each of a page's objects ends.
IsEnds(layout, end) ==
  /\ end \in [0..Len(layout) -> 0..PageSize]
  /\ end[0] = 0
  /\ \A i \in 1..Len(layout) : end[i] = end[i - 1] + layout[i]

\* A page is flip-aged, and becomes recyclable, once.
ASSUME TargetsAssumption ==
  /\ Workers # {}
  /\ PageSize \in Nat \ {0}
  /\ MaxRelocationInFreeLists \in 1..PageSize
  /\ FromPages \subseteq Pages
  /\ Layout \in [FromPages -> Seq(1..PageSize)]
  /\ \A p \in FromPages : \E end \in [0..Len(Layout[p]) -> 0..PageSize] : IsEnds(Layout[p], end)
  /\ ToAge \in [FromPages -> Ages]
  /\ Recyclable \in Seq(Pages \ FromPages)
  /\ \A i, j \in DOMAIN Recyclable : Recyclable[i] = Recyclable[j] => i = j
  /\ FreeSpace \in [Pages -> 0..PageSize]
  /\ NoPage \notin Pages

RecyclablePages == {Recyclable[i] : i \in DOMAIN Recyclable}

VARIABLES
  forwarded,  \* relocated objects, as pairs of a from-page and an index
  unclaimed,  \* from-pages no worker has claimed
  inPlace,    \* from-pages whose in-place relocation has started
  work,       \* the from-page each worker is relocating
  cursor,     \* the object of it each worker has got to
  pc,         \* where each worker is
  target,     \* _target of each worker, per age
  recycle,    \* _recycle_target of each worker, for survivors
  used,       \* used() of each page that is allocated to from its top
  space,      \* space left in each free list
  rPageIndex, \* _r_page_index of survivors
  free,       \* pages in the page cache
  retired     \* history: how often a page was retired since it was allocated

pageVars == <<used, space, rPageIndex, free, retired>>
workVars == <<unclaimed, inPlace, work, cursor>>
vars == <<forwarded, workVars, pc, target, recycle, pageVars>>

Init ==
  /\ forwarded = {}
  /\ unclaimed = FromPages
  /\ inPlace = {}
  /\ work = [w \in Workers |-> NoPage]
  /\ cursor = [w \in Workers |-> 0]
  /\ pc = [w \in Workers |-> "claim"]
  /\ target = [w \in Workers |-> [a \in Ages |-> NoPage]]
  /\ recycle = [w \in Workers |-> NoPage]
  /\ used = [p \in Pages |-> IF p \in FromPages \cup RecyclablePages THEN PageSize ELSE 0]
  /\ space = FreeSpace
  /\ rPageIndex = 0
  /\ free = Pages \ (FromPages \cup RecyclablePages)
  /\ retired = [p \in Pages |-> 0]

Goto(w, label) == pc' = [pc EXCEPT ![w] = label]
To(w) == ToAge[work[w]]
Target(w) == target[w][To(w)]
SetTarget(w, p) == target' = [target EXCEPT ![w][To(w)] = p]
Object(w) == <<work[w], cursor[w]>>
Size(w) == Layout[work[w]][cursor[w]]
FitsFreeLists(w) == Size(w) <= MaxRelocationInFreeLists
-----------------------------------------------------------------------------
(* claim_and_do_forwarding, and object_iterate.                            *)

Claim(w) ==
  /\ pc[w] = "claim"
  /\ \E p \in unclaimed :
       /\ unclaimed' = unclaimed \ {p}
       /\ work' = [work EXCEPT ![w] = p]
  /\ cursor' = [cursor EXCEPT ![w] = 1]
  /\ Goto(w, "try")
  /\ UNCHANGED <<forwarded, inPlace, target, recycle, pageVars>>

\* Already relocated, by a mutator.
Found(w) ==
  /\ pc[w] = "try" /\ cursor[w] \in DOMAIN Layout[work[w]]
  /\ Object(w) \in forwarded
  /\ cursor' = [cursor EXCEPT ![w] = @ + 1]
  /\ UNCHANGED <<forwarded, unclaimed, inPlace, work, pc, target, recycle, pageVars>>

Trying(w) ==
  /\ pc[w] = "try" /\ cursor[w] \in DOMAIN Layout[work[w]]
  /\ Object(w) \notin forwarded

\* _recycle_target is only ever set for survivors.
UsesFreeList(w) == To(w) # "old" /\ recycle[w] # NoPage /\ FitsFreeLists(w)

AllocInFreeList(w) ==
  /\ Trying(w) /\ UsesFreeList(w)
  /\ Size(w) <= space[recycle[w]]
  /\ space' = [space EXCEPT ![recycle[w]] = @ - Size(w)]
  /\ Goto(w, "insert")
  /\ UNCHANGED <<forwarded, workVars, target, recycle, used, rPageIndex, free, retired>>

FitsTarget(w) == IF Target(w) = NoPage THEN FALSE ELSE used[Target(w)] + Size(w) <= PageSize

AllocInTarget(w) ==
  /\ Trying(w) /\ ~UsesFreeList(w)
  /\ FitsTarget(w)
  /\ used' = [used EXCEPT ![Target(w)] = @ + Size(w)]
  /\ Goto(w, "insert")
  /\ UNCHANGED <<forwarded, workVars, target, recycle, space, rPageIndex, free, retired>>

\* A free list may fail any allocation; the top of a page only one too large.
AllocFails(w) ==
  /\ Trying(w)
  /\ UsesFreeList(w) \/ ~FitsTarget(w)
  /\ Goto(w, IF To(w) # "old" /\ FitsFreeLists(w) THEN "revive" ELSE "alloc")
  /\ UNCHANGED <<forwarded, workVars, target, recycle, pageVars>>

\* The forwarding is inserted, or a mutator's is found; undoing the allocation
\* is disabled, so that the space stays used either way.
Insert(w) ==
  /\ pc[w] = "insert"
  /\ forwarded' = forwarded \cup {Object(w)}
  /\ cursor' = [cursor EXCEPT ![w] = @ + 1]
  /\ Goto(w, "try")
  /\ UNCHANGED <<unclaimed, inPlace, work, target, recycle, pageVars>>
-----------------------------------------------------------------------------
(* retire_target_page: the page is accounted for, and freed if it is empty *)
(* because every object it was allocated for had been relocated already.   *)

Freed(ps) == {p \in ps : used[p] = 0}
CountRetired(ps) == retired' = [p \in Pages |-> IF p \in ps THEN retired[p] + 1 ELSE retired[p]]

\* The argument of retire_target_page when the target may be nullptr.
OldTarget(w) == {Target(w)} \ {NoPage}

\* get_next_recyclable_page
NextRecyclable ==
  IF rPageIndex + 1 \in DOMAIN Recyclable THEN Recyclable[rPageIndex + 1] ELSE NoPage

\* Mutant: the index is read and not advanced.
ReviveSamePage(w) ==
  /\ pc[w] = "revive"
  /\ NextRecyclable # NoPage
  /\ recycle' = [recycle EXCEPT ![w] = NextRecyclable]
  /\ free' = free \cup Freed(OldTarget(w))
  /\ CountRetired(OldTarget(w))
  /\ Goto(w, "try")
  /\ UNCHANGED <<forwarded, workVars, target, used, space, rPageIndex>>

\* revive_and_retire_target_page: _target is retired, and not cleared.
Revive(w) ==
  /\ pc[w] = "revive"
  /\ NextRecyclable # NoPage
  /\ rPageIndex' = rPageIndex + 1
  /\ recycle' = [recycle EXCEPT ![w] = NextRecyclable]
  /\ free' = free \cup Freed(OldTarget(w))
  /\ CountRetired(OldTarget(w))
  /\ Goto(w, "try")
  /\ UNCHANGED <<forwarded, workVars, target, used, space>>

\* Mutant: the allocation is retried without another target.
ReviveFailsRetries(w) ==
  /\ pc[w] = "revive"
  /\ NextRecyclable = NoPage
  /\ recycle' = [recycle EXCEPT ![w] = NoPage]
  /\ Goto(w, "try")
  /\ UNCHANGED <<forwarded, workVars, target, pageVars>>

\* No recyclable page is left.  (The index keeps counting, unread.)
ReviveFails(w) ==
  /\ pc[w] = "revive"
  /\ NextRecyclable = NoPage
  /\ recycle' = [recycle EXCEPT ![w] = NoPage]
  /\ Goto(w, "alloc")
  /\ UNCHANGED <<forwarded, workVars, target, pageVars>>

\* alloc_and_retire_target_page; free pages are shared with the mutators, so
\* that an allocation can fail at any time.
Alloc(w) ==
  /\ pc[w] = "alloc"
  /\ \E p \in free :
       /\ SetTarget(w, p)
       /\ free' = (free \ {p}) \cup Freed(OldTarget(w))
       /\ used' = [used EXCEPT ![p] = 0]
       /\ retired' = [q \in Pages |-> IF q = p THEN 0
                                      ELSE IF q \in OldTarget(w) THEN retired[q] + 1
                                      ELSE retired[q]]
  /\ Goto(w, "try")
  /\ UNCHANGED <<forwarded, workVars, recycle, space, rPageIndex>>

AllocPageFails(w) ==
  /\ pc[w] = "alloc"
  /\ SetTarget(w, NoPage)
  /\ free' = free \cup Freed(OldTarget(w))
  /\ CountRetired(OldTarget(w))
  /\ Goto(w, "start_in_place")
  /\ UNCHANGED <<forwarded, workVars, recycle, used, space, rPageIndex>>

\* start_in_place_relocation: the page, or its clone when it is promoted, is
\* reset and becomes the target.
StartInPlace(w) ==
  /\ pc[w] = "start_in_place"
  /\ inPlace' = inPlace \cup {work[w]}
  /\ used' = [used EXCEPT ![work[w]] = 0]
  /\ SetTarget(w, work[w])
  /\ Goto(w, "try")
  /\ UNCHANGED <<forwarded, unclaimed, work, cursor, recycle, space, rPageIndex, free, retired>>
-----------------------------------------------------------------------------
\* The rest of do_forwarding: free the page unless it was relocated in place.
FinishPage(w) ==
  /\ pc[w] = "try" /\ cursor[w] \notin DOMAIN Layout[work[w]]
  /\ IF work[w] \in inPlace
     THEN UNCHANGED <<free, used>>
     ELSE free' = free \cup {work[w]} /\ used' = [used EXCEPT ![work[w]] = 0]
  /\ work' = [work EXCEPT ![w] = NoPage]
  /\ cursor' = [cursor EXCEPT ![w] = 0]
  /\ Goto(w, "claim")
  /\ UNCHANGED <<forwarded, unclaimed, inPlace, target, recycle, space, rPageIndex, retired>>

\* ~ZRelocateWork: free_target_page of every age.
Destroy(w) ==
  /\ pc[w] = "claim" /\ unclaimed = {}
  /\ LET mine == {target[w][a] : a \in Ages} \ {NoPage}
     IN  /\ free' = free \cup Freed(mine)
         /\ CountRetired(mine)
  /\ target' = [target EXCEPT ![w] = [a \in Ages |-> NoPage]]
  /\ recycle' = [recycle EXCEPT ![w] = NoPage]
  /\ Goto(w, "end")
  /\ UNCHANGED <<forwarded, workVars, used, space, rPageIndex>>

Worker(w) ==
  \/ Claim(w) \/ Found(w)
  \/ AllocInFreeList(w) \/ AllocInTarget(w) \/ AllocFails(w) \/ Insert(w)
  \/ Revive(w) \/ ReviveFails(w) \/ Alloc(w) \/ AllocPageFails(w) \/ StartInPlace(w)
  \/ FinishPage(w) \/ Destroy(w)

\* A mutator relocates an object of a page it can retain (ZForwarding), to a
\* page of its own.
MutatorRelocates ==
  \E p \in FromPages :
    /\ p \in unclaimed \/ \E w \in Workers : work[w] = p
    /\ p \notin inPlace
    /\ \E i \in DOMAIN Layout[p] : forwarded' = forwarded \cup {<<p, i>>}
    /\ UNCHANGED <<workVars, pc, target, recycle, pageVars>>

AllEnded == \A w \in Workers : pc[w] = "end"

Next ==
  \/ \E w \in Workers : Worker(w)
  \/ MutatorRelocates
  \/ AllEnded /\ UNCHANGED vars

\* The GC workers run; mutators need not.
Spec == Init /\ [][Next]_vars /\ \A w \in Workers : WF_vars(Worker(w))
-----------------------------------------------------------------------------
TypeOK ==
  /\ forwarded \subseteq UNION {{p} \X DOMAIN Layout[p] : p \in FromPages}
  /\ unclaimed \subseteq FromPages /\ inPlace \subseteq FromPages
  /\ work \in [Workers -> FromPages \cup {NoPage}]
  /\ cursor \in [Workers -> Nat]
  /\ pc \in [Workers -> {"claim", "try", "insert", "revive", "alloc", "start_in_place", "end"}]
  /\ target \in [Workers -> [Ages -> Pages \cup {NoPage}]]
  /\ recycle \in [Workers -> RecyclablePages \cup {NoPage}]
  /\ used \in [Pages -> 0..PageSize] /\ space \in [Pages -> 0..PageSize]
  /\ rPageIndex \in 0..Len(Recyclable)
  /\ free \subseteq Pages
  /\ retired \in [Pages -> Nat]

\* The pages worker w allocates into, each with the place it holds it in.
Held(w) == {<<a, target[w][a]>> : a \in Ages} \cup {<<"recycle", recycle[w]>>}

\* Only one worker allocates into a page, as one of its targets, since it does
\* so without synchronization, and no freed page is allocated into; every page
\* is retired once, and when the relocation is over no page is left behind
\* empty: from-pages are freed or are targets, and empty targets freed.
TargetsAreSafe ==
  /\ \A v, w \in Workers : \A h \in Held(v), g \in Held(w) :
       h[2] = g[2] /\ h[2] # NoPage => v = w /\ h = g /\ h[2] \notin free
  /\ \A p \in Pages : retired[p] <= 1
  /\ AllEnded => \A p \in Pages \ RecyclablePages :
       IF p \in free THEN used[p] = 0 ELSE used[p] > 0 /\ retired[p] = 1

\* Relocation is never stuck for want of pages: in the worst case every page is
\* relocated in place.
RelocationEnds == <>AllEnded
=============================================================================

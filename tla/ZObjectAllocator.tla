-------------------------- MODULE ZObjectAllocator --------------------------
(***************************************************************************)
(* Allocation of objects in shared pages (zObjectAllocator.cpp, and the    *)
(* two allocation functions of zPage.inline.hpp).  Threads bump the top of *)
(* the page in a shared slot; one that finds it full allocates a page,     *)
(* puts its object there and tries to install it, and when another thread  *)
(* has installed a page meanwhile allocates in that one and gives its own  *)
(* back.  A safepoint empties the slots.                                   *)
(*                                                                         *)
(* Sizes are in words; a page's words are counted from its start.          *)
(***************************************************************************)
EXTENDS Integers, FiniteSets, FiniteSetsExt

CONSTANTS Threads,
          Cpus,            \* slots of the shared small pages
          SmallPage, SmallObjects,    \* ZPageSizeSmall, sizes up to the limit
          MediumPage, MediumObjects,
          LargeObjects,
          MaxPages,        \* bound on pages allocated
          MaxRetired       \* bound on safepoints

Null == 0
Medium == "medium"
Large == "large"
Slots == Cpus \cup {Medium}
Pages == 1 .. MaxPages

\* An object fits into the page of its class.
AllocatorAssumption ==
  /\ SmallPage \in Nat /\ SmallObjects \subseteq 1 .. SmallPage
  /\ MediumPage \in Nat /\ MediumObjects \subseteq 1 .. MediumPage
  /\ LargeObjects \subseteq Nat \ {0}
  /\ Cpus \cap {Medium, Large} = {}
  /\ MaxPages \in Nat

VARIABLES
  shared,      \* _shared_small_page of each CPU and _shared_medium_page
  _used, _undone,
  size,        \* of each page; 0: not allocated yet
  _top,        \* of each page, in words from its start
  undone,      \* pages given back
  retired,     \* pages allocated before the last safepoint, and their count
  objects,     \* objects handed out
  pc,
  call         \* the locals of each thread

callVars == <<pc, call>>
pageVars == <<size, _top, undone>>
vars == <<shared, _used, _undone, pageVars, retired, objects, callVars>>

\* slot, words and the page loaded; the page allocated, the top loaded and
\* the page that is bumped.
NoCall == [slot |-> Large, words |-> 0, page |-> Null, new |-> Null, top |-> 0, in |-> Null]

Init ==
  /\ shared = [s \in Slots |-> Null]
  /\ _used = 0 /\ _undone = 0
  /\ size = [p \in Pages |-> 0]
  /\ _top = [p \in Pages |-> 0]
  /\ undone = {}
  /\ retired = [pages |-> {}, count |-> 0]
  /\ objects = {}
  /\ pc = [t \in Threads |-> "idle"]
  /\ call = [t \in Threads |-> NoCall]

Object(p, start, words) == [page |-> p, start |-> start, words |-> words]

\* The call returns.
Return(t) ==
  /\ pc' = [pc EXCEPT ![t] = "idle"]
  /\ call' = [call EXCEPT ![t] = NoCall]
Goto(t, label) == pc' = [pc EXCEPT ![t] = label]

\* The slots an object of this size may go to; the CPU is the thread's when
\* it looks, and it may have moved the next time.
SlotsFor(words) ==
  IF words \in SmallObjects THEN Cpus
  ELSE IF words \in MediumObjects THEN {Medium}
  ELSE {Large}
PageSize(slot, words) ==
  IF slot = Medium THEN MediumPage ELSE IF slot = Large THEN words ELSE SmallPage

\* alloc_object: by size; a shared page that is there is tried first.
AllocObject(t) ==
  /\ pc[t] = "idle"
  /\ \E words \in SmallObjects \cup MediumObjects \cup LargeObjects :
       \E slot \in SlotsFor(words) :
         LET page == IF slot = Large THEN Null ELSE shared[slot] IN
         /\ call' = [call EXCEPT ![t] = [NoCall EXCEPT !.slot = slot, !.words = words,
                                                       !.page = page, !.in = page]]
         /\ Goto(t, IF page # Null THEN "top" ELSE "alloc_page")
  /\ UNCHANGED <<shared, _used, _undone, pageVars, retired, objects>>

\* alloc_object_atomic: load top, return null when the object does not fit,
LoadTop(t) ==
  /\ pc[t] = "top"
  /\ LET c == call[t] IN
     IF _top[c.in] + c.words > size[c.in]
       THEN IF c.new = Null
              THEN Goto(t, "alloc_page") /\ UNCHANGED call
              ELSE /\ Goto(t, "install")
                   /\ call' = [call EXCEPT ![t].page = c.in]
       ELSE /\ call' = [call EXCEPT ![t].top = _top[c.in]]
            /\ Goto(t, "bump")
  /\ UNCHANGED <<shared, _used, _undone, pageVars, retired, objects>>

\* and swap it.
Bump(t) ==
  /\ pc[t] = "bump"
  /\ LET c == call[t] IN
     IF _top[c.in] = c.top
       THEN /\ _top' = [_top EXCEPT ![c.in] = c.top + c.words]
            /\ objects' = objects \cup {Object(c.in, c.top, c.words)}
            /\ IF c.new = Null
                 THEN Return(t)
                 ELSE Goto(t, "undo") /\ UNCHANGED call
       ELSE /\ Goto(t, "top")
            /\ UNCHANGED <<_top, objects, call>>
  /\ UNCHANGED <<shared, _used, _undone, size, undone, retired>>

\* alloc_page returns nothing.
AllocPageFails(t) ==
  /\ pc[t] = "alloc_page"
  /\ Return(t)
  /\ UNCHANGED <<shared, _used, _undone, pageVars, retired, objects>>

\* alloc_page returns a page, and the object is allocated in it before it is
\* installed; a large page is not shared.
AllocPage(t) ==
  /\ pc[t] = "alloc_page"
  /\ \E p \in Pages :
       LET c == call[t]
           bytes == PageSize(c.slot, c.words)
       IN
       /\ size[p] = 0 /\ \A q \in Pages : size[q] = 0 => q >= p
       /\ size' = [size EXCEPT ![p] = bytes]
       /\ _top' = [_top EXCEPT ![p] = c.words]
       /\ _used' = _used + bytes
       /\ IF c.slot = Large
            THEN /\ objects' = objects \cup {Object(p, 0, c.words)}
                 /\ Return(t)
            ELSE /\ call' = [call EXCEPT ![t].new = p]
                 /\ Goto(t, "install")
                 /\ UNCHANGED objects
  /\ UNCHANGED <<shared, _undone, undone, retired>>

\* The retry loop that installs the new page.  A slot a safepoint emptied is
\* tried again; a page in it is allocated in first.
Install(t) ==
  /\ pc[t] = "install"
  /\ LET c == call[t]
         prev_page == shared[c.slot]
     IN  IF prev_page = c.page
           THEN /\ shared' = [shared EXCEPT ![c.slot] = c.new]
                /\ objects' = objects \cup {Object(c.new, 0, c.words)}
                /\ Return(t)
           ELSE /\ IF prev_page = Null
                     THEN call' = [call EXCEPT ![t].page = Null] /\ UNCHANGED pc
                     ELSE call' = [call EXCEPT ![t].in = prev_page] /\ Goto(t, "top")
                /\ UNCHANGED <<shared, objects>>
  /\ UNCHANGED <<_used, _undone, pageVars, retired>>

\* A defect: the address in the page that is given back is returned.
UndoReturnsOwn(t) ==
  /\ pc[t] = "undo"
  /\ undone' = undone \cup {call[t].new}
  /\ _undone' = _undone + size[call[t].new]
  /\ objects' = objects \cup {Object(call[t].new, 0, call[t].words)}
  /\ Return(t)
  /\ UNCHANGED <<shared, _used, size, _top, retired>>
\* undo_alloc_page
UndoAllocPage(t) ==
  /\ pc[t] = "undo"
  /\ undone' = undone \cup {call[t].new}
  /\ _undone' = _undone + size[call[t].new]
  /\ Return(t)
  /\ UNCHANGED <<shared, _used, size, _top, retired, objects>>

\* retire_pages, at a safepoint: threads are between calls or stalled inside
\* alloc_page.
RetirePages ==
  /\ \A t \in Threads : pc[t] \in {"idle", "alloc_page"}
  /\ retired.count < MaxRetired
  /\ retired' = [pages |-> {p \in Pages : size[p] > 0}, count |-> retired.count + 1]
  /\ _used' = 0 /\ _undone' = 0
  /\ shared' = [s \in Slots |-> Null]
  /\ UNCHANGED <<pageVars, objects, callVars>>

Next ==
  \/ \E t \in Threads :
       AllocObject(t) \/ LoadTop(t) \/ Bump(t) \/ AllocPageFails(t) \/ AllocPage(t)
         \/ Install(t) \/ UndoAllocPage(t)
  \/ RetirePages

Spec == Init /\ [][Next]_vars

-----------------------------------------------------------------------------
Allocated == {p \in Pages : size[p] > 0}
Words(o) == {[page |-> o.page, word |-> w] : w \in o.start .. o.start + o.words - 1}

\* No two threads get the same memory, all of it lies in pages that were not
\* given back, and no thread finds a page that was given back in a slot.
ObjectsAreSafe ==
  /\ \A o, p \in objects : o # p => Words(o) \cap Words(p) = {}
  /\ \A o \in objects : o.page \notin undone /\ o.start + o.words <= size[o.page]
  /\ \A s \in Slots : shared[s] \notin undone

\* No thread is between getting a page and returning.
NoneInstalls == \A t \in Threads : pc[t] \in {"idle", "alloc_page"}

\* A page that lost the race to be installed is not leaked: every page that
\* was not given back has an object.
PagesAreKept ==
  NoneInstalls => \A p \in Allocated \ undone : \E o \in objects : o.page = p

\* It is not counted either: what is counted as used is the pages that were
\* kept since the last safepoint (the subtraction in used would wrap around
\* if the page were counted only as undone).
PagesAreCounted ==
  NoneInstalls =>
    _used - _undone = MapThenSumSet(LAMBDA p : size[p], (Allocated \ undone) \ retired.pages)
=============================================================================

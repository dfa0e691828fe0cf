-------------------------- MODULE ZRelocatedRemset --------------------------
(***************************************************************************)
(* Old-to-old relocation of one page concurrently with young collections   *)
(* that scan the remembered set.  An old collection (OC) worker moves the  *)
(* objects of the page, and with them the remembered set bits of their     *)
(* fields; a young collection (YC) wants to visit every remembered field   *)
(* without waiting for it.  They negotiate through                         *)
(* _relocated_remembered_fields_state of the page's ZForwarding.           *)
(*                                                                         *)
(* Every object has one reference field, remembered or not, and takes one  *)
(* position, so that an object is named by its position in the from-page.  *)
(* A place is a page and a position on it.  The page is relocated to the   *)
(* page "to", or in place; once freed, its address range may be taken by   *)
(* a new old page, whose one remembered field is called 0.                 *)
(*                                                                         *)
(* The page is retained as ForwardingLease says.  Phases change in         *)
(* safepoints, when no worker is relocating (SafepointQuiescent of         *)
(* ZRelocateQueue).                                                        *)
(***************************************************************************)
EXTENDS Integers, FiniteSets

CONSTANTS Objects,         \* live objects of the page, by position
          Remset,          \* those whose field is remembered
          MaxYoungCycles   \* bound on the young collections

RemsetAssumption ==
  /\ Objects \subseteq Nat \ {0} /\ IsFiniteSet(Objects) /\ Objects # {}
  /\ Remset \subseteq Objects
  /\ MaxYoungCycles \in Nat

From == "from"
To   == "to"
Unforwarded == <<"nowhere", 0>>

VARIABLES
  seqnum,       \* young collections since the old relocation started
  marking,      \* ZGeneration::young()->is_phase_mark()
  current,      \* places whose bit is set in a current remset bitmap
  previous,     \* places whose bit is set in a previous remset bitmap
  foundOld,     \* FoundOld's current bitmap: pages registered as old
  foundOldPrev, \* FoundOld's previous bitmap
  slot,         \* page table entry of the from-page's address: "from" (also
                \* when relocated in place), "free" or "new"
  forwardedTo,  \* the forwarding table: the place of each relocated object
  state,        \* _relocated_remembered_fields_state
  fields,       \* _relocated_remembered_fields_array
  publishSeq,   \* _relocated_remembered_fields_publish_young_seqnum
  inPlace,      \* "no", "sealed" (claimed for in-place relocation) or "yes"
  oc,           \* where the OC worker is
  remaining,    \* objects the OC worker has not dealt with
  yc,           \* where the YC worker that visits the slot is
  ycPage,       \* it found a page in the slot
  ycHolds,      \* it retains the from-page
  containing,   \* objects with previous bits it collected from the from-page
  toScan,       \* the YC has yet to visit the page "to"
  unscanned     \* history: fields remembered at mark start and not visited since

youngVars == <<seqnum, marking>>
bitVars   == <<current, previous>>
foundVars == <<foundOld, foundOldPrev>>
pubVars   == <<state, fields, publishSeq>>
ocVars    == <<inPlace, oc, remaining>>
ycVars    == <<yc, ycPage, ycHolds, containing, toScan>>

vars == <<youngVars, bitVars, foundVars, slot, forwardedTo, pubVars, ocVars, ycVars, unscanned>>

\* VM_ZRelocateStartOld: the bits of the page are in its current bitmap.
Init ==
  /\ seqnum = 0
  /\ marking = FALSE
  /\ current = {From} \X Remset
  /\ previous = {}
  /\ foundOld = {From}
  /\ foundOldPrev = {}
  /\ slot = "from"
  /\ forwardedTo = [o \in Objects |-> Unforwarded]
  /\ state = "none"
  /\ fields = {}
  /\ publishSeq = 0
  /\ inPlace = "no"
  /\ oc = "start"
  /\ remaining = Objects
  /\ yc = "finished"
  /\ ycPage = FALSE
  /\ ycHolds = FALSE
  /\ containing = {}
  /\ toScan = FALSE
  /\ unscanned = {}

\* The place of a field; 0 is the field of the page that took the slot.
Place(f) ==
  IF f = 0 THEN <<From, 1>>
  ELSE IF forwardedTo[f] = Unforwarded THEN <<From, f>> ELSE forwardedTo[f]

Fields == Remset \cup (IF slot = "new" THEN {0} ELSE {})

On(page, places) == {p \in places : p[1] = page}

\* The bitmap that held the page's bits when the old relocation started is
\* the current one again after every second young collection.
ActiveRemsetIsCurrent == seqnum % 2 = 0

Released == oc \in {"detach", "done"}
CanRetain == inPlace = "no" /\ ~Released
Quiescent == oc \in {"start", "done"}
-----------------------------------------------------------------------------
(* Copying an object.                                                      *)

Copied(page) == {o \in Objects : forwardedTo[o][1] = page}

\* The object gets the next position on the page.  The page "to" is allocated
\* for the first object, and registered as old when it enters the page table.
CopyTo(o, page) ==
  /\ forwardedTo[o] = Unforwarded
  /\ forwardedTo' = [forwardedTo EXCEPT ![o] = <<page, 1 + Cardinality(Copied(page))>>]
  /\ foundOld' = IF page = To /\ Copied(To) = {} THEN foundOld \cup {To} ELSE foundOld

\* relocate_object by a mutator or by the YC worker; it leaves the remembered
\* set of the object to the OC worker.
Relocate(o) ==
  /\ CanRetain
  /\ CopyTo(o, To)
  /\ UNCHANGED <<youngVars, bitVars, foundOldPrev, slot, pubVars, ocVars, ycVars, unscanned>>
-----------------------------------------------------------------------------
(* The OC worker: ZRelocateWork::do_forwarding.                            *)

Begin ==
  /\ oc = "start"
  /\ oc' = "iterate"
  /\ UNCHANGED <<youngVars, bitVars, foundVars, slot, forwardedTo, pubVars, inPlace,
                 remaining, ycVars, unscanned>>

\* object_iterate goes through the page in address order.
IsNext(o) == oc = "iterate" /\ o \in remaining /\ \A r \in remaining : o <= r

CopyObject ==
  /\ \E o \in remaining : IsNext(o) /\ CopyTo(o, IF inPlace = "yes" THEN From ELSE To)
  /\ UNCHANGED <<youngVars, bitVars, foundOldPrev, slot, pubVars, ocVars, ycVars, unscanned>>

\* update_remset_old_to_old, once the object has its new place: the bits of the
\* from-object are registered for the YC or moved.
UpdateRemset ==
  /\ \E o \in remaining :
       /\ IsNext(o)
       /\ forwardedTo[o] # Unforwarded
       /\ remaining' = remaining \ {o}
       /\ LET bits == IF ActiveRemsetIsCurrent /\ inPlace = "no" THEN current ELSE previous
              moved == {forwardedTo[o] : b \in bits \cap {<<From, o>>}}
          IN  IF marking
              THEN /\ fields' = IF state = "none" THEN fields \cup moved ELSE fields
                   /\ UNCHANGED current
              ELSE /\ current' = current \cup moved
                   /\ UNCHANGED fields
  /\ UNCHANGED <<youngVars, previous, foundVars, slot, forwardedTo, state, publishSeq,
                 inPlace, oc, ycVars, unscanned>>

\* No page to copy to: in_place_relocation_claim_page.
ClaimInPlace ==
  /\ inPlace = "no"
  /\ \E o \in remaining : IsNext(o) /\ forwardedTo[o] = Unforwarded
  /\ inPlace' = "sealed"
  /\ oc' = "claim_wait"
  /\ UNCHANGED <<youngVars, bitVars, foundVars, slot, forwardedTo, pubVars, remaining,
                 ycVars, unscanned>>

\* Nobody retains the page: start_in_place_relocation_prepare_remset.
StartInPlace ==
  /\ oc = "claim_wait"
  /\ ~ycHolds
  /\ inPlace' = "yes"
  /\ oc' = "iterate"
  /\ IF ActiveRemsetIsCurrent
     THEN /\ previous' = previous \cup On(From, current)
          /\ current' = current \ On(From, current)
     ELSE UNCHANGED bitVars
  /\ UNCHANGED <<youngVars, foundVars, slot, forwardedTo, pubVars, remaining, ycVars, unscanned>>

\* relocated_remembered_fields_after_relocate
AfterRelocate ==
  /\ oc = "iterate" /\ remaining = {}
  /\ publishSeq' = seqnum
  /\ oc' = IF marking THEN "publish" ELSE "release"
  /\ UNCHANGED <<youngVars, bitVars, foundVars, slot, forwardedTo, state, fields, inPlace,
                 remaining, ycVars, unscanned>>

\* The array is published, or dropped when the YC came first.
Publish ==
  /\ oc = "publish"
  /\ IF state = "none"
     THEN state' = "published" /\ UNCHANGED fields
     ELSE fields' = {} /\ UNCHANGED state
  /\ oc' = "release"
  /\ UNCHANGED <<youngVars, bitVars, foundVars, slot, forwardedTo, publishSeq, inPlace,
                 remaining, ycVars, unscanned>>

Release ==
  /\ oc = "release"
  /\ oc' = "detach"
  /\ UNCHANGED <<youngVars, bitVars, foundVars, slot, forwardedTo, pubVars, inPlace,
                 remaining, ycVars, unscanned>>

\* Mutant: the bits an in-place relocation read are not cleared.
DetachUncleared ==
  /\ oc = "detach"
  /\ ~ycHolds
  /\ oc' = "done"
  /\ IF inPlace = "yes" THEN UNCHANGED bitVars
     ELSE IF ActiveRemsetIsCurrent
          THEN current' = current \ On(From, current) /\ UNCHANGED previous
          ELSE previous' = previous \ On(From, previous) /\ UNCHANGED current
  /\ slot' = IF inPlace = "yes" THEN "from" ELSE "free"
  /\ UNCHANGED <<youngVars, foundVars, forwardedTo, pubVars, inPlace, remaining, ycVars,
                 unscanned>>

\* detach_page, clear_remset_before_reuse, and free the page unless it has
\* been relocated in place.
Detach ==
  /\ oc = "detach"
  /\ ~ycHolds
  /\ oc' = "done"
  /\ IF inPlace = "yes" \/ ~ActiveRemsetIsCurrent
     THEN previous' = previous \ On(From, previous) /\ UNCHANGED current
     ELSE current' = current \ On(From, current) /\ UNCHANGED previous
  /\ slot' = IF inPlace = "yes" THEN "from" ELSE "free"
  /\ UNCHANGED <<youngVars, foundVars, forwardedTo, pubVars, inPlace, remaining, ycVars,
                 unscanned>>

\* Another old page is allocated at the address, and gets a remembered field.
Reuse ==
  /\ slot = "free"
  /\ slot' = "new"
  /\ current' = current \cup {Place(0)}
  /\ foundOld' = foundOld \cup {From}
  /\ UNCHANGED <<youngVars, previous, foundOldPrev, forwardedTo, pubVars, ocVars, ycVars,
                 unscanned>>

OC == Begin \/ CopyObject \/ UpdateRemset \/ ClaimInPlace \/ StartInPlace
        \/ AfterRelocate \/ Publish \/ Release \/ Detach
-----------------------------------------------------------------------------
(* The young collection.                                                   *)

\* scan_field of each field at the places, all of which point into young.
Scan(places) ==
  /\ current' = current \cup places
  /\ unscanned' = {f \in unscanned : Place(f) \notin places}

\* ZGenerationYoung::mark_start: the bitmaps and the found-old sets are flipped.
MarkStart ==
  /\ ~marking
  /\ Quiescent
  /\ seqnum < MaxYoungCycles
  /\ seqnum' = seqnum + 1
  /\ marking' = TRUE
  /\ current' = previous
  /\ previous' = current
  /\ foundOld' = foundOldPrev
  /\ foundOldPrev' = foundOld
  /\ yc' = IF From \in foundOld THEN "next" ELSE "finished"
  /\ toScan' = (To \in foundOld)
  /\ unscanned' = Fields
  /\ UNCHANGED <<slot, forwardedTo, pubVars, ocVars, ycPage, ycHolds, containing>>

\* ZRemsetTableIterator::next reads the slot's page and its forwarding.
FindEntry ==
  /\ yc = "next"
  /\ ycPage' = (slot # "free")
  /\ yc' = "scan_forwarding"
  /\ UNCHANGED <<youngVars, bitVars, foundVars, slot, forwardedTo, pubVars, ocVars, ycHolds,
                 containing, toScan, unscanned>>

\* scan_forwarding retains the page.  (While it is sealed, retain_page waits
\* until the relocation is done, and fails.)
RetainSucceeds ==
  /\ yc = "scan_forwarding"
  /\ CanRetain
  /\ ycHolds' = TRUE
  /\ yc' = "notify"
  /\ UNCHANGED <<youngVars, bitVars, foundVars, slot, forwardedTo, pubVars, ocVars, ycPage,
                 containing, toScan, unscanned>>

\* relocated_remembered_fields_notify_concurrent_scan_of
Notify ==
  /\ yc = "notify"
  /\ state' = IF state \in {"none", "published"} THEN "reject" ELSE state
  /\ fields' = IF state = "published" THEN {} ELSE fields
  /\ yc' = "fill"
  /\ UNCHANGED <<youngVars, bitVars, foundVars, slot, forwardedTo, publishSeq, ocVars, ycPage,
                 ycHolds, containing, toScan, unscanned>>

FillRetaining ==
  /\ yc = "fill"
  /\ containing' = {o \in Objects : <<From, o>> \in previous}
  /\ yc' = "containing"
  /\ UNCHANGED <<youngVars, bitVars, foundVars, slot, forwardedTo, pubVars, ocVars, ycPage,
                 ycHolds, toScan, unscanned>>

\* fill_containing, and release_page.
Fill ==
  /\ yc = "fill"
  /\ containing' = {o \in Objects : <<From, o>> \in previous}
  /\ ycHolds' = FALSE
  /\ yc' = "containing"
  /\ UNCHANGED <<youngVars, bitVars, foundVars, slot, forwardedTo, pubVars, ocVars, ycPage,
                 toScan, unscanned>>

\* oops_do_forwarded_via_containing: the object is relocated by this worker
\* or by somebody it waits for, and its field is scanned where it is now.
RelocateContaining ==
  yc = "containing" /\ \E o \in containing : Relocate(o)

ScanContaining ==
  /\ yc = "containing"
  /\ \E o \in containing :
       /\ forwardedTo[o] # Unforwarded
       /\ containing' = containing \ {o}
       /\ Scan({forwardedTo[o]})
  /\ UNCHANGED <<youngVars, previous, foundVars, slot, forwardedTo, pubVars, ocVars, yc, ycPage,
                 ycHolds, toScan>>

ContainingScanned ==
  /\ yc = "containing" /\ containing = {}
  /\ yc' = "page"
  /\ UNCHANGED <<youngVars, bitVars, foundVars, slot, forwardedTo, pubVars, ocVars, ycPage,
                 ycHolds, containing, toScan, unscanned>>

\* Mutant: the published fields are dropped unscanned.
ApplyNothing ==
  /\ yc = "scan_forwarding"
  /\ Released
  /\ fields' = {}
  /\ state' = IF publishSeq = seqnum THEN "reject" ELSE "accept"
  /\ yc' = "page"
  /\ UNCHANGED <<youngVars, bitVars, foundVars, slot, forwardedTo, publishSeq, ocVars, ycPage,
                 ycHolds, containing, toScan, unscanned>>

\* retain_page fails: relocated_remembered_fields_apply_to_published.
ApplyPublished ==
  /\ yc = "scan_forwarding"
  /\ Released
  /\ IF state = "published"
     THEN Scan(fields) /\ fields' = {}
     ELSE UNCHANGED <<current, unscanned, fields>>
  /\ state' = IF publishSeq = seqnum THEN "reject" ELSE "accept"
  /\ yc' = "page"
  /\ UNCHANGED <<youngVars, previous, foundVars, slot, forwardedTo, publishSeq, ocVars, ycPage,
                 ycHolds, containing, toScan>>

\* should_scan_page, scan_page, clear_remset_previous, register_found_old.
ShouldScanPage == ycPage /\ state # "reject"

VisitPage ==
  /\ yc = "page"
  /\ IF ShouldScanPage
     THEN Scan(On(From, previous)) /\ previous' = previous \ On(From, previous)
     ELSE UNCHANGED <<bitVars, unscanned>>
  /\ foundOld' = IF ycPage THEN foundOld \cup {From} ELSE foundOld
  /\ yc' = "finished"
  /\ UNCHANGED <<youngVars, foundOldPrev, slot, forwardedTo, pubVars, ocVars, ycPage, ycHolds,
                 containing, toScan>>

\* The slot of the page "to", which has no forwarding.
VisitTo ==
  /\ toScan
  /\ toScan' = FALSE
  /\ Scan(On(To, previous))
  /\ previous' = previous \ On(To, previous)
  /\ foundOld' = foundOld \cup {To}
  /\ UNCHANGED <<youngVars, foundOldPrev, slot, forwardedTo, pubVars, ocVars, yc, ycPage,
                 ycHolds, containing>>

AllVisited == yc = "finished" /\ ~toScan

MarkEnd ==
  /\ marking
  /\ AllVisited
  /\ Quiescent
  /\ marking' = FALSE
  /\ foundOldPrev' = {}
  /\ UNCHANGED <<seqnum, bitVars, foundOld, slot, forwardedTo, pubVars, ocVars, ycVars, unscanned>>

YC == FindEntry \/ RetainSucceeds \/ Notify \/ Fill \/ RelocateContaining \/ ScanContaining
        \/ ContainingScanned \/ ApplyPublished \/ VisitPage \/ VisitTo \/ MarkEnd
-----------------------------------------------------------------------------
Mutator == \E o \in Objects : Relocate(o)

Finished == seqnum = MaxYoungCycles /\ ~marking /\ oc = "done"

Next == OC \/ YC \/ MarkStart \/ Reuse \/ Mutator \/ (Finished /\ UNCHANGED vars)

\* The relocation is carried out, and a started young collection too.
Spec == Init /\ [][Next]_vars /\ WF_vars(OC) /\ WF_vars(YC)
-----------------------------------------------------------------------------
AllPlaces == {From, To} \X Nat

TypeOK ==
  /\ seqnum \in 0..MaxYoungCycles
  /\ marking \in BOOLEAN
  /\ current \subseteq AllPlaces /\ previous \subseteq AllPlaces
  /\ foundOld \subseteq {From, To} /\ foundOldPrev \subseteq {From, To}
  /\ slot \in {"from", "free", "new"}
  /\ forwardedTo \in [Objects -> AllPlaces \cup {Unforwarded}]
  /\ state \in {"none", "published", "reject", "accept"}
  /\ fields \subseteq AllPlaces
  /\ publishSeq \in 0..MaxYoungCycles
  /\ inPlace \in {"no", "sealed", "yes"}
  /\ oc \in {"start", "iterate", "claim_wait", "publish", "release", "detach", "done"}
  /\ remaining \subseteq Objects
  /\ yc \in {"next", "scan_forwarding", "notify", "fill", "containing", "page", "finished"}
  /\ ycPage \in BOOLEAN /\ ycHolds \in BOOLEAN /\ toScan \in BOOLEAN
  /\ containing \subseteq Objects
  /\ unscanned \subseteq Objects \cup {0}

\* The point of the protocol: a young collection ends only when it has visited
\* every field that was remembered when it began, wherever the field is now.
EveryFieldScanned == marking /\ AllVisited => unscanned = {}

\* A page is only scanned for fields that are there: never the previous bits
\* of objects that have moved or are moving (zRemembered.cpp:101-122).
ScansAreCurrent ==
  /\ yc = "page" /\ ShouldScanPage => On(From, previous) \subseteq {Place(f) : f \in Fields}
  /\ toScan => On(To, previous) \subseteq {Place(f) : f \in Fields}

\* The young collection never waits for the old one while the old one waits
\* for it (the comment at zRemembered.cpp:290-291).
MarkingEnds == marking ~> ~marking

=============================================================================

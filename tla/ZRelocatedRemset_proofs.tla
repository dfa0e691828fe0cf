----------------------- MODULE ZRelocatedRemset_proofs -----------------------
(***************************************************************************)
(* Proofs for ZRelocatedRemset and, at the end, for the iterations over    *)
(* the page table in ZPageAllocator.                                       *)
(*                                                                         *)
(* For any objects, any remembered fields among them and any number of     *)
(* young collections, a young collection visits every field that was       *)
(* remembered when it started, and never scans bits of objects that are no *)
(* longer there.                                                           *)
(*                                                                         *)
(* The remembered fields of the page are handed over once: to the first    *)
(* young collection that marks while the page is there, or by the old      *)
(* collection when it moves the objects before any young collection.  From *)
(* then on a field is settled: its bit is where the next young collection  *)
(* looks for it.                                                           *)
(***************************************************************************)
EXTENDS MCZRelocatedRemset, ZPageAllocator, FiniteSetTheorems, TLAPS

\* The bitmap that holds the bits of the from-objects, and the other one.
Active  == IF inPlace # "yes" /\ R!ActiveRemsetIsCurrent THEN current ELSE previous
Passive == IF inPlace # "yes" /\ R!ActiveRemsetIsCurrent THEN previous ELSE current

Forwarded(f) == forwardedTo[f] # R!Unforwarded
Moved == {forwardedTo[f] : f \in {g \in Remset : Forwarded(g)}}

\* The first young collection marks, and has to visit the fields the old
\* collection moves, or has moved, meanwhile.
Handover == seqnum = 1 /\ marking /\ ~(oc = "done" /\ publishSeq = 0)

\* The labels of the OC worker tell what it has done.
WorkerInv ==
  /\ oc = "start" => inPlace = "no" /\ remaining = LiveObjects
  /\ oc \in {"publish", "release", "detach", "done"} => remaining = {}
  /\ inPlace = "sealed" <=> oc = "claim_wait"
  /\ oc \in {"publish", "release", "detach"} => publishSeq = seqnum
  /\ oc = "publish" => marking
  /\ publishSeq <= seqnum
  /\ IF oc = "done" THEN slot = "from" <=> inPlace = "yes" ELSE slot = "from"

\* Objects are relocated in the order of their addresses, so that in place
\* they only move down.
OrderInv ==
  /\ \A o \in LiveObjects : o \in remaining \/ Forwarded(o)
  /\ \A o \in LiveObjects : forwardedTo[o][1] = R!From =>
       /\ inPlace = "yes"
       /\ forwardedTo[o][2] <= o
       /\ \A r \in remaining : o <= r

\* The young collection visits every page it has to, and holds the page only
\* while it reads its bits.
YoungInv ==
  /\ ~marking => yc = "finished" /\ ~toScan /\ foundOldPrev = {}
  /\ seqnum = 0 => ~marking
  /\ ycHolds <=> yc \in {"notify", "fill"}
  /\ ycHolds => oc # "done" /\ inPlace # "yes"
  /\ containing \subseteq Remset
  /\ slot # "free" => R!From \in foundOld \/ yc = "next" \/ (yc # "finished" /\ ycPage)
  /\ R!Copied(R!To) # {} => R!To \in foundOld \/ toScan
  /\ unscanned \subseteq R!Fields

\* Which bits there are: those of the from-objects in the active bitmap until
\* the page is detached, and those of fields at their places.
BitsInv ==
  /\ oc # "done" => R!On(R!From, Active) = {R!From} \X Remset /\ R!On(R!From, Passive) \subseteq Moved
  /\ oc = "done" => R!On(R!From, current \cup previous) \subseteq {R!Place(f) : f \in R!Fields}
  /\ R!On(R!To, current \cup previous) \subseteq Moved
  /\ fields \subseteq Moved

\* The state of the negotiation, by where the two collections are.
StateInv ==
  /\ seqnum = 0 => state = "none"
  /\ state = "published" => Handover
  /\ Handover =>
       IF yc \in {"next", "scan_forwarding", "notify"}
       THEN \/ state = "none" /\ oc \notin {"release", "detach", "done"}
            \/ state = "published" /\ oc \in {"release", "detach", "done"}
       ELSE state = "reject"
  /\ ~Handover /\ seqnum > 0 /\ oc # "done" => state = "reject"

\* During the handover a field is still to be found by the young collection,
\* with the bits of the page or in the published array, or has been visited.
HandoverInv ==
  Handover => \A f \in Remset :
    IF f \in unscanned
    THEN /\ yc \notin {"page", "finished"}
         /\ yc = "containing" => f \in containing
         /\ f \notin remaining /\ state \in {"none", "published"} => forwardedTo[f] \in fields
    ELSE Forwarded(f) /\ forwardedTo[f] \in current

\* The young collection is going to scan the page in the slot.
WillScanSlot ==
  /\ oc = "done" /\ slot # "free"
  /\ yc \in {"next", "scan_forwarding", "page"}
  /\ yc # "next" => ycPage
  /\ IF yc = "page" THEN state # "reject" ELSE publishSeq # seqnum

Settled(f) ==
  IF marking /\ f \in unscanned
  THEN /\ R!Place(f) \in previous
       /\ R!Place(f)[1] = R!To => toScan
       /\ R!Place(f)[1] = R!From => WillScanSlot
  ELSE R!Place(f) \in current

SettledInv ==
  /\ slot = "new" => Settled(0)
  /\ ~Handover => \A f \in Remset :
       seqnum > 0 \/ f \notin remaining => Forwarded(f) /\ Settled(f)

IInv == R!TypeOK /\ WorkerInv /\ OrderInv /\ YoungInv /\ BitsInv /\ StateInv /\ HandoverInv
          /\ SettledInv
-----------------------------------------------------------------------------
\* The assumption on the constants, for the steps that use it.
LEMMA RemsetFacts ==
  /\ LiveObjects \subseteq Nat \ {0} /\ IsFiniteSet(LiveObjects) /\ LiveObjects # {}
  /\ Remset \subseteq LiveObjects
  /\ MaxYoungCycles \in Nat
BY RelocatedRemsetAssumption DEF R!RemsetAssumption, R!IsFiniteSet, IsFiniteSet

LEMMA Constants ==
  /\ 0 \notin LiveObjects /\ R!From = "from" /\ R!To = "to" /\ R!Unforwarded = <<"nowhere", 0>>
  /\ \A p \in R!AllPlaces : p # R!Unforwarded
BY RemsetFacts DEF R!From, R!To, R!Unforwarded, R!AllPlaces

LEMMA Parity == \A n \in Nat : (n + 1) % 2 = 0 <=> ~(n % 2 = 0)
BY SMT

\* Where a field is.
LEMMA PlaceOf ==
  ASSUME R!TypeOK
  PROVE  /\ \A f \in LiveObjects : R!Place(f) = IF Forwarded(f) THEN forwardedTo[f] ELSE <<R!From, f>>
         /\ \A f \in LiveObjects : forwardedTo[f] = R!Unforwarded \/ forwardedTo[f] \in R!AllPlaces
         /\ R!Place(0) = <<R!From, 1>>
         /\ \A f \in LiveObjects \cup {0} : R!Place(f) \in R!AllPlaces
BY Constants, RemsetFacts DEF R!TypeOK, R!Place, Forwarded, R!AllPlaces

\* The bit of a from-object is set as long as the page is there.
LEMMA BitOf ==
  ASSUME IInv, oc # "done", NEW o \in LiveObjects
  PROVE  <<R!From, o>> \in Active <=> o \in Remset
<1>1. R!On(R!From, Active) = {R!From} \X Remset
  BY DEF IInv, BitsInv
<1>2. <<R!From, o>> \in Active <=> <<R!From, o>> \in R!On(R!From, Active)
  BY DEF R!On
<1>3. <<R!From, o>> \in {R!From} \X Remset <=> o \in Remset
  OBVIOUS
<1> QED BY <1>1, <1>2, <1>3

LEMMA UpdateRemsetStep == IInv /\ R!UpdateRemset => IInv'
<1> SUFFICES ASSUME IInv, R!UpdateRemset PROVE IInv'
  OBVIOUS
<1> USE DEF R!youngVars, R!bitVars, R!foundVars, R!pubVars, R!ocVars, R!ycVars
<1> PICK o \in remaining :
      /\ R!IsNext(o) /\ Forwarded(o) /\ remaining' = remaining \ {o}
      /\ LET bits == IF R!ActiveRemsetIsCurrent /\ inPlace = "no" THEN current ELSE previous
             moved == {forwardedTo[o] : b \in bits \cap {<<R!From, o>>}}
         IN  IF marking
             THEN /\ fields' = IF state = "none" THEN fields \cup moved ELSE fields
                  /\ UNCHANGED current
             ELSE /\ current' = current \cup moved
                  /\ UNCHANGED fields
  BY DEF R!UpdateRemset, Forwarded
<1> DEFINE moved == IF o \in Remset THEN {forwardedTo[o]} ELSE {}
<1>0. /\ oc = "iterate" /\ o \in LiveObjects /\ o \in remaining
      /\ forwardedTo[o] \in R!AllPlaces
      /\ R!Place(o) = forwardedTo[o]
  BY PlaceOf DEF IInv, R!TypeOK, R!IsNext, Forwarded
<1>1. /\ marking => current' = current /\ fields' = IF state = "none" THEN fields \cup moved ELSE fields
      /\ ~marking => current' = current \cup moved /\ fields' = fields
  <2>1. inPlace # "sealed"
    BY <1>0 DEF IInv, WorkerInv
  <2>2. (IF R!ActiveRemsetIsCurrent /\ inPlace = "no" THEN current ELSE previous) = Active
    BY <2>1 DEF IInv, R!TypeOK, Active
  <2>3. {forwardedTo[o] : b \in Active \cap {<<R!From, o>>}} = moved
    BY <1>0, BitOf
  <2> QED BY <2>2, <2>3
<1>2. UNCHANGED <<seqnum, marking, previous, foundOld, foundOldPrev, slot, forwardedTo, state,
                  publishSeq, inPlace, oc, yc, ycPage, ycHolds, containing, toScan, unscanned>>
  BY DEF R!UpdateRemset
<1> HIDE DEF moved
<1>m. moved \subseteq Moved /\ moved \subseteq R!AllPlaces
  BY <1>0 DEF moved, Moved
<1>3. R!TypeOK'
  BY <1>0, <1>1, <1>2, <1>m DEF IInv, R!TypeOK
<1>4. WorkerInv' /\ OrderInv' /\ YoungInv' /\ StateInv'
  BY <1>0, <1>1, <1>2 DEF IInv, WorkerInv, OrderInv, YoungInv, StateInv, Forwarded, R!Copied,
       R!Fields,
                          Handover
<1>5. BitsInv'
  <2>0. Moved' = Moved
    BY <1>2 DEF Moved, Forwarded
  <2>1. R!On(R!To, current \cup previous)' \subseteq Moved /\ fields' \subseteq Moved
    BY <1>1, <1>2, <1>m DEF IInv, BitsInv, R!On
  <2>2. R!On(R!From, Passive)' \subseteq Moved
    BY <1>0, <1>1, <1>2, <1>m DEF IInv, BitsInv, R!On, Passive, R!ActiveRemsetIsCurrent
  <2>3. R!On(R!From, Active)' = R!On(R!From, Active)
    <3>1. CASE inPlace = "yes" \/ ~R!ActiveRemsetIsCurrent
      BY <3>1, <1>2 DEF Active, R!On, R!ActiveRemsetIsCurrent
    <3>2. CASE inPlace # "yes" /\ R!ActiveRemsetIsCurrent
      <4>1. forwardedTo[o][1] # R!From
        BY <3>2, <1>0 DEF IInv, OrderInv
      <4> QED BY <4>1, <3>2, <1>1, <1>2 DEF Active, R!On, R!ActiveRemsetIsCurrent, moved
    <3> QED BY <3>1, <3>2
  <2> QED BY <1>0, <1>2, <2>0, <2>1, <2>2, <2>3 DEF IInv, BitsInv
<1>6. HandoverInv'
  BY <1>0, <1>1, <1>2 DEF IInv, HandoverInv, StateInv, Handover, Forwarded, moved
<1>7. SettledInv'
  <2>1. \A f : R!Place(f)' = R!Place(f)
    BY <1>2 DEF R!Place
  <2>2. \A f : Settled(f) => Settled(f)'
    BY <2>1, <1>1, <1>2 DEF Settled, WillScanSlot
  <2>3. o \in Remset /\ seqnum = 0 => Settled(o)'
    BY <2>1, <1>0, <1>1, <1>2 DEF IInv, YoungInv, Settled, moved
  <2> QED BY <2>2, <2>3, <1>0, <1>2, RemsetFacts
          DEF IInv, R!TypeOK, SettledInv, Handover, Forwarded
<1> QED BY <1>3, <1>4, <1>5, <1>6, <1>7 DEF IInv

\* Until the old relocation is done, settled fields are not in the from-page
\* when a young collection has started.
LEMMA StartInPlaceStep == IInv /\ R!StartInPlace => IInv'
<1> SUFFICES ASSUME IInv, R!StartInPlace PROVE IInv'
  OBVIOUS
<1> USE DEF R!youngVars, R!bitVars, R!foundVars, R!pubVars, R!ocVars, R!ycVars
<1>0. /\ oc = "claim_wait" /\ inPlace = "sealed" /\ ~ycHolds /\ inPlace' = "yes" /\ oc' = "iterate"
      /\ slot = "from"
      /\ UNCHANGED <<seqnum, marking, foundOld, foundOldPrev, slot, forwardedTo, state, fields,
                     publishSeq, remaining, yc, ycPage, ycHolds, containing, toScan, unscanned>>
  BY DEF R!StartInPlace, IInv, WorkerInv
<1>1. /\ \A o \in LiveObjects : forwardedTo[o][1] # R!From
      /\ \A p \in Moved : p[1] # R!From
  BY <1>0, RemsetFacts DEF IInv, OrderInv, Moved, R!TypeOK
<1>2. /\ previous' \subseteq R!AllPlaces /\ current' \subseteq current
      /\ \A p \in current : p[1] # R!From => p \in current'
      /\ previous \subseteq previous'
      /\ R!On(R!From, previous') = {R!From} \X Remset
      /\ R!On(R!From, current') = {}
      /\ current' \cup previous' = current \cup previous
  <2>1. R!On(R!From, Active) = {R!From} \X Remset /\ R!On(R!From, Passive) = {}
    BY <1>0, <1>1 DEF IInv, BitsInv, R!On
  <2>2. CASE R!ActiveRemsetIsCurrent
    BY <2>1, <2>2, <1>0 DEF R!StartInPlace, Active, Passive, R!On, IInv, R!TypeOK
  <2>3. CASE ~R!ActiveRemsetIsCurrent
    BY <2>1, <2>3, <1>0 DEF R!StartInPlace, Active, Passive, R!On, IInv, R!TypeOK
  <2> QED BY <2>2, <2>3
<1>3. R!TypeOK'
  BY <1>0, <1>2 DEF IInv, R!TypeOK
<1>4. WorkerInv' /\ OrderInv' /\ YoungInv' /\ StateInv'
  BY <1>0, <1>1 DEF IInv, WorkerInv, OrderInv, YoungInv, StateInv, Forwarded, R!Copied, R!Fields,
                    Handover
<1>5. BitsInv'
  <2>1. Moved' = Moved /\ Active' = previous' /\ Passive' = current'
    BY <1>0 DEF Moved, Forwarded, Active, Passive
  <2> QED BY <1>0, <1>2, <2>1 DEF IInv, BitsInv, R!On
<1>6. HandoverInv'
  BY <1>0, <1>1, <1>2, RemsetFacts DEF IInv, HandoverInv, Handover, Forwarded, R!TypeOK
<1>7. SettledInv'
  <2>1. \A f : R!Place(f)' = R!Place(f)
    BY <1>0 DEF R!Place
  <2>2. ASSUME NEW f \in Remset, Forwarded(f), Settled(f) PROVE Settled(f)'
    <3>1. R!Place(f) = forwardedTo[f] /\ R!Place(f)[1] # R!From
      BY <2>2, <1>1, PlaceOf, RemsetFacts DEF IInv
    <3> QED BY <3>1, <2>1, <2>2, <1>0, <1>2 DEF Settled
  <2> QED BY <2>1, <2>2, <1>0 DEF IInv, SettledInv, Handover, Forwarded
<1> QED BY <1>3, <1>4, <1>5, <1>6, <1>7 DEF IInv

LEMMA PublishStep == IInv /\ R!Publish => IInv'
<1> SUFFICES ASSUME IInv, R!Publish PROVE IInv'
  OBVIOUS
<1> USE DEF R!Publish, R!youngVars, R!bitVars, R!foundVars, R!ycVars
<1>1. R!TypeOK' /\ WorkerInv' /\ OrderInv' /\ YoungInv'
  BY DEF IInv, R!TypeOK, WorkerInv, OrderInv, YoungInv, Forwarded, R!Copied, R!Fields
<1>2. BitsInv'
  BY DEF IInv, BitsInv, Active, Passive, R!ActiveRemsetIsCurrent, R!On, Moved, Forwarded,
       R!Place, R!Fields
<1>3. StateInv'
  BY RemsetFacts DEF IInv, R!TypeOK, StateInv, WorkerInv, YoungInv, Handover
<1>4. HandoverInv' /\ SettledInv'
  BY DEF IInv, HandoverInv, StateInv, SettledInv, Settled, Handover, Forwarded, R!Place,
       WillScanSlot
<1> QED BY <1>1, <1>2, <1>3, <1>4 DEF IInv

LEMMA DetachStep == IInv /\ R!Detach => IInv'
<1> SUFFICES ASSUME IInv, R!Detach PROVE IInv'
  OBVIOUS
<1> USE DEF R!youngVars, R!foundVars, R!pubVars, R!ycVars
<1>0. /\ oc = "detach" /\ ~ycHolds /\ oc' = "done" /\ slot = "from" /\ remaining = {}
      /\ publishSeq = seqnum /\ inPlace \in {"no", "yes"}
      /\ slot' = IF inPlace = "yes" THEN "from" ELSE "free"
      /\ UNCHANGED <<seqnum, marking, foundOld, foundOldPrev, forwardedTo, state, fields,
                     publishSeq, inPlace, remaining, yc, ycPage, ycHolds, containing, toScan,
                     unscanned>>
  BY DEF R!Detach, IInv, R!TypeOK, WorkerInv
<1>1. \A f \in Remset : Forwarded(f) /\ R!Place(f) = forwardedTo[f] /\ forwardedTo[f] \in R!AllPlaces
  BY <1>0, PlaceOf, RemsetFacts DEF IInv, OrderInv
\* What goes are the bits of the from-objects.
<1>2. /\ current' \subseteq current /\ previous' \subseteq previous
      /\ \A p \in R!AllPlaces : p[1] # R!From /\ p \in current => p \in current'
      /\ \A p \in R!AllPlaces : p[1] # R!From /\ p \in previous => p \in previous'
      /\ seqnum = 1 \/ inPlace = "yes" => current' = current
      /\ R!On(R!From, current' \cup previous') \subseteq Moved
  <2>1. CASE inPlace = "yes" \/ ~R!ActiveRemsetIsCurrent
    <3>1. current' = current /\ previous' = previous \ R!On(R!From, previous)
      BY <2>1 DEF R!Detach
    <3>2. R!On(R!From, current) \subseteq Moved
      BY <2>1, <1>0 DEF IInv, BitsInv, Passive
    <3> QED BY <3>1, <3>2 DEF R!On
  <2>2. CASE ~(inPlace = "yes" \/ ~R!ActiveRemsetIsCurrent)
    <3>1. previous' = previous /\ current' = current \ R!On(R!From, current)
      BY <2>2 DEF R!Detach
    <3>2. R!On(R!From, previous) \subseteq Moved /\ seqnum # 1
      BY <2>2, <1>0 DEF IInv, BitsInv, Passive, R!ActiveRemsetIsCurrent
    <3> QED BY <2>2, <3>1, <3>2 DEF R!On
  <2> QED BY <2>1, <2>2
<1>3. R!TypeOK' /\ WorkerInv' /\ OrderInv' /\ YoungInv' /\ StateInv'
  BY <1>0, <1>2 DEF IInv, R!TypeOK, WorkerInv, OrderInv, YoungInv, StateInv, Forwarded,
       R!Copied, R!Fields,
                    Handover
<1>4. BitsInv'
  <2>1. Moved' = Moved /\ \A f : R!Place(f)' = R!Place(f)
    BY <1>0 DEF Moved, Forwarded, R!Place
  <2>2. Moved \subseteq {R!Place(f) : f \in R!Fields}'
    BY <1>1, <2>1 DEF Moved, R!Fields
  <2> QED BY <1>0, <1>2, <2>1, <2>2 DEF IInv, BitsInv, R!On
<1>5. HandoverInv'
  BY <1>0, <1>2 DEF IInv, HandoverInv, Handover, Forwarded
<1>6. SettledInv'
  <2>1. \A f : R!Place(f)' = R!Place(f)
    BY <1>0 DEF R!Place
  <2>2. ASSUME NEW f \in Remset, Settled(f) PROVE Settled(f)'
    <3>1. CASE R!Place(f)[1] # R!From
      BY <3>1, <2>1, <2>2, <1>0, <1>1, <1>2 DEF Settled
    <3>2. CASE R!Place(f)[1] = R!From
      <4>1. inPlace = "yes" /\ current' = current
        BY <3>2, <1>1, <1>2, RemsetFacts DEF IInv, OrderInv
      <4> QED BY <4>1, <3>2, <2>1, <2>2, <1>0, <1>1, <1>2 DEF Settled, WillScanSlot
    <3> QED BY <3>1, <3>2
  <2> QED BY <2>2, <1>0 DEF IInv, SettledInv, Handover, Forwarded
<1> QED BY <1>3, <1>4, <1>5, <1>6 DEF IInv

LEMMA ReuseStep == IInv /\ R!Reuse => IInv'
<1> SUFFICES ASSUME IInv, R!Reuse PROVE IInv'
  OBVIOUS
<1> USE DEF R!Reuse, R!youngVars, R!pubVars, R!ocVars, R!ycVars
<1>0. /\ slot = "free" /\ oc = "done" /\ inPlace # "yes" /\ 0 \notin unscanned
      /\ R!Place(0)' = R!Place(0) /\ R!Place(0) = <<R!From, 1>>
  BY RemsetFacts DEF IInv, WorkerInv, YoungInv, R!Fields, R!Place
<1>1. R!TypeOK' /\ WorkerInv' /\ OrderInv' /\ YoungInv'
  BY <1>0 DEF IInv, R!TypeOK, R!AllPlaces, WorkerInv, OrderInv, YoungInv, Forwarded, R!Copied,
       R!Fields
<1>2. BitsInv'
  <2>1. Moved' = Moved /\ \A f : R!Place(f)' = R!Place(f)
    BY DEF Moved, Forwarded, R!Place
  <2> QED BY <1>0, <2>1, Constants DEF IInv, BitsInv, R!On, R!Fields
<1>3. StateInv' /\ HandoverInv'
  BY <1>0 DEF IInv, StateInv, HandoverInv, Handover, Forwarded
<1>4. SettledInv'
  <2>1. \A f : R!Place(f)' = R!Place(f)
    BY DEF R!Place
  <2>2. \A f : Settled(f) => Settled(f)'
    BY <1>0, <2>1 DEF Settled, WillScanSlot
  <2>3. Settled(0)'
    BY <1>0 DEF Settled
  <2> QED BY <2>2, <2>3 DEF IInv, SettledInv, Handover, Forwarded
<1> QED BY <1>1, <1>2, <1>3, <1>4 DEF IInv

LEMMA MarkStartStep == IInv /\ R!MarkStart => IInv'
<1> SUFFICES ASSUME IInv, R!MarkStart PROVE IInv'
  OBVIOUS
<1> USE DEF R!pubVars, R!ocVars
<1>0. /\ oc \in {"start", "done"} /\ ~marking /\ yc = "finished" /\ ~toScan /\ foundOldPrev = {}
      /\ seqnum \in Nat /\ seqnum < MaxYoungCycles /\ seqnum' = seqnum + 1 /\ marking'
      /\ current' = previous /\ previous' = current
      /\ foundOld' = {} /\ foundOldPrev' = foundOld
      /\ yc' = (IF R!From \in foundOld THEN "next" ELSE "finished")
      /\ toScan' = (R!To \in foundOld) /\ unscanned' = R!Fields /\ ~ycHolds
      /\ UNCHANGED <<slot, forwardedTo, state, fields, publishSeq, inPlace, oc, remaining, ycPage,
                     ycHolds, containing>>
  BY DEF R!MarkStart, R!Quiescent, IInv, R!TypeOK, YoungInv
<1>1. Moved' = Moved /\ R!Fields' = R!Fields /\ \A f : R!Place(f)' = R!Place(f)
  BY <1>0 DEF Moved, Forwarded, R!Fields, R!Place
<1>2. R!TypeOK'
  BY <1>0, RemsetFacts DEF IInv, R!TypeOK, R!Fields
<1>3. WorkerInv' /\ OrderInv'
  BY <1>0 DEF IInv, R!TypeOK, WorkerInv, OrderInv, Forwarded
<1>4. BitsInv'
  <2>1. oc = "start" => Active' = Active /\ Passive' = Passive
    BY <1>0, Parity DEF IInv, WorkerInv, Active, Passive, R!ActiveRemsetIsCurrent
  <2>2. oc = "start" \/ oc = "done"
    BY <1>0
  <2>3. (current \cup previous)' = current \cup previous
    BY <1>0
  <2> QED BY <1>0, <1>1, <2>1, <2>2, <2>3 DEF IInv, BitsInv, R!On
<1>5. slot # "free" => R!From \in foundOld
  BY <1>0 DEF IInv, YoungInv
<1>6. YoungInv'
  <2>1. R!Copied(R!To)' = R!Copied(R!To)
    BY <1>0 DEF R!Copied
  <2>2. containing \subseteq Remset /\ (R!Copied(R!To) # {} => R!To \in foundOld) /\ (ycHolds => FALSE)
    BY <1>0 DEF IInv, YoungInv
  <2>3. seqnum' # 0 /\ unscanned' \subseteq R!Fields' /\ containing' \subseteq Remset
    BY <1>0, <1>1, <2>2
  <2>4. ycHolds' <=> yc' \in {"notify", "fill"}
    BY <1>0
  <2>5. slot' # "free" => yc' = "next"
    BY <1>0, <1>5
  <2>6. R!Copied(R!To)' # {} => toScan'
    BY <1>0, <2>1, <2>2
  <2> QED BY <1>0, <2>3, <2>4, <2>5, <2>6 DEF YoungInv
<1>7. Handover' <=> seqnum = 0 /\ oc = "start"
  BY <1>0 DEF IInv, WorkerInv, R!TypeOK, Handover
<1>8. StateInv'
  BY <1>0, <1>5, <1>7 DEF IInv, StateInv, WorkerInv, Handover
<1>9. HandoverInv'
  BY <1>0, <1>5, <1>7, RemsetFacts DEF IInv, HandoverInv, WorkerInv, R!Fields
\* Every settled field is one that this collection will find.
<1>10. SettledInv'
  <2>1. ASSUME NEW f \in R!Fields, Settled(f), f = 0 \/ Forwarded(f)
        PROVE  Settled(f)'
    <3>1. R!Place(f) \in current
      BY <2>1, <1>0 DEF Settled
    <3>2. R!Place(f)[1] = R!To => R!To \in foundOld
      <4>1. f # 0 /\ R!Place(f)[1] = R!To => f \in R!Copied(R!To)
        BY <2>1, PlaceOf, RemsetFacts DEF IInv, R!Copied, R!Fields
      <4>2. f # 0 /\ R!Place(f)[1] = R!To => R!To \in foundOld
        BY <4>1, <1>0 DEF IInv, YoungInv
      <4> QED BY <4>2, PlaceOf, Constants DEF IInv
    <3>3. R!Place(f)[1] = R!From => oc = "done" /\ slot # "free"
      <4>1. CASE f = 0
        BY <4>1, <2>1, RemsetFacts DEF IInv, WorkerInv, R!Fields
      <4>2. CASE f # 0 /\ R!Place(f)[1] = R!From
        <5>1. f \in LiveObjects /\ forwardedTo[f][1] = R!From
          BY <4>2, <2>1, PlaceOf, RemsetFacts DEF IInv, R!Fields
        <5> QED BY <5>1, <1>0 DEF IInv, OrderInv, WorkerInv
      <4> QED BY <4>1, <4>2
    <3>4. R!Place(f)[1] = R!From => WillScanSlot'
      BY <3>3, <1>0, <1>5 DEF WillScanSlot, IInv, WorkerInv, R!TypeOK
    <3> QED BY <3>1, <3>2, <3>4, <2>1, <1>0, <1>1 DEF Settled
  <2>2. slot = "new" => Settled(0)'
    BY <2>1 DEF IInv, SettledInv, R!Fields
  <2>3. ASSUME ~Handover', NEW f \in Remset PROVE Forwarded(f)' /\ Settled(f)'
    <3>1. seqnum > 0 \/ f \notin remaining
      BY <2>3, <1>0, <1>7 DEF IInv, WorkerInv
    <3>2. Forwarded(f) /\ Settled(f)
      BY <3>1, <1>0 DEF IInv, SettledInv, Handover
    <3> QED BY <3>2, <2>1, <1>0 DEF R!Fields, Forwarded
  <2> QED BY <2>2, <2>3, <1>0 DEF SettledInv
<1> QED BY <1>2, <1>3, <1>4, <1>8, <1>9, <1>10, <1>6 DEF IInv

LEMMA NotifyStep == IInv /\ R!Notify => IInv'
<1> SUFFICES ASSUME IInv, R!Notify PROVE IInv'
  OBVIOUS
<1> USE DEF R!Notify, R!youngVars, R!bitVars, R!foundVars, R!ocVars
<1>1. R!TypeOK' /\ WorkerInv' /\ OrderInv' /\ YoungInv'
  BY DEF IInv, R!TypeOK, WorkerInv, OrderInv, YoungInv, Forwarded, R!Copied, R!Fields
<1>2. BitsInv'
  BY DEF IInv, BitsInv, Active, Passive, R!ActiveRemsetIsCurrent, R!On, Moved, Forwarded,
       R!Place, R!Fields
<1>3. StateInv'
  BY DEF IInv, R!TypeOK, StateInv, YoungInv, Handover
<1>4. HandoverInv' /\ SettledInv'
  BY DEF IInv, HandoverInv, StateInv, SettledInv, Settled, Handover, Forwarded, R!Place,
       WillScanSlot
<1> QED BY <1>1, <1>2, <1>3, <1>4 DEF IInv
-----------------------------------------------------------------------------
LEMMA FillStep == IInv /\ R!Fill => IInv'
<1> SUFFICES ASSUME IInv, R!Fill PROVE IInv'
  OBVIOUS
<1> USE DEF R!Fill, R!youngVars, R!bitVars, R!foundVars, R!pubVars, R!ocVars
<1>0. yc = "fill" /\ ycHolds /\ oc # "done" /\ inPlace # "yes"
  BY DEF IInv, YoungInv
\* The page is held, so its bits are all there, or all in the bitmap that this
\* young collection does not read.
<1>1. containing' \subseteq Remset /\ (seqnum = 1 => containing' = Remset)
  <2>1. \A o \in LiveObjects : <<R!From, o>> \in Active <=> o \in Remset
    BY <1>0, BitOf
  <2>2. CASE R!ActiveRemsetIsCurrent
    <3>1. R!On(R!From, previous) \subseteq Moved
      BY <2>2, <1>0 DEF IInv, BitsInv, Passive
    <3>2. \A p \in Moved : p[1] # R!From
      BY <1>0, RemsetFacts DEF IInv, OrderInv, Moved
    <3>3. containing' = {} /\ seqnum # 1
      BY <2>2, <3>1, <3>2 DEF R!On, R!ActiveRemsetIsCurrent
    <3> QED BY <3>3
  <2>3. CASE ~R!ActiveRemsetIsCurrent
    BY <2>3, <2>1, RemsetFacts DEF Active
  <2> QED BY <2>2, <2>3
<1>2. R!TypeOK' /\ WorkerInv' /\ OrderInv'
  <2>1. R!TypeOK'
    <3>1. R!TypeOK /\ containing' \subseteq LiveObjects /\ ycHolds' = FALSE /\ yc' = "containing"
          /\ UNCHANGED <<R!youngVars, R!bitVars, R!foundVars, slot, forwardedTo, R!pubVars, R!ocVars, ycPage,
                         toScan, unscanned>>
      BY DEF IInv
    <3>2. /\ UNCHANGED <<seqnum, marking, current, previous, foundOld, foundOldPrev, slot>>
          /\ UNCHANGED <<forwardedTo, state, fields, publishSeq, inPlace, oc, remaining>>
          /\ UNCHANGED <<ycPage, toScan, unscanned>>
      BY ONLY <3>1 DEF R!youngVars, R!bitVars, R!foundVars, R!pubVars, R!ocVars
    <3> QED BY ONLY <3>1, <3>2 DEF R!TypeOK
  <2>2. WorkerInv'
    BY DEF IInv, WorkerInv
  <2>3. OrderInv'
    BY DEF IInv, OrderInv, Forwarded
  <2> QED BY <2>1, <2>2, <2>3
<1>3. YoungInv'
  BY <1>0, <1>1 DEF IInv, YoungInv, R!Copied, R!Fields
<1>4. BitsInv'
  BY DEF IInv, BitsInv, Active, Passive, R!ActiveRemsetIsCurrent, R!On, Moved, Forwarded,
       R!Place, R!Fields
<1>5. StateInv' /\ HandoverInv' /\ SettledInv'
  BY <1>0, <1>1 DEF IInv, StateInv, HandoverInv, SettledInv, Settled, Handover, Forwarded, R!Place,
                    WillScanSlot
<1> QED BY <1>2, <1>3, <1>4, <1>5 DEF IInv

-----------------------------------------------------------------------------
\* Scanning places: a field at one of them is settled, and so is one that was.
LEMMA ScanSettles ==
  ASSUME NEW places, R!Scan(places), NEW f, Settled(f),
         UNCHANGED <<marking, slot, forwardedTo>>,
         R!Place(f) \in previous \ places => R!Place(f) \in previous',
         R!Place(f) \notin places /\ R!Place(f)[1] = R!To /\ toScan => toScan',
         R!Place(f) \notin places /\ R!Place(f)[1] = R!From /\ WillScanSlot => WillScanSlot'
  PROVE  Settled(f)'
<1>1. R!Place(f)' = R!Place(f)
  BY DEF R!Place
<1> QED BY <1>1 DEF R!Scan, Settled

LEMMA ScanContainingStep == IInv /\ R!ScanContaining => IInv'
<1> SUFFICES ASSUME IInv, R!ScanContaining PROVE IInv'
  OBVIOUS
<1> USE DEF R!youngVars, R!foundVars, R!pubVars, R!ocVars
<1> PICK o \in containing :
      Forwarded(o) /\ containing' = containing \ {o} /\ R!Scan({forwardedTo[o]})
  BY DEF R!ScanContaining, Forwarded
<1>0. /\ yc = "containing" /\ marking /\ o \in Remset /\ o \in LiveObjects
      /\ forwardedTo[o] \in R!AllPlaces /\ forwardedTo[o] \in Moved /\ R!Place(o) = forwardedTo[o]
      /\ UNCHANGED <<seqnum, marking, previous, foundOld, foundOldPrev, slot, forwardedTo, state,
                     fields, publishSeq, inPlace, oc, remaining, yc, ycPage, ycHolds, toScan>>
  BY PlaceOf, RemsetFacts DEF R!ScanContaining, IInv, R!TypeOK, YoungInv, Moved
<1>1. Moved' = Moved /\ R!Fields' = R!Fields /\ \A f : R!Place(f)' = R!Place(f)
  BY <1>0 DEF Moved, Forwarded, R!Fields, R!Place
<1>2. /\ current' = current \cup {forwardedTo[o]} /\ unscanned' \subseteq unscanned
      /\ \A f \in unscanned : R!Place(f) # forwardedTo[o] => f \in unscanned'
  BY DEF R!Scan
<1>3. R!TypeOK' /\ WorkerInv' /\ OrderInv' /\ YoungInv' /\ StateInv'
  BY <1>0, <1>1, <1>2 DEF IInv, R!TypeOK, WorkerInv, OrderInv, YoungInv, StateInv, Handover,
       Forwarded,
                          R!Copied
<1>4. BitsInv'
  <2>1. CASE oc = "done"
    <3>1. forwardedTo[o] \in {R!Place(f) : f \in R!Fields}
      BY <1>0 DEF R!Fields
    <3> QED BY <2>1, <3>1, <1>0, <1>1, <1>2 DEF IInv, BitsInv, R!On
  <2>2. CASE oc # "done"
    <3>1. CASE inPlace # "yes" /\ R!ActiveRemsetIsCurrent
      <4>1. forwardedTo[o][1] # R!From
        BY <3>1, <1>0 DEF IInv, OrderInv
      <4>2. Active' = current' /\ Passive' = previous /\ Active = current /\ Passive = previous
        BY <3>1, <1>0 DEF Active, Passive, R!ActiveRemsetIsCurrent
      <4>3. R!On(R!From, current') = R!On(R!From, current)
        BY <4>1, <1>2 DEF R!On
      <4> QED BY <2>2, <4>2, <4>3, <1>0, <1>1, <1>2 DEF IInv, BitsInv, R!On
    <3>2. CASE ~(inPlace # "yes" /\ R!ActiveRemsetIsCurrent)
      <4>1. Active' = previous /\ Passive' = current' /\ Active = previous /\ Passive = current
        BY <3>2, <1>0 DEF Active, Passive, R!ActiveRemsetIsCurrent
      <4> QED BY <2>2, <4>1, <1>0, <1>1, <1>2 DEF IInv, BitsInv, R!On
    <3> QED BY <3>1, <3>2
  <2> QED BY <2>1, <2>2
\* An object that is still at its old address is not found at a new one.
<1>5. HandoverInv'
  <2>1. ASSUME NEW f \in Remset, ~Forwarded(f) PROVE R!Place(f) # forwardedTo[o]
    <3>1. f \in LiveObjects /\ f \in remaining /\ R!Place(f) = <<R!From, f>> /\ f # o
      BY <2>1, PlaceOf, RemsetFacts DEF IInv, OrderInv
    <3>2. forwardedTo[o][1] = R!From => forwardedTo[o][2] <= o /\ o <= f
      BY <3>1, <1>0 DEF IInv, OrderInv
    <3>3. forwardedTo[o] = <<R!From, f>> => f <= o /\ o <= f
      BY <3>2
    <3> QED BY <3>1, <3>3, <1>0, RemsetFacts
  <2>2. ASSUME Handover, NEW f \in Remset, f \in unscanned, f \notin unscanned'
        PROVE  Forwarded(f) /\ forwardedTo[f] \in current'
    BY <2>1, <2>2, <1>2, PlaceOf, RemsetFacts DEF IInv
  <2>3. Handover' = Handover /\ \A f : Forwarded(f)' = Forwarded(f)
    BY <1>0 DEF Handover, Forwarded
  <2>4. o \notin unscanned'
    BY <1>0 DEF R!Scan
  <2> QED BY <2>2, <2>3, <2>4, <1>0, <1>2 DEF IInv, HandoverInv
<1>6. SettledInv'
  <2>1. \A f : Settled(f) => Settled(f)'
    BY ScanSettles, <1>0 DEF WillScanSlot
  <2> QED BY <2>1, <1>0 DEF IInv, SettledInv, Handover, Forwarded
<1> QED BY <1>3, <1>4, <1>5, <1>6 DEF IInv

LEMMA ApplyPublishedStep == IInv /\ R!ApplyPublished => IInv'
<1> SUFFICES ASSUME IInv, R!ApplyPublished PROVE IInv'
  OBVIOUS
<1> USE DEF R!youngVars, R!foundVars, R!ocVars
<1>0. /\ yc = "scan_forwarding" /\ marking /\ oc \in {"detach", "done"}
      /\ remaining = {} /\ seqnum # 0
      /\ yc' = "page" /\ state' = (IF publishSeq = seqnum THEN "reject" ELSE "accept")
      /\ UNCHANGED <<seqnum, marking, previous, foundOld, foundOldPrev, slot, forwardedTo,
                     publishSeq, inPlace, oc, remaining, ycPage, ycHolds, containing, toScan>>
  BY DEF R!ApplyPublished, R!Released, IInv, YoungInv, WorkerInv
<1>1. Moved' = Moved /\ R!Fields' = R!Fields /\ \A f : R!Place(f)' = R!Place(f)
  BY <1>0 DEF Moved, Forwarded, R!Fields, R!Place
<1>2. \A f \in Remset : Forwarded(f) /\ R!Place(f) = forwardedTo[f] /\ forwardedTo[f] \in R!AllPlaces
  BY <1>0, PlaceOf, RemsetFacts DEF IInv, OrderInv
<1> DEFINE places == IF state = "published" THEN fields ELSE {}
<1>3. R!Scan(places) /\ fields' \subseteq fields
  BY DEF R!ApplyPublished, R!Scan
<1>4. places \subseteq Moved /\ places \subseteq R!AllPlaces /\ (places # {} => Handover)
  BY DEF IInv, BitsInv, R!TypeOK, StateInv
<1> HIDE DEF places
<1>5. current' = current \cup places /\ unscanned' \subseteq unscanned
  BY <1>3 DEF R!Scan
<1>6. R!TypeOK' /\ WorkerInv' /\ OrderInv'
  BY <1>0, <1>3, <1>4, <1>5 DEF IInv, R!TypeOK, WorkerInv, OrderInv, Forwarded
<1>7. YoungInv'
  <2>1. R!Copied(R!To)' = R!Copied(R!To)
    BY <1>0 DEF R!Copied
  <2> QED BY <2>1, <1>0, <1>1, <1>5 DEF IInv, YoungInv
<1>8. BitsInv'
  <2>1. R!On(R!To, current \cup previous)' \subseteq Moved /\ fields' \subseteq Moved
    BY <1>0, <1>3, <1>4, <1>5 DEF IInv, BitsInv, R!On
  <2>2. oc = "done" => R!On(R!From, current \cup previous)' \subseteq {R!Place(f) : f \in R!Fields}
    <3>1. Moved \subseteq {R!Place(f) : f \in R!Fields}
      BY <1>2 DEF Moved, R!Fields
    <3> QED BY <3>1, <1>0, <1>4, <1>5 DEF IInv, BitsInv, R!On
  <2>3. oc # "done" => R!On(R!From, Active)' = R!On(R!From, Active) /\ R!On(R!From,
       Passive)' \subseteq Moved
    <3>1. CASE places = {}
      BY <3>1, <1>0, <1>5 DEF IInv, BitsInv, R!On, Active, Passive, R!ActiveRemsetIsCurrent
    <3>2. CASE places # {}
      <4>1. ~R!ActiveRemsetIsCurrent
        BY <3>2, <1>4 DEF Handover, R!ActiveRemsetIsCurrent
      <4> QED BY <4>1, <1>0, <1>4, <1>5 DEF IInv, BitsInv, R!On, Active, Passive,
           R!ActiveRemsetIsCurrent
    <3> QED BY <3>1, <3>2
  <2> QED BY <2>1, <2>2, <2>3, <1>0, <1>1 DEF IInv, BitsInv
<1>9. StateInv'
  BY <1>0, RemsetFacts DEF IInv, R!TypeOK, StateInv, WorkerInv, Handover
\* What was published is all that was remembered.
<1>10. HandoverInv'
  <2>1. ASSUME Handover, NEW f \in Remset
        PROVE  f \notin unscanned' /\ forwardedTo[f] \in current'
    <3>1. state = "published"
      BY <2>1, <1>0 DEF IInv, StateInv
    <3>2. f \in unscanned => forwardedTo[f] \in places
      BY <2>1, <3>1, <1>0 DEF IInv, HandoverInv, places
    <3>3. f \notin unscanned => forwardedTo[f] \in current
      BY <2>1, <1>0 DEF IInv, HandoverInv
    <3> QED BY <3>2, <3>3, <1>2, <1>3, <1>5 DEF R!Scan
  <2>2. Handover' = Handover /\ \A f : Forwarded(f)' = Forwarded(f)
    BY <1>0 DEF Handover, Forwarded
  <2> QED BY <2>1, <2>2, <1>0, <1>2 DEF HandoverInv
<1>11. SettledInv'
  <2>1. \A f : Settled(f) => Settled(f)'
    BY ScanSettles, <1>0, <1>3 DEF WillScanSlot
  <2> QED BY <2>1, <1>0 DEF IInv, SettledInv, Handover, Forwarded
<1> QED BY <1>6, <1>7, <1>8, <1>9, <1>10, <1>11 DEF IInv

LEMMA BeginStep == IInv /\ R!Begin => IInv'
<1> SUFFICES ASSUME IInv, R!Begin PROVE IInv'
  OBVIOUS
<1> USE RemsetFacts DEF R!Begin, R!bitVars, R!foundVars, R!youngVars, R!pubVars, R!ycVars
<1>1. R!TypeOK' /\ WorkerInv' /\ OrderInv'
  BY DEF IInv, R!TypeOK, WorkerInv, OrderInv, Forwarded
<1>2. YoungInv'
  BY DEF IInv, R!TypeOK, YoungInv, WorkerInv, R!Copied, R!Fields
<1>3. BitsInv'
  BY DEF IInv, R!TypeOK, BitsInv, Active, Passive, R!ActiveRemsetIsCurrent, R!On, Moved,
       Forwarded, R!Place, R!Fields
<1>4. StateInv'
  BY DEF IInv, R!TypeOK, WorkerInv, YoungInv, StateInv, Handover
<1>5. HandoverInv'
  BY DEF IInv, R!TypeOK, WorkerInv, YoungInv, StateInv, HandoverInv, Handover, Forwarded
<1>6. SettledInv'
  BY DEF IInv, R!TypeOK, WorkerInv, YoungInv, StateInv, SettledInv, Settled, Handover,
       Forwarded, R!Place,
         WillScanSlot
<1> QED BY <1>1, <1>2, <1>3, <1>4, <1>5, <1>6 DEF IInv

LEMMA ClaimInPlaceStep == IInv /\ R!ClaimInPlace => IInv'
<1> SUFFICES ASSUME IInv, R!ClaimInPlace PROVE IInv'
  OBVIOUS
<1> USE RemsetFacts DEF R!ClaimInPlace, R!bitVars, R!foundVars, R!youngVars, R!pubVars,
     R!ycVars, R!IsNext
<1>1. R!TypeOK' /\ WorkerInv' /\ OrderInv'
  BY DEF IInv, R!TypeOK, WorkerInv, OrderInv, Forwarded
<1>2. YoungInv'
  BY DEF IInv, R!TypeOK, YoungInv, WorkerInv, R!Copied, R!Fields
<1>3. BitsInv'
  BY DEF IInv, R!TypeOK, BitsInv, Active, Passive, R!ActiveRemsetIsCurrent, R!On, Moved,
       Forwarded, R!Place, R!Fields
<1>4. StateInv'
  BY DEF IInv, R!TypeOK, WorkerInv, YoungInv, StateInv, Handover
<1>5. HandoverInv'
  BY DEF IInv, R!TypeOK, WorkerInv, YoungInv, StateInv, HandoverInv, Handover, Forwarded
<1>6. SettledInv'
  BY DEF IInv, R!TypeOK, WorkerInv, YoungInv, StateInv, SettledInv, Settled, Handover,
       Forwarded, R!Place,
         WillScanSlot
<1> QED BY <1>1, <1>2, <1>3, <1>4, <1>5, <1>6 DEF IInv

LEMMA AfterRelocateStep == IInv /\ R!AfterRelocate => IInv'
<1> SUFFICES ASSUME IInv, R!AfterRelocate PROVE IInv'
  OBVIOUS
<1> USE RemsetFacts DEF R!AfterRelocate, R!bitVars, R!foundVars, R!youngVars, R!ycVars
<1>1. R!TypeOK' /\ WorkerInv' /\ OrderInv'
  BY DEF IInv, R!TypeOK, WorkerInv, OrderInv, Forwarded
<1>2. YoungInv'
  BY DEF IInv, R!TypeOK, YoungInv, WorkerInv, R!Copied, R!Fields
<1>3. BitsInv'
  BY DEF IInv, R!TypeOK, BitsInv, Active, Passive, R!ActiveRemsetIsCurrent, R!On, Moved,
       Forwarded, R!Place, R!Fields
<1>4. StateInv'
  BY DEF IInv, R!TypeOK, WorkerInv, YoungInv, StateInv, Handover
<1>5. HandoverInv'
  BY DEF IInv, R!TypeOK, WorkerInv, YoungInv, StateInv, HandoverInv, Handover, Forwarded
<1>6. SettledInv'
  BY DEF IInv, R!TypeOK, WorkerInv, YoungInv, StateInv, SettledInv, Settled, Handover,
       Forwarded, R!Place,
         WillScanSlot
<1> QED BY <1>1, <1>2, <1>3, <1>4, <1>5, <1>6 DEF IInv

LEMMA ReleaseStep == IInv /\ R!Release => IInv'
<1> SUFFICES ASSUME IInv, R!Release PROVE IInv'
  OBVIOUS
<1> USE RemsetFacts DEF R!Release, R!bitVars, R!foundVars, R!youngVars, R!pubVars, R!ycVars
<1>1. R!TypeOK' /\ WorkerInv' /\ OrderInv'
  BY DEF IInv, R!TypeOK, WorkerInv, OrderInv, Forwarded
<1>2. YoungInv'
  BY DEF IInv, R!TypeOK, YoungInv, WorkerInv, R!Copied, R!Fields
<1>3. BitsInv'
  BY DEF IInv, R!TypeOK, BitsInv, Active, Passive, R!ActiveRemsetIsCurrent, R!On, Moved,
       Forwarded, R!Place, R!Fields
<1>4. StateInv'
  BY DEF IInv, R!TypeOK, WorkerInv, YoungInv, StateInv, Handover
<1>5. HandoverInv'
  BY DEF IInv, R!TypeOK, WorkerInv, YoungInv, StateInv, HandoverInv, Handover, Forwarded
<1>6. SettledInv'
  BY DEF IInv, R!TypeOK, WorkerInv, YoungInv, StateInv, SettledInv, Settled, Handover,
       Forwarded, R!Place,
         WillScanSlot
<1> QED BY <1>1, <1>2, <1>3, <1>4, <1>5, <1>6 DEF IInv

LEMMA FindEntryStep == IInv /\ R!FindEntry => IInv'
<1> SUFFICES ASSUME IInv, R!FindEntry PROVE IInv'
  OBVIOUS
<1> USE RemsetFacts DEF R!FindEntry, R!bitVars, R!foundVars, R!youngVars, R!pubVars, R!ocVars
<1>1. R!TypeOK' /\ WorkerInv' /\ OrderInv'
  BY DEF IInv, R!TypeOK, WorkerInv, OrderInv, Forwarded
<1>2. YoungInv'
  BY DEF IInv, R!TypeOK, YoungInv, WorkerInv, R!Copied, R!Fields
<1>3. BitsInv'
  BY DEF IInv, R!TypeOK, BitsInv, Active, Passive, R!ActiveRemsetIsCurrent, R!On, Moved,
       Forwarded, R!Place, R!Fields
<1>4. StateInv'
  BY DEF IInv, R!TypeOK, WorkerInv, YoungInv, StateInv, Handover
<1>5. HandoverInv'
  BY DEF IInv, R!TypeOK, WorkerInv, YoungInv, StateInv, HandoverInv, Handover, Forwarded
<1>6. SettledInv'
  BY DEF IInv, R!TypeOK, WorkerInv, YoungInv, StateInv, SettledInv, Settled, Handover,
       Forwarded, R!Place,
         WillScanSlot
<1> QED BY <1>1, <1>2, <1>3, <1>4, <1>5, <1>6 DEF IInv

LEMMA RetainSucceedsStep == IInv /\ R!RetainSucceeds => IInv'
<1> SUFFICES ASSUME IInv, R!RetainSucceeds PROVE IInv'
  OBVIOUS
<1> USE RemsetFacts DEF R!RetainSucceeds, R!bitVars, R!foundVars, R!youngVars, R!pubVars,
     R!ocVars, R!CanRetain, R!Released
<1>1. R!TypeOK' /\ WorkerInv' /\ OrderInv'
  BY DEF IInv, R!TypeOK, WorkerInv, OrderInv, Forwarded
<1>2. YoungInv'
  BY DEF IInv, R!TypeOK, YoungInv, WorkerInv, R!Copied, R!Fields
<1>3. BitsInv'
  BY DEF IInv, R!TypeOK, BitsInv, Active, Passive, R!ActiveRemsetIsCurrent, R!On, Moved,
       Forwarded, R!Place, R!Fields
<1>4. StateInv'
  BY DEF IInv, R!TypeOK, WorkerInv, YoungInv, StateInv, Handover
<1>5. HandoverInv'
  BY DEF IInv, R!TypeOK, WorkerInv, YoungInv, StateInv, HandoverInv, Handover, Forwarded
<1>6. SettledInv'
  BY DEF IInv, R!TypeOK, WorkerInv, YoungInv, StateInv, SettledInv, Settled, Handover,
       Forwarded, R!Place,
         WillScanSlot
<1> QED BY <1>1, <1>2, <1>3, <1>4, <1>5, <1>6 DEF IInv

LEMMA ContainingScannedStep == IInv /\ R!ContainingScanned => IInv'
<1> SUFFICES ASSUME IInv, R!ContainingScanned PROVE IInv'
  OBVIOUS
<1> USE RemsetFacts DEF R!ContainingScanned, R!bitVars, R!foundVars, R!youngVars, R!pubVars,
     R!ocVars
<1>1. R!TypeOK' /\ WorkerInv' /\ OrderInv'
  BY DEF IInv, R!TypeOK, WorkerInv, OrderInv, Forwarded
<1>2. YoungInv'
  BY DEF IInv, R!TypeOK, YoungInv, WorkerInv, R!Copied, R!Fields
<1>3. BitsInv'
  BY DEF IInv, R!TypeOK, BitsInv, Active, Passive, R!ActiveRemsetIsCurrent, R!On, Moved,
       Forwarded, R!Place, R!Fields
<1>4. StateInv'
  BY DEF IInv, R!TypeOK, WorkerInv, YoungInv, StateInv, Handover
<1>5. HandoverInv'
  BY DEF IInv, R!TypeOK, WorkerInv, YoungInv, StateInv, HandoverInv, Handover, Forwarded
<1>6. SettledInv'
  BY DEF IInv, R!TypeOK, WorkerInv, YoungInv, StateInv, SettledInv, Settled, Handover,
       Forwarded, R!Place,
         WillScanSlot
<1> QED BY <1>1, <1>2, <1>3, <1>4, <1>5, <1>6 DEF IInv

LEMMA VisitPageStep == IInv /\ R!VisitPage => IInv'
<1> SUFFICES ASSUME IInv, R!VisitPage PROVE IInv'
  OBVIOUS
<1> USE DEF R!youngVars, R!pubVars, R!ocVars
<1>0. /\ yc = "page" /\ marking /\ seqnum # 0 /\ yc' = "finished" /\ ~ycHolds
      /\ foundOld' = (IF ycPage THEN foundOld \cup {R!From} ELSE foundOld)
      /\ UNCHANGED <<seqnum, marking, foundOldPrev, slot, forwardedTo, state, fields, publishSeq,
                     inPlace, oc, remaining, ycPage, ycHolds, containing, toScan>>
  BY DEF R!VisitPage, IInv, YoungInv
<1>1. Moved' = Moved /\ R!Fields' = R!Fields /\ \A f : R!Place(f)' = R!Place(f)
  BY <1>0 DEF Moved, Forwarded, R!Fields, R!Place
\* The page is only scanned when it is not being relocated.
<1>2. R!ShouldScanPage => oc = "done" /\ ~Handover
  <2>1. Handover => state = "reject"
    BY <1>0 DEF IInv, StateInv
  <2>2. ~Handover /\ oc # "done" => state = "reject"
    BY <1>0 DEF IInv, StateInv, R!TypeOK
  <2> QED BY <2>1, <2>2 DEF R!ShouldScanPage
<1> DEFINE places == IF R!ShouldScanPage THEN R!On(R!From, previous) ELSE {}
<1>3. R!Scan(places) /\ previous' = previous \ places
  <2>1. CASE R!ShouldScanPage
    BY <2>1 DEF R!VisitPage
  <2>2. CASE ~R!ShouldScanPage
    <3>1. current' = current /\ previous' = previous /\ unscanned' = unscanned
      BY <2>2 DEF R!VisitPage, R!bitVars
    <3> QED BY <2>2, <3>1 DEF R!Scan
  <2> QED BY <2>1, <2>2
<1>4. /\ places \subseteq previous
      /\ places # {} => oc = "done" /\ ~Handover
      /\ \A p \in places : p[1] = R!From
      /\ \A p \in previous : p[1] = R!From /\ R!ShouldScanPage => p \in places
  BY <1>2 DEF R!On
<1> HIDE DEF places
<1>5. current' = current \cup places /\ unscanned' \subseteq unscanned
  BY <1>3 DEF R!Scan
<1>6. R!TypeOK' /\ WorkerInv' /\ OrderInv'
  BY <1>0, <1>3, <1>4, <1>5 DEF IInv, R!TypeOK, WorkerInv, OrderInv, Forwarded
<1>7. YoungInv' /\ StateInv'
  <2>1. R!Copied(R!To)' = R!Copied(R!To) /\ Handover' = Handover
    BY <1>0 DEF R!Copied, Handover
  <2> QED BY <2>1, <1>0, <1>1, <1>5 DEF IInv, YoungInv, StateInv
<1>8. BitsInv'
  <2>1. (current \cup previous)' = current \cup previous
    BY <1>3, <1>4, <1>5
  <2>2. oc # "done" => Active' = Active /\ Passive' = Passive
    BY <1>0, <1>3, <1>4, <1>5 DEF Active, Passive, R!ActiveRemsetIsCurrent
  <2> QED BY <2>1, <2>2, <1>0, <1>1 DEF IInv, BitsInv, R!On
<1>9. HandoverInv'
  <2>1. Handover => places = {} /\ state = "reject"
    BY <1>0, <1>4 DEF IInv, StateInv
  <2>2. Handover => unscanned' = unscanned
    BY <2>1, <1>3 DEF R!Scan
  <2> QED BY <2>1, <2>2, <1>0, <1>5 DEF IInv, HandoverInv, Handover, Forwarded
<1>10. SettledInv'
  <2>1. ASSUME NEW f, Settled(f) PROVE Settled(f)'
    <3>1. ~(R!Place(f) \notin places /\ R!Place(f)[1] = R!From /\ WillScanSlot /\ R!Place(f) \in previous)
      BY <1>0, <1>4 DEF WillScanSlot, R!ShouldScanPage
    <3> QED BY <3>1, <2>1, <1>0, <1>1, <1>3, <1>5 DEF Settled, R!Scan
  <2> QED BY <2>1, <1>0 DEF IInv, SettledInv, Handover, Forwarded
<1> QED BY <1>6, <1>7, <1>8, <1>9, <1>10 DEF IInv

LEMMA VisitToStep == IInv /\ R!VisitTo => IInv'
<1> SUFFICES ASSUME IInv, R!VisitTo PROVE IInv'
  OBVIOUS
<1> USE DEF R!youngVars, R!pubVars, R!ocVars
<1>0. /\ toScan /\ toScan' = FALSE /\ marking /\ foundOld' = foundOld \cup {R!To}
      /\ UNCHANGED <<seqnum, marking, foundOldPrev, slot, forwardedTo, state, fields, publishSeq,
                     inPlace, oc, remaining, yc, ycPage, ycHolds, containing>>
  BY DEF R!VisitTo, IInv, YoungInv
<1>1. Moved' = Moved /\ R!Fields' = R!Fields /\ \A f : R!Place(f)' = R!Place(f)
  BY <1>0 DEF Moved, Forwarded, R!Fields, R!Place
<1> DEFINE places == R!On(R!To, previous)
<1>3. R!Scan(places) /\ previous' = previous \ places
  BY DEF R!VisitTo
<1>4. /\ places \subseteq previous
      /\ \A p \in places : p[1] = R!To
      /\ \A p \in previous : p[1] = R!To => p \in places
  BY DEF R!On
<1> HIDE DEF places
<1>5. current' = current \cup places /\ unscanned' \subseteq unscanned
  BY <1>3 DEF R!Scan
<1>6. R!TypeOK' /\ WorkerInv' /\ OrderInv'
  <2>1. current' \subseteq R!AllPlaces /\ previous' \subseteq R!AllPlaces
        /\ unscanned' \subseteq LiveObjects \cup {0} /\ foundOld' \subseteq {R!From, R!To}
        /\ toScan' \in BOOLEAN
    BY <1>0, <1>3, <1>4, <1>5 DEF IInv, R!TypeOK
  <2>2. R!TypeOK'
    BY <2>1, <1>0 DEF IInv, R!TypeOK
  <2>3. WorkerInv' /\ OrderInv'
    BY <1>0 DEF IInv, WorkerInv, OrderInv, Forwarded
  <2> QED BY <2>2, <2>3
<1>7. YoungInv' /\ StateInv'
  <2>1. R!Copied(R!To)' = R!Copied(R!To) /\ Handover' = Handover
    BY <1>0 DEF R!Copied, Handover
  <2> QED BY <2>1, <1>0, <1>1, <1>5 DEF IInv, YoungInv, StateInv
<1>8. BitsInv'
  <2>1. (current \cup previous)' = current \cup previous
    BY <1>3, <1>4, <1>5
  <2>2. R!On(R!From, current') = R!On(R!From, current) /\ R!On(R!From,
       previous') = R!On(R!From, previous)
    BY <1>3, <1>4, <1>5, Constants DEF R!On
  <2>3. R!On(R!From, Active)' = R!On(R!From, Active) /\ R!On(R!From, Passive)' = R!On(R!From,
       Passive)
    BY <2>2, <1>0 DEF Active, Passive, R!ActiveRemsetIsCurrent, R!On
  <2> QED BY <2>1, <2>3, <1>0, <1>1 DEF IInv, BitsInv, R!On
<1>9. HandoverInv'
  <2>1. ASSUME NEW f \in Remset, f \in unscanned, f \notin unscanned'
        PROVE  Forwarded(f) /\ forwardedTo[f] \in current'
    <3>1. R!Place(f) \in places
      BY <2>1, <1>3 DEF R!Scan
    <3>2. R!Place(f)[1] = R!To
      BY <3>1, <1>4
    <3>3. f \in LiveObjects
      BY RemsetFacts
    <3>4. Forwarded(f) /\ R!Place(f) = forwardedTo[f]
      BY <3>2, <3>3, PlaceOf, Constants DEF IInv
    <3> QED BY <3>1, <3>4, <1>5
  <2>2. Handover' = Handover /\ \A f : Forwarded(f)' = Forwarded(f)
    BY <1>0 DEF Handover, Forwarded
  <2> QED BY <2>1, <2>2, <1>0, <1>5 DEF IInv, HandoverInv
<1>10. SettledInv'
  <2>1. ASSUME NEW f, Settled(f) PROVE Settled(f)'
    <3>1. ~(R!Place(f) \notin places /\ R!Place(f)[1] = R!To /\ R!Place(f) \in previous)
      BY <1>4
    <3>2. WillScanSlot' = WillScanSlot
      BY <1>0 DEF WillScanSlot
    <3> QED BY <3>1, <3>2, <2>1, <1>0, <1>1, <1>3, <1>5 DEF Settled, R!Scan
  <2> QED BY <2>1, <1>0 DEF IInv, SettledInv, Handover, Forwarded
<1> QED BY <1>6, <1>7, <1>8, <1>9, <1>10 DEF IInv

\* A young collection that has visited its pages has visited every field.
LEMMA AllAreScanned ==
  ASSUME IInv, marking, R!AllVisited
  PROVE  unscanned = {}
<1>0. yc = "finished" /\ ~toScan /\ unscanned \subseteq R!Fields /\ seqnum # 0 /\ seqnum \in Nat
  BY DEF R!AllVisited, IInv, YoungInv, R!TypeOK
<1>1. ASSUME NEW f \in unscanned, Settled(f), f \in LiveObjects \cup {0} PROVE FALSE
  <2>1. R!Place(f)[1] \in {R!From, R!To}
    BY <1>1, PlaceOf DEF IInv, R!AllPlaces
  <2> QED BY <2>1, <1>0, <1>1 DEF Settled, WillScanSlot
<1>2. ASSUME NEW f \in unscanned PROVE FALSE
  <2>1. CASE slot = "new" /\ f = 0
    BY <2>1, <1>1, <1>2 DEF IInv, SettledInv
  <2>2. CASE f \in Remset /\ Handover
    BY <2>2, <1>0, <1>2 DEF IInv, HandoverInv
  <2>3. CASE f \in Remset /\ ~Handover
    BY <2>3, <1>0, <1>1, <1>2, RemsetFacts DEF IInv, SettledInv
  <2> QED BY <2>1, <2>2, <2>3, <1>0 DEF R!Fields
<1> QED BY <1>2

LEMMA MarkEndStep == IInv /\ R!MarkEnd => IInv'
<1> SUFFICES ASSUME IInv, R!MarkEnd PROVE IInv'
  OBVIOUS
<1> USE DEF R!bitVars, R!pubVars, R!ocVars, R!ycVars
<1>0. /\ marking /\ yc = "finished" /\ ~toScan /\ ~ycHolds /\ seqnum # 0 /\ seqnum \in Nat
      /\ oc \in {"start", "done"} /\ marking' = FALSE /\ foundOldPrev' = {}
      /\ UNCHANGED <<seqnum, current, previous, foundOld, slot, forwardedTo, state, fields,
                     publishSeq, inPlace, oc, remaining, yc, ycPage, ycHolds, containing, toScan,
                     unscanned>>
  BY DEF R!MarkEnd, R!AllVisited, R!Quiescent, IInv, R!TypeOK, YoungInv
<1>1. Moved' = Moved /\ R!Fields' = R!Fields /\ \A f : R!Place(f)' = R!Place(f)
  BY <1>0 DEF Moved, Forwarded, R!Fields, R!Place
<1>2. unscanned = {}
  BY <1>0, AllAreScanned DEF R!MarkEnd
<1>3. ~Handover'
  BY <1>0 DEF Handover
<1>4. R!TypeOK' /\ WorkerInv' /\ OrderInv'
  BY <1>0 DEF IInv, R!TypeOK, WorkerInv, OrderInv, Forwarded
<1>5. YoungInv'
  <2>1. R!Copied(R!To)' = R!Copied(R!To)
    BY <1>0 DEF R!Copied
  <2> QED BY <2>1, <1>0, <1>1 DEF IInv, YoungInv
<1>6. BitsInv'
  <2>1. Active' = Active /\ Passive' = Passive
    BY <1>0 DEF Active, Passive, R!ActiveRemsetIsCurrent
  <2> QED BY <2>1, <1>0, <1>1 DEF IInv, BitsInv, R!On
<1>7. StateInv' /\ HandoverInv'
  BY <1>0, <1>3 DEF IInv, StateInv, HandoverInv, Handover
<1>8. SettledInv'
  <2>1. \A f : Settled(f)' <=> R!Place(f) \in current
    BY <1>0, <1>1 DEF Settled
  <2>2. slot = "new" => Settled(0)'
    BY <2>1, <1>2 DEF IInv, SettledInv, Settled
  <2>3. ASSUME NEW f \in Remset PROVE Forwarded(f) /\ Settled(f)'
    <3>1. CASE Handover
      <4>1. Forwarded(f) /\ forwardedTo[f] \in current
        BY <3>1, <1>2 DEF IInv, HandoverInv
      <4> QED BY <4>1, <2>1, PlaceOf, RemsetFacts DEF IInv
    <3>2. CASE ~Handover
      BY <3>2, <2>1, <1>0, <1>2 DEF IInv, SettledInv, Settled
    <3> QED BY <3>1, <3>2
  <2> QED BY <2>2, <2>3, <1>0 DEF SettledInv, Forwarded
<1> QED BY <1>4, <1>5, <1>6, <1>7, <1>8 DEF IInv

\* An object gets a place: the next one of the page.  In place that is not above
\* its own, because the objects copied so far were below it.
LEMMA CopyStep ==
  ASSUME IInv, NEW o \in LiveObjects, NEW page \in {R!From, R!To}, R!CopyTo(o, page),
         UNCHANGED <<R!youngVars, R!bitVars, foundOldPrev, slot, R!pubVars, R!ocVars, R!ycVars, unscanned>>,
         page = R!From => inPlace = "yes" /\ \A r \in remaining : o <= r,
         page = R!To => inPlace # "yes"
  PROVE  IInv'
<1> USE DEF R!youngVars, R!bitVars, R!pubVars, R!ocVars, R!ycVars
<1> DEFINE n == 1 + Cardinality(R!Copied(page))
<1>0. ~Forwarded(o) /\ o \in remaining /\ oc \notin {"publish", "release", "detach", "done"}
      /\ slot = "from"
  BY DEF R!CopyTo, IInv, OrderInv, WorkerInv, Forwarded
<1>1. n \in Nat /\ (page = R!From => n <= o)
  <2>1. IsFiniteSet(R!Copied(page))
    BY FS_Subset, RemsetFacts DEF R!Copied
  <2>2. Cardinality(R!Copied(page)) \in Nat
    BY <2>1, FS_CardinalityType
  <2>3. ASSUME page = R!From PROVE Cardinality(R!Copied(page)) <= o - 1
    <3>1. R!Copied(page) \subseteq 1..(o-1)
      <4>1. ASSUME NEW g \in R!Copied(page) PROVE g \in Nat /\ g >= 1 /\ g <= o /\ g # o
        <5>1. g \in LiveObjects /\ forwardedTo[g][1] = R!From
          BY <2>3 DEF R!Copied
        <5>2. g <= o
          BY <5>1, <1>0 DEF IInv, OrderInv
        <5>3. forwardedTo[o][1] # R!From
          BY <1>0 DEF Forwarded, R!Unforwarded, R!From
        <5> QED BY <5>1, <5>2, <5>3, RemsetFacts
      <4>2. o \in Nat
        BY RemsetFacts
      <4> QED BY <4>1, <4>2
    <3>2. IsFiniteSet(1..(o-1)) /\ Cardinality(1..(o-1)) = o - 1
      <4>1. o \in Nat /\ o >= 1
        BY RemsetFacts
      <4>2. Cardinality(1..(o-1)) = IF 1 > o - 1 THEN 0 ELSE (o - 1) - 1 + 1
        BY <4>1, FS_Interval
      <4> QED BY <4>1, <4>2, FS_Interval
    <3>3. Cardinality(R!Copied(page)) <= Cardinality(1..(o-1))
      BY <3>1, <3>2, FS_Subset
    <3> QED BY <3>2, <3>3
  <2>4. o \in Nat
    BY RemsetFacts
  <2> QED BY <2>2, <2>3, <2>4
<1>2. /\ forwardedTo' = [forwardedTo EXCEPT ![o] = <<page, n>>]
      /\ foundOld' = IF page = R!To /\ R!Copied(R!To) = {} THEN foundOld \cup {R!To} ELSE foundOld
      /\ UNCHANGED <<seqnum, marking, current, previous, foundOldPrev, slot, state, fields,
                     publishSeq, inPlace, oc, remaining, yc, ycPage, ycHolds, containing, toScan,
                     unscanned>>
  BY DEF R!CopyTo, R!Cardinality, Cardinality
<1> HIDE DEF n
<1>3. <<page, n>> \in R!AllPlaces /\ <<page, n>> # R!Unforwarded
      /\ <<page, n>>[1] = page /\ <<page, n>>[2] = n
  BY <1>1, Constants DEF R!AllPlaces
<1>4. /\ forwardedTo \in [LiveObjects -> R!AllPlaces \cup {R!Unforwarded}]
      /\ forwardedTo' \in [LiveObjects -> R!AllPlaces \cup {R!Unforwarded}]
      /\ forwardedTo'[o] = <<page, n>>
      /\ \A f \in LiveObjects : f # o => forwardedTo'[f] = forwardedTo[f]
  BY <1>2, <1>3 DEF IInv, R!TypeOK
<1>5. /\ Forwarded(o)'
      /\ \A f \in LiveObjects : f # o => (Forwarded(f)' <=> Forwarded(f)) /\ R!Place(f)' = R!Place(f)
      /\ \A f \in LiveObjects : Forwarded(f) => Forwarded(f)' /\ forwardedTo'[f] = forwardedTo[f]
  BY <1>0, <1>3, <1>4, Constants, RemsetFacts DEF Forwarded, R!Place
<1>6. Moved \subseteq Moved' /\ Handover' = Handover /\ R!Fields' = R!Fields
  BY <1>2, <1>5, RemsetFacts DEF Moved, Handover, R!Fields
<1>7. R!TypeOK'
  <2>1. foundOld' \subseteq {R!From, R!To}
    BY <1>2 DEF IInv, R!TypeOK
  <2> QED BY <2>1, <1>2, <1>4 DEF IInv, R!TypeOK
<1>8. WorkerInv'
  BY <1>2 DEF IInv, WorkerInv
<1>9. OrderInv'
  <2>1. \A f \in LiveObjects : f \in remaining' \/ Forwarded(f)'
    BY <1>2, <1>5 DEF IInv, OrderInv
  <2>2. ASSUME NEW f \in LiveObjects, forwardedTo'[f][1] = R!From
        PROVE  inPlace' = "yes" /\ forwardedTo'[f][2] <= f /\ \A r \in remaining' : f <= r
    <3>1. CASE f = o
      BY <3>1, <2>2, <1>1, <1>2, <1>3, <1>4
    <3>2. CASE f # o
      BY <3>2, <2>2, <1>2, <1>4 DEF IInv, OrderInv
    <3> QED BY <3>1, <3>2
  <2> QED BY <2>1, <2>2 DEF OrderInv
<1>10. YoungInv'
  <2>1. foundOld \subseteq foundOld'
    BY <1>2
  <2>2. R!Copied(R!To)' # {} => R!To \in foundOld' \/ toScan
    <3>1. CASE page = R!To
      BY <3>1, <1>2 DEF IInv, YoungInv
    <3>2. CASE page = R!From
      <4>1. R!Copied(R!To)' \subseteq R!Copied(R!To)
        BY <3>2, <1>3, <1>4, Constants DEF R!Copied
      <4> QED BY <4>1, <2>1 DEF IInv, YoungInv
    <3> QED BY <3>1, <3>2
  <2> QED BY <2>1, <2>2, <1>2, <1>6 DEF IInv, YoungInv
<1>11. BitsInv'
  <2>1. Active' = Active /\ Passive' = Passive
    BY <1>2 DEF Active, Passive, R!ActiveRemsetIsCurrent
  <2> QED BY <2>1, <1>0, <1>2, <1>6 DEF IInv, BitsInv, R!On
<1>12. StateInv'
  BY <1>2, <1>6 DEF IInv, StateInv
<1>13. HandoverInv'
  <2>1. ASSUME Handover, NEW f \in Remset, f \in unscanned
        PROVE  /\ yc \notin {"page", "finished"}
               /\ yc = "containing" => f \in containing
               /\ f \notin remaining /\ state \in {"none", "published"} => forwardedTo'[f] \in fields
    BY <2>1, <1>0, <1>4, RemsetFacts DEF IInv, HandoverInv
  <2>2. ASSUME Handover, NEW f \in Remset, f \notin unscanned
        PROVE  Forwarded(f)' /\ forwardedTo'[f] \in current
    BY <2>2, <1>5, RemsetFacts DEF IInv, HandoverInv
  <2> QED BY <2>1, <2>2, <1>2, <1>6 DEF HandoverInv
<1>14. SettledInv'
  <2>1. ASSUME ~Handover, NEW f \in Remset, seqnum > 0 \/ f \notin remaining
        PROVE  Forwarded(f)' /\ Settled(f)'
    <3>1. Forwarded(f) /\ Settled(f) /\ f # o
      BY <2>1, <1>0 DEF IInv, SettledInv
    <3>2. R!Place(f)' = R!Place(f) /\ Forwarded(f)'
      BY <3>1, <1>5, RemsetFacts
    <3> QED BY <3>1, <3>2, <1>2 DEF Settled, WillScanSlot
  <2> QED BY <2>1, <1>0, <1>2, <1>6 DEF SettledInv
<1> QED BY <1>7, <1>8, <1>9, <1>10, <1>11, <1>12, <1>13, <1>14 DEF IInv

LEMMA RelocateStep == ASSUME IInv, NEW o \in LiveObjects, R!Relocate(o) PROVE IInv'
<1>1. R!CopyTo(o, R!To) /\ inPlace # "yes" /\ R!To # R!From
      /\ UNCHANGED <<R!youngVars, R!bitVars, foundOldPrev, slot, R!pubVars, R!ocVars, R!ycVars, unscanned>>
  BY Constants DEF R!Relocate, R!CanRetain
<1> QED BY <1>1, CopyStep

LEMMA CopyObjectStep == IInv /\ R!CopyObject => IInv'
<1> SUFFICES ASSUME IInv, R!CopyObject PROVE IInv'
  OBVIOUS
<1>1. PICK o \in remaining : R!IsNext(o) /\ R!CopyTo(o, IF inPlace = "yes" THEN R!From ELSE R!To)
  BY DEF R!CopyObject
<1>2. o \in LiveObjects /\ \A r \in remaining : o <= r
  BY <1>1 DEF R!IsNext, IInv, R!TypeOK
<1>3. UNCHANGED <<R!youngVars, R!bitVars, foundOldPrev, slot, R!pubVars, R!ocVars, R!ycVars,
     unscanned>>
  BY DEF R!CopyObject
<1>4. CASE inPlace = "yes"
  BY <1>1, <1>2, <1>3, <1>4, CopyStep, Constants
<1>5. CASE inPlace # "yes"
  BY <1>1, <1>2, <1>3, <1>5, CopyStep, Constants
<1> QED BY <1>4, <1>5

LEMMA RelocateContainingStep == IInv /\ R!RelocateContaining => IInv'
BY RelocateStep DEF R!RelocateContaining, IInv, R!TypeOK
-----------------------------------------------------------------------------
LEMMA InitInv == R!Init => IInv
<1> SUFFICES ASSUME R!Init PROVE IInv
  OBVIOUS
<1> USE RemsetFacts, Constants DEF R!Init
<1>0. Active = {R!From} \X Remset /\ Passive = {} /\ ~Handover
  BY DEF Active, Passive, R!ActiveRemsetIsCurrent, Handover
<1>1. R!TypeOK
  <2>1. {R!From} \X Remset \subseteq R!AllPlaces
    BY DEF R!AllPlaces
  <2>2. forwardedTo \in [LiveObjects -> R!AllPlaces \cup {R!Unforwarded}]
    OBVIOUS
  <2>3. ycPage \in BOOLEAN /\ ycHolds \in BOOLEAN /\ toScan \in BOOLEAN /\ marking \in BOOLEAN
    OBVIOUS
  <2>4. 0 \in 0..MaxYoungCycles
    OBVIOUS
  <2> HIDE DEF R!Init
  <2>5. current \subseteq R!AllPlaces /\ previous \subseteq R!AllPlaces /\ fields \subseteq R!AllPlaces
    BY <2>1 DEF R!Init
  <2>6. foundOld \subseteq {R!From, R!To} /\ foundOldPrev \subseteq {R!From, R!To}
    BY DEF R!Init
  <2> QED BY <2>2, <2>3, <2>4, <2>5, <2>6 DEF R!TypeOK, R!Init
<1>2. WorkerInv /\ OrderInv /\ YoungInv
  BY DEF WorkerInv, OrderInv, YoungInv, Forwarded, R!Copied, R!Fields, R!Unforwarded, R!From, R!To
<1>3. BitsInv
  <2>1. R!On(R!From, {R!From} \X Remset) = {R!From} \X Remset /\ R!On(R!To, {R!From} \X Remset) = {}
    BY DEF R!On
  <2>2. R!On(R!From, {}) = {}
    BY DEF R!On
  <2>3. current \cup previous = {R!From} \X Remset
    OBVIOUS
  <2> QED BY <1>0, <2>1, <2>2, <2>3 DEF BitsInv
<1>4. StateInv /\ HandoverInv
  BY <1>0 DEF StateInv, HandoverInv, YoungInv, Handover
<1>5. SettledInv
  BY <1>0 DEF SettledInv
<1> QED BY <1>1, <1>2, <1>3, <1>4, <1>5 DEF IInv

LEMMA StutterStep == IInv /\ UNCHANGED R!vars => IInv'
BY DEF IInv, R!vars, R!youngVars, R!bitVars, R!foundVars, R!pubVars, R!ocVars, R!ycVars,
     R!TypeOK, WorkerInv,
       OrderInv, YoungInv, BitsInv, StateInv, HandoverInv, SettledInv, Forwarded, R!Copied, R!Fields,
       Active, Passive, R!ActiveRemsetIsCurrent, R!On, Moved, R!Place, Handover, Settled, WillScanSlot

LEMMA StepInv == IInv /\ [R!Next]_(R!vars) => IInv'
<1> SUFFICES ASSUME IInv, [R!Next]_(R!vars) PROVE IInv'
  OBVIOUS
<1>1. CASE R!OC
  BY <1>1, BeginStep, CopyObjectStep, UpdateRemsetStep, ClaimInPlaceStep, StartInPlaceStep,
     AfterRelocateStep, PublishStep, ReleaseStep, DetachStep DEF R!OC
<1>2. CASE R!YC
  BY <1>2, FindEntryStep, RetainSucceedsStep, NotifyStep, FillStep, RelocateContainingStep,
     ScanContainingStep, ContainingScannedStep, ApplyPublishedStep, VisitPageStep, VisitToStep,
     MarkEndStep DEF R!YC
<1>3. CASE R!MarkStart \/ R!Reuse
  BY <1>3, MarkStartStep, ReuseStep
<1>4. CASE R!Mutator
  BY <1>4, RelocateStep DEF R!Mutator
<1>5. CASE UNCHANGED R!vars
  BY <1>5, StutterStep
<1> QED BY <1>1, <1>2, <1>3, <1>4, <1>5 DEF R!Next
-----------------------------------------------------------------------------
\* TypeOK holds in every reachable state (the fields of the model's records
\* of ZForwarding, ZRemembered and the worker loops).
THEOREM TypeCorrect == RelocatedRemsetSpec => []R!TypeOK
<1>1. IInv => R!TypeOK
  BY DEF IInv
<1> QED BY <1>1, InitInv, StepInv, PTL DEF RelocatedRemsetSpec, R!Spec

\* A young collection ends its marking only when every field that was
\* remembered when it started has been visited, however the old collection
\* was moving the objects meanwhile (zRemembered.cpp:281-301).
THEOREM EveryFieldIsScanned == RelocatedRemsetSpec => []EveryFieldScanned
<1>1. IInv => EveryFieldScanned
  BY AllAreScanned DEF EveryFieldScanned, R!EveryFieldScanned
<1> QED BY <1>1, InitInv, StepInv, PTL DEF RelocatedRemsetSpec, R!Spec

\* A page is only scanned for fields that are there (zRemembered.cpp:101-122).
THEOREM ScansAreOfCurrent == RelocatedRemsetSpec => []ScansAreCurrent
<1>1. IInv => ScansAreCurrent
  <2> SUFFICES ASSUME IInv PROVE ScansAreCurrent
    OBVIOUS
  <2>1. Moved \subseteq {R!Place(f) : f \in R!Fields}
    <3>1. \A f \in Remset : Forwarded(f) => f \in R!Fields /\ R!Place(f) = forwardedTo[f]
      BY PlaceOf, RemsetFacts DEF IInv, R!Fields
    <3> QED BY <3>1 DEF Moved
  <2>2. toScan => R!On(R!To, previous) \subseteq {R!Place(f) : f \in R!Fields}
    BY <2>1 DEF IInv, BitsInv, R!On
  <2>3. yc = "page" /\ R!ShouldScanPage => oc = "done"
    BY DEF IInv, StateInv, YoungInv, R!ShouldScanPage, Handover, R!TypeOK
  <2>4. yc = "page" /\ R!ShouldScanPage => R!On(R!From,
       previous) \subseteq {R!Place(f) : f \in R!Fields}
    BY <2>3 DEF IInv, BitsInv, R!On
  <2> QED BY <2>2, <2>4 DEF ScansAreCurrent, R!ScansAreCurrent
<1> QED BY <1>1, InitInv, StepInv, PTL DEF RelocatedRemsetSpec, R!Spec

-----------------------------------------------------------------------------
(* What a collection finds pages by, the page table, is iterated over while *)
(* pages leave it: an iteration keeps the guards of ZPageAllocator raised,  *)
(* and a page it looks at outlasts it, however many iterations there are.   *)

Iterators == {r \in Readers : iterating[r]}

\* Both guards count the iterations, and what an iteration looks at is there.
GuardsInv ==
  /\ iterating \in [Readers -> BOOLEAN]
  /\ DOMAIN reading = Readers /\ reading = [r \in Readers |-> reading[r]]
  /\ recycleGuard = [count |-> Cardinality(Iterators), objects |-> recycleGuard.objects]
  /\ destroyGuard = [count |-> Cardinality(Iterators), objects |-> destroyGuard.objects]
  /\ \A r \in Readers : reading[r] # Nil => iterating[r] /\ reading[r] \in ReadableObjects

LEMMA IteratorsFinite ==
  ASSUME IsFiniteSet(Readers)
  PROVE  /\ IsFiniteSet(Iterators) /\ Cardinality(Iterators) \in Nat
         /\ Cardinality(Iterators) = 0 <=> Iterators = {}
  BY FS_Subset, FS_CardinalityType, FS_EmptySet, Zenon DEF Iterators

\* Most steps leave the guards alone, and objects where they are or pass them
\* on.
LEMMA GuardsKept ==
  ASSUME GuardsInv, UNCHANGED guards,
         ReadableObjects \subseteq ReadableObjects'
  PROVE  GuardsInv'
  BY DEF GuardsInv, guards, Iterators

LEMMA GuardsInit ==
  ASSUME Init PROVE GuardsInv
<1>1. Iterators = {}
  BY DEF Init, Iterators
<1> QED
  BY <1>1, FS_EmptySet DEF Init, GuardsInv

LEMMA ThreadsKeepGuards ==
  ASSUME GuardsInv, NEW t \in Threads, Thread(t)
  PROVE  GuardsInv'
<1>1. UNCHANGED guards
  BY DEF Thread, AllocSucceeds, AllocFails, OutOfAddressSpace,
         HarvestPages, CommitSucceeds, CommitFails, FreeAllocFailed,
         Publish
<1>2. live \subseteq live' /\ UNCHANGED <<freeing, retired>>
  BY DEF Thread, AllocSucceeds, AllocFails, OutOfAddressSpace,
         HarvestPages, CommitSucceeds, CommitFails, FreeAllocFailed,
         Publish
<1> QED
  BY <1>1, <1>2, GuardsKept DEF ReadableObjects, guards

LEMMA UncommitterKeepsGuards ==
  ASSUME GuardsInv, Uncommitter \/ UnmapAndDestroy
  PROVE  GuardsInv'
<1>1. UNCHANGED <<guards, live, freeing, retired>>
  BY DEF Uncommitter, ClaimForUncommit, UncommitPage, FinishUncommit,
         DelayPasses, UnmapAndDestroy
<1> QED
  BY <1>1, GuardsKept DEF ReadableObjects, guards

LEMMA CollectorKeepsGuards ==
  ASSUME IsFiniteSet(Readers), GuardsInv, Collector
  PROVE  GuardsInv'
<1>1. CASE NotifyOutOfMemory
  BY <1>1, GuardsKept DEF NotifyOutOfMemory, ReadableObjects, guards
<1>2. ASSUME NEW pages \in SUBSET live, RemoveFromTable(pages)
      PROVE  GuardsInv'
  <2>1. live \cup freeing \subseteq live' \cup freeing'
    BY <1>2 DEF RemoveFromTable
  <2> QED
    BY <1>2, <2>1, GuardsKept DEF RemoveFromTable, ReadableObjects, guards
\* Freed pages are registered if anybody iterates.
<1>3. CASE FreePages
  <2>1. /\ recycleGuard' = Registered(freeing) /\ freeing' = {}
        /\ UNCHANGED <<live, retired, destroyGuard, iterating, reading>>
    BY <1>3 DEF FreePages
  <2>2. recycleGuard' = [count |-> Cardinality(Iterators), objects |-> recycleGuard'.objects]
    <3>1. PICK o : recycleGuard = [count |-> Cardinality(Iterators), objects |-> o]
      BY DEF GuardsInv
    <3>2. PICK q : recycleGuard' = [count |-> Cardinality(Iterators), objects |-> q]
      BY <2>1, <3>1 DEF Registered
    <3> QED BY <3>2
  <2>3. CASE Iterators = {}
    BY <2>1, <2>2, <2>3 DEF GuardsInv, Iterators
  <2>4. CASE Iterators # {}
    <3>1. ReadableObjects \subseteq ReadableObjects'
      BY <2>1, <2>4, IteratorsFinite DEF GuardsInv, Registered, ReadableObjects
    <3> QED
      BY <2>1, <2>2, <3>1 DEF GuardsInv, Iterators
  <2> QED BY <2>3, <2>4
<1>4. ASSUME NEW p \in live, FlipPromote(p)
      PROVE  GuardsInv'
  <2>1. ReadableObjects \subseteq ReadableObjects'
    BY <1>4 DEF FlipPromote, ReadableObjects, guards
  <2> QED
    BY <1>4, <2>1, GuardsKept DEF FlipPromote
\* Deletion waits if anybody iterates.
<1>5. CASE ResetRelocationSet
  <2>1. /\ destroyGuard' = Destroyed(retired)
        /\ UNCHANGED <<live, freeing, recycleGuard, iterating, reading>>
    BY <1>5 DEF ResetRelocationSet
  <2>2. destroyGuard' = [count |-> Cardinality(Iterators), objects |-> destroyGuard'.objects]
    <3>1. PICK o : destroyGuard = [count |-> Cardinality(Iterators), objects |-> o]
      BY DEF GuardsInv
    <3>2. PICK q : destroyGuard' = [count |-> Cardinality(Iterators), objects |-> q]
      BY <2>1, <3>1 DEF Destroyed
    <3> QED BY <3>2
  <2>3. CASE Iterators = {}
    BY <2>1, <2>2, <2>3 DEF GuardsInv, Iterators
  <2>4. CASE Iterators # {}
    <3>1. ReadableObjects \subseteq ReadableObjects'
      BY <2>1, <2>4, IteratorsFinite DEF GuardsInv, Destroyed, ReadableObjects
    <3> QED
      BY <2>1, <2>2, <3>1 DEF GuardsInv, Iterators
  <2> QED BY <2>3, <2>4
<1> QED BY <1>1, <1>2, <1>3, <1>4, <1>5 DEF Collector

LEMMA IterationKeepsGuards ==
  ASSUME IsFiniteSet(Readers), GuardsInv, NEW r \in Readers, Iteration(r)
  PROVE  GuardsInv'
<1>1. CASE StartIteration(r)
  <2>1. Iterators' = Iterators \cup {r} /\ r \notin Iterators
    BY <1>1 DEF StartIteration, Iterators, GuardsInv
  <2>2. Cardinality(Iterators') = Cardinality(Iterators) + 1
    BY <2>1, IteratorsFinite, FS_AddElement
  <2>3. ReadableObjects' = ReadableObjects
    BY <1>1 DEF StartIteration, Activated, ReadableObjects, GuardsInv
  <2> QED
    BY <1>1, <2>2, <2>3 DEF StartIteration, Activated, GuardsInv
<1>2. CASE ReadPageTable(r)
  <2>1. PICK p \in live : reading' = [reading EXCEPT ![r] = p.obj]
    BY <1>2 DEF ReadPageTable
  <2>2. p.obj \in ReadableObjects
    BY DEF ReadableObjects
  <2>3. ReadableObjects' = ReadableObjects
    BY <1>2 DEF ReadPageTable, ReadableObjects
  <2> QED
    BY <1>2, <2>1, <2>2, <2>3 DEF ReadPageTable, GuardsInv, Iterators
\* The last iteration to end is the only one that has looked at anything.
<1>3. CASE EndIteration(r)
  <2>1. Iterators' = Iterators \ {r} /\ r \in Iterators
    BY <1>3 DEF EndIteration, Iterators, GuardsInv
  <2>2. Cardinality(Iterators') = Cardinality(Iterators) - 1
    BY <2>1, IteratorsFinite, FS_RemoveElement
  <2>3. /\ recycleGuard' = [count |-> Cardinality(Iterators'), objects |-> recycleGuard'.objects]
        /\ destroyGuard' = [count |-> Cardinality(Iterators'), objects |-> destroyGuard'.objects]
    <3>1. PICK o, q : /\ recycleGuard = [count |-> Cardinality(Iterators), objects |-> o]
                      /\ destroyGuard = [count |-> Cardinality(Iterators), objects |-> q]
      BY DEF GuardsInv
    <3>2. recycleGuard' = [count |-> Cardinality(Iterators'), objects |-> recycleGuard'.objects]
      BY <1>3, <2>2, <3>1 DEF EndIteration, Deactivated
    <3>3. ASSUME NEW objects
          PROVE  Destroyed(objects).count = Cardinality(Iterators)
      BY <3>1 DEF Destroyed
    <3>4. PICK g : /\ g.count = Cardinality(Iterators)
                   /\ destroyGuard' = Deactivated(g)
      BY <1>3, <3>1, <3>3 DEF EndIteration
    <3>5. destroyGuard' = [count |-> Cardinality(Iterators'), objects |-> destroyGuard'.objects]
      BY <2>2, <3>4 DEF Deactivated
    <3> QED BY <3>2, <3>5
  <2>4. CASE Cardinality(Iterators) = 1
    <3>1. Iterators' = {}
      BY <2>1, <2>2, <2>4, IteratorsFinite, FS_Subset, FS_EmptySet DEF Iterators
    <3> QED
      BY <1>3, <2>3, <3>1 DEF EndIteration, GuardsInv, Iterators
  <2>5. CASE Cardinality(Iterators) # 1
    <3>1. ReadableObjects \subseteq ReadableObjects'
      BY <1>3, <2>5 DEF EndIteration, Deactivated, ReadableObjects, GuardsInv
    <3> QED
      BY <1>3, <2>3, <3>1 DEF EndIteration, GuardsInv
  <2> QED BY <2>4, <2>5
<1> QED BY <1>1, <1>2, <1>3 DEF Iteration

LEMMA GuardsStep ==
  ASSUME AllocatorAssumption, GuardsInv, [Next]_vars
  PROVE  GuardsInv'
<1>1. IsFiniteSet(Readers)
  BY DEF AllocatorAssumption
<1>2. CASE UNCHANGED vars
  BY <1>2, GuardsKept DEF vars, guards, ReadableObjects
<1> QED
  BY <1>1, <1>2, ThreadsKeepGuards, CollectorKeepsGuards, UncommitterKeepsGuards,
     IterationKeepsGuards DEF Next

\* An object an iteration over the page table looks at is neither deleted nor
\* given to the cache with its page, for any number of iterations that start
\* and end while pages are freed, promoted and forgotten
\* (ZPageAllocator::free_page, safe_destroy_page, ZSafeDelete, ZPageTable).
THEOREM ReadersSafe == Spec => []ReadersAreSafe
<1>1. GuardsInv => ReadersAreSafe
  BY DEF GuardsInv, ReadersAreSafe
<1>2. GuardsInv /\ [Next]_vars => GuardsInv'
  BY GuardsStep, AllocatorAssumption
<1> QED BY <1>1, <1>2, GuardsInit, PTL DEF Spec
=============================================================================

---------------------- MODULE ZRelocateTargets_proofs -----------------------
(***************************************************************************)
(* Proofs about ZRelocateTargets, for any number of workers and any pages  *)
(* with any objects: no two targets share a page, a free page is nobody's  *)
(* target, a page is retired once, and no empty page is left behind.       *)
(*                                                                         *)
(* The theorems are about every small object fitting the limit of what is  *)
(* relocated into free lists, as it does by default.  Then a worker has a  *)
(* survivor target only when the recyclable pages have run out, so that    *)
(* reviving a page never retires a target the worker goes on to use; and a *)
(* page that is relocated in place has room for the rest of its objects.   *)
(***************************************************************************)
EXTENDS ZRelocateTargets, FiniteSetTheorems, TLAPS

SmallObjectsFitLimit ==
  \A p \in FromPages : \A i \in DOMAIN Layout[p] : Layout[p][i] <= MaxRelocationInFreeLists

TargetsAssumptions == TargetsAssumption /\ SmallObjectsFitLimit

EndOf(p) == CHOOSE end \in [0..Len(Layout[p]) -> 0..PageSize] : IsEnds(Layout[p], end)

OutOfRecyclable == NextRecyclable = NoPage

PlacesOK ==
  /\ unclaimed \subseteq FromPages /\ inPlace \subseteq FromPages
  /\ work \in [Workers -> FromPages \cup {NoPage}]
  /\ cursor \in [Workers -> Nat]
  /\ pc \in [Workers -> {"claim", "try", "insert", "revive", "alloc", "start_in_place", "end"}]
  /\ target \in [Workers -> [Ages -> Pages \cup {NoPage}]]
  /\ recycle \in [Workers -> RecyclablePages \cup {NoPage}]
  /\ used \in [Pages -> 0..PageSize] /\ space \in [Pages -> 0..PageSize]
  /\ rPageIndex \in 0..Len(Recyclable)
  /\ free \subseteq Pages
  /\ retired \in [Pages -> Nat]

ForwardedOK == forwarded \subseteq UNION {{p} \X DOMAIN Layout[p] : p \in FromPages}

WorkInv ==
  /\ \A w \in Workers : work[w] = NoPage <=> pc[w] \in {"claim", "end"}
  /\ \A w \in Workers : work[w] # NoPage => cursor[w] \in 1..(Len(Layout[work[w]]) + 1)
  /\ \A w \in Workers : pc[w] \in {"insert", "revive", "alloc", "start_in_place"}
                          => cursor[w] \in 1..Len(Layout[work[w]])
  /\ \A v, w \in Workers : work[v] = work[w] /\ work[v] # NoPage => v = w
  /\ \A w \in Workers : work[w] \notin free \cup unclaimed
  /\ unclaimed \cap (free \cup inPlace) = {}
  /\ \A w \in Workers : pc[w] = "end" => unclaimed = {} /\ recycle[w] = NoPage
                                         /\ \A a \in Ages : target[w][a] = NoPage

ReviveInv ==
  \A w \in Workers :
    /\ pc[w] = "revive" => To(w) = "survivor"
    /\ (pc[w] \in {"alloc", "start_in_place"} /\ To(w) = "survivor")
         \/ target[w]["survivor"] # NoPage => OutOfRecyclable /\ recycle[w] = NoPage
    /\ pc[w] = "start_in_place" => target[w][To(w)] = NoPage

\* A target page is held once, and is the page a worker relocates only in place.
TargetInv ==
  /\ \A w \in Workers, a \in Ages :
       target[w][a] \notin free \cup unclaimed \cup RecyclablePages
  /\ \A v, w \in Workers, a, b \in Ages :
       target[v][a] = target[w][b] /\ target[v][a] # NoPage => v = w /\ a = b
  /\ \A v, w \in Workers, a \in Ages :
       target[v][a] = work[w] /\ work[w] # NoPage
         => v = w /\ a = To(w) /\ work[w] \in inPlace

\* What has been relocated of a page in place is no more than was before it.
InPlaceRoomInv ==
  \A w \in Workers :
    work[w] # NoPage /\ work[w] \in inPlace =>
      /\ target[w][To(w)] = work[w]
      /\ pc[w] \in {"try", "insert"}
      /\ pc[w] = "try" => used[work[w]] <= EndOf(work[w])[cursor[w] - 1]
      /\ pc[w] = "insert" => used[work[w]] <= EndOf(work[w])[cursor[w]]

RecycleInv ==
  /\ \A w \in Workers : recycle[w] # NoPage =>
       \E i \in DOMAIN Recyclable : i <= rPageIndex /\ recycle[w] = Recyclable[i]
  /\ \A v, w \in Workers : recycle[v] = recycle[w] /\ recycle[v] # NoPage => v = w
  /\ RecyclablePages \cap free = {}

\* Pages in use have not been retired; a page that is nowhere has been, once.
RetiredInv ==
  /\ \A p \in free : used[p] = 0
  /\ \A p \in Pages : retired[p] <= 1
  /\ \A p \in unclaimed \cup RecyclablePages : retired[p] = 0
  /\ \A w \in Workers : work[w] # NoPage => retired[work[w]] = 0
  /\ \A w \in Workers, a \in Ages : target[w][a] # NoPage => retired[target[w][a]] = 0
  /\ \A p \in Pages \ RecyclablePages :
       \/ p \in free \cup unclaimed
       \/ \E w \in Workers : work[w] = p \/ \E a \in Ages : target[w][a] = p
       \/ used[p] > 0 /\ retired[p] = 1

TargetsInv ==
  PlacesOK /\ ForwardedOK /\ WorkInv /\ ReviveInv /\ TargetInv /\ InPlaceRoomInv /\ RecycleInv /\ RetiredInv

LEMMA TypesSplit == TypeOK <=> PlacesOK /\ ForwardedOK
  BY DEF TypeOK, PlacesOK, ForwardedOK

LEMMA EndsOfLayout ==
  ASSUME TargetsAssumptions, NEW p \in FromPages
  PROVE  IsEnds(Layout[p], EndOf(p))
  BY DEF TargetsAssumptions, TargetsAssumption, EndOf

LEMMA LayoutFacts ==
  ASSUME TargetsAssumptions, NEW p \in FromPages
  PROVE  /\ p \in Pages /\ p # NoPage /\ p \notin RecyclablePages
         /\ Len(Layout[p]) \in Nat /\ DOMAIN Layout[p] = 1..Len(Layout[p])
         /\ \A i \in 1..Len(Layout[p]) : Layout[p][i] \in 1..PageSize
                                         /\ Layout[p][i] <= MaxRelocationInFreeLists
         /\ ToAge[p] \in Ages
<1>1. Layout[p] \in Seq(1..PageSize)
  BY DEF TargetsAssumptions, TargetsAssumption
<1>2. \A i \in DOMAIN Recyclable : Recyclable[i] \in Pages \ FromPages
  BY DEF TargetsAssumptions, TargetsAssumption
<1> QED
  BY <1>1, <1>2 DEF TargetsAssumptions, TargetsAssumption, SmallObjectsFitLimit,
                    RecyclablePages

LEMMA RecyclableFacts ==
  ASSUME TargetsAssumptions
  PROVE  /\ RecyclablePages \subseteq Pages \ FromPages
         /\ NoPage \notin Pages /\ FromPages \subseteq Pages /\ PageSize \in Nat \ {0}
         /\ DOMAIN Recyclable = 1..Len(Recyclable) /\ Len(Recyclable) \in Nat
         /\ \A i, j \in DOMAIN Recyclable : Recyclable[i] = Recyclable[j] => i = j
  BY DEF TargetsAssumptions, TargetsAssumption, RecyclablePages

LEMMA TargetsInit ==
  ASSUME TargetsAssumptions, Init PROVE TargetsInv
<1>1. PlacesOK /\ ForwardedOK
  BY RecyclableFacts DEF Init, PlacesOK, ForwardedOK, TargetsAssumptions,
     TargetsAssumption, Ages
<1>2. WorkInv
  BY RecyclableFacts DEF Init, WorkInv
<1>3. ReviveInv /\ InPlaceRoomInv
  BY DEF Init, ReviveInv, InPlaceRoomInv, Ages
<1>4. TargetInv /\ RecycleInv /\ RetiredInv
  BY RecyclableFacts DEF Init, TargetInv, RecycleInv, RetiredInv, Ages
<1> QED BY <1>1, <1>2, <1>3, <1>4 DEF TargetsInv

LEMMA Working ==
  ASSUME TargetsAssumptions, TargetsInv, NEW w \in Workers, pc[w] \notin {"claim", "end"}
  PROVE  /\ work[w] \in FromPages /\ work[w] # NoPage
         /\ To(w) \in Ages
         /\ work[w] \notin RecyclablePages /\ work[w] \in Pages
  BY LayoutFacts, RecyclableFacts DEF TargetsInv, WorkInv, PlacesOK, To

\* The next object of a page, if there is one.
LEMMA NextObject ==
  ASSUME TargetsAssumptions, TargetsInv, NEW w \in Workers, pc[w] = "try"
  PROVE  /\ cursor[w] \in 1..(Len(Layout[work[w]]) + 1)
         /\ DOMAIN Layout[work[w]] = 1..Len(Layout[work[w]]) /\ Len(Layout[work[w]]) \in Nat
         /\ cursor[w] \in 1..Len(Layout[work[w]]) =>
              /\ Size(w) \in 1..PageSize /\ FitsFreeLists(w)
              /\ EndOf(work[w])[cursor[w]] = EndOf(work[w])[cursor[w] - 1] + Size(w)
              /\ EndOf(work[w])[cursor[w]] \in 0..PageSize
              /\ EndOf(work[w])[cursor[w] - 1] \in 0..PageSize
<1>1. work[w] \in FromPages
  BY Working
<1> DEFINE p == work[w]
           n == Len(Layout[p])
<1>2. /\ EndOf(p) \in [0..n -> 0..PageSize]
      /\ \A i \in 1..n : EndOf(p)[i] = EndOf(p)[i - 1] + Layout[p][i]
  BY <1>1, EndsOfLayout DEF IsEnds
<1>3. n \in Nat /\ DOMAIN Layout[p] = 1..n
  BY <1>1, LayoutFacts
<1>4. cursor[w] \in 1..(n + 1)
  BY <1>1, RecyclableFacts DEF TargetsInv, WorkInv
<1>5. cursor[w] \in 1..n => Layout[p][cursor[w]] \in 1..PageSize
                            /\ Layout[p][cursor[w]] <= MaxRelocationInFreeLists
  BY <1>1, LayoutFacts
<1>6. cursor[w] \in 1..n => cursor[w] \in 0..n /\ cursor[w] - 1 \in 0..n
  BY <1>3
<1> QED
  BY <1>2, <1>3, <1>4, <1>5, <1>6 DEF Size, FitsFreeLists

\* A step that moves nothing between pages, of a worker that may drop its
\* recycle target.
LEMMA LocalStep ==
  ASSUME TargetsAssumptions, TargetsInv, NEW w \in Workers, pc[w] \notin {"claim", "end"},
         PlacesOK', ForwardedOK',
         UNCHANGED <<unclaimed, inPlace, work, target, used, rPageIndex, free, retired>>,
         recycle' = recycle \/ recycle' = [recycle EXCEPT ![w] = NoPage],
         \A v \in Workers \ {w} : pc'[v] = pc[v] /\ cursor'[v] = cursor[v],
         pc'[w] \notin {"claim", "end"},
         cursor'[w] \in 1..(Len(Layout[work[w]]) + 1),
         pc'[w] # "try" => cursor'[w] \in 1..Len(Layout[work[w]]),
         pc'[w] = "revive" => To(w) = "survivor",
         pc'[w] \in {"alloc", "start_in_place"} /\ To(w) = "survivor"
           => OutOfRecyclable /\ recycle'[w] = NoPage,
         pc'[w] # "start_in_place",
         work[w] \in inPlace =>
           /\ pc'[w] \in {"try", "insert"}
           /\ pc'[w] = "try" => used[work[w]] <= EndOf(work[w])[cursor'[w] - 1]
           /\ pc'[w] = "insert" => used[work[w]] <= EndOf(work[w])[cursor'[w]]
  PROVE  TargetsInv'
<1>1. work[w] # NoPage
  BY Working
<1>2. \A v \in Workers : recycle'[v] \in {recycle[v], NoPage}
  BY DEF TargetsInv, PlacesOK
<1>3. WorkInv'
  <2>1. \A v \in Workers : work[v] = NoPage <=> pc'[v] \in {"claim", "end"}
    BY <1>1 DEF TargetsInv, WorkInv
  <2>2. \A v \in Workers : work[v] # NoPage => cursor'[v] \in 1..(Len(Layout[work[v]]) + 1)
    BY DEF TargetsInv, WorkInv
  <2>3. \A v \in Workers : pc'[v] \in {"insert", "revive", "alloc", "start_in_place"}
                             => cursor'[v] \in 1..Len(Layout[work[v]])
    BY DEF TargetsInv, WorkInv
  <2>4. \A v \in Workers : pc'[v] = "end" => unclaimed = {} /\ recycle'[v] = NoPage
                                         /\ \A a \in Ages : target[v][a] = NoPage
    BY <1>2 DEF TargetsInv, WorkInv
  <2> QED BY <2>1, <2>2, <2>3, <2>4 DEF TargetsInv, WorkInv
<1>4. ReviveInv'
  BY <1>2 DEF TargetsInv, ReviveInv, OutOfRecyclable, NextRecyclable, To
<1>5. TargetInv'
  BY DEF TargetsInv, TargetInv, To
<1>6. InPlaceRoomInv'
  BY DEF TargetsInv, InPlaceRoomInv, To
<1>7. RecycleInv'
  BY <1>2 DEF TargetsInv, RecycleInv
<1>8. RetiredInv'
  BY DEF TargetsInv, RetiredInv
<1> QED BY <1>3, <1>4, <1>5, <1>6, <1>7, <1>8 DEF TargetsInv


LEMMA TargetsFound ==
  ASSUME TargetsAssumptions, TargetsInv, NEW w \in Workers, Found(w)
  PROVE  TargetsInv'
<1> USE DEF Found, pageVars
<1>1. pc[w] = "try" /\ cursor[w] \in 1..Len(Layout[work[w]])
  BY NextObject
<1>2. cursor' = [cursor EXCEPT ![w] = cursor[w] + 1] /\ cursor \in [Workers -> Nat]
  BY DEF TargetsInv, PlacesOK
<1>3. PlacesOK' /\ ForwardedOK'
  BY <1>2 DEF TargetsInv, PlacesOK, ForwardedOK
<1>4. cursor'[w] = cursor[w] + 1 /\ \A v \in Workers \ {w} : cursor'[v] = cursor[v]
  BY <1>2
<1>5. cursor'[w] \in 1..(Len(Layout[work[w]]) + 1) /\ cursor'[w] - 1 = cursor[w]
  BY <1>1, <1>4, NextObject
<1>6. work[w] \in inPlace => used[work[w]] <= EndOf(work[w])[cursor[w]]
  <2> SUFFICES ASSUME work[w] \in inPlace PROVE used[work[w]] <= EndOf(work[w])[cursor[w]]
    OBVIOUS
  <2>1. used[work[w]] <= EndOf(work[w])[cursor[w] - 1] /\ used[work[w]] \in 0..PageSize
    BY <1>1, Working DEF TargetsInv, InPlaceRoomInv, PlacesOK
  <2> DEFINE end == EndOf(work[w])
  <2>2. end[cursor[w]] = end[cursor[w] - 1] + Size(w) /\ Size(w) \in 1..PageSize
        /\ end[cursor[w]] \in 0..PageSize /\ end[cursor[w] - 1] \in 0..PageSize
    BY <1>1, NextObject
  <2> HIDE DEF end
  <2>3. used[work[w]] <= end[cursor[w]]
    BY <2>1, <2>2, RecyclableFacts DEF end
  <2> QED BY <2>3 DEF end
<1> QED BY <1>1, <1>3, <1>4, <1>5, <1>6, LocalStep

LEMMA TargetsAllocInFreeList ==
  ASSUME TargetsAssumptions, TargetsInv, NEW w \in Workers, AllocInFreeList(w)
  PROVE  TargetsInv'
<1> USE DEF AllocInFreeList, workVars, Trying, Goto
<1>1. pc[w] = "try" /\ cursor[w] \in 1..Len(Layout[work[w]])
  BY NextObject
<1>2. recycle[w] \in RecyclablePages /\ To(w) # "old"
  BY DEF TargetsInv, PlacesOK, UsesFreeList
<1>3. pc' = [pc EXCEPT ![w] = "insert"] /\ pc'[w] = "insert"
      /\ \A v \in Workers \ {w} : pc'[v] = pc[v]
  BY DEF TargetsInv, PlacesOK
<1>4. space' \in [Pages -> 0..PageSize]
  <2>1. recycle[w] \in Pages /\ space[recycle[w]] \in 0..PageSize /\ Size(w) \in 1..PageSize
        /\ Size(w) <= space[recycle[w]]
    BY <1>1, <1>2, RecyclableFacts, NextObject DEF TargetsInv, PlacesOK
  <2>2. space[recycle[w]] - Size(w) \in 0..PageSize
    BY <2>1, RecyclableFacts
  <2> QED BY <2>2 DEF TargetsInv, PlacesOK
<1>5. PlacesOK' /\ ForwardedOK'
  BY <1>3, <1>4 DEF TargetsInv, PlacesOK, ForwardedOK
\* A worker with a target for survivors has no free list.
<1>6. work[w] \notin inPlace
  BY <1>2, Working, <1>1 DEF TargetsInv, InPlaceRoomInv, ReviveInv, Ages, UsesFreeList
<1> QED BY <1>1, <1>3, <1>5, <1>6, NextObject, LocalStep

LEMMA TargetsAllocFails ==
  ASSUME TargetsAssumptions, TargetsInv, NEW w \in Workers, AllocFails(w)
  PROVE  TargetsInv'
<1> USE DEF AllocFails, workVars, pageVars, Trying, Goto
<1>1. pc[w] = "try" /\ cursor[w] \in 1..Len(Layout[work[w]]) /\ FitsFreeLists(w)
  BY NextObject
<1>2. pc' = [pc EXCEPT ![w] = IF To(w) # "old" THEN "revive" ELSE "alloc"]
  BY <1>1
<1>3. \A v \in Workers \ {w} : pc'[v] = pc[v]
  BY <1>2 DEF TargetsInv, PlacesOK
<1>4. \/ pc'[w] = "revive" /\ To(w) = "survivor"
      \/ pc'[w] = "alloc" /\ To(w) = "old"
  BY <1>1, <1>2, Working DEF TargetsInv, PlacesOK, Ages
<1>5. PlacesOK' /\ ForwardedOK'
  BY <1>2 DEF TargetsInv, PlacesOK, ForwardedOK
\* The rest of a page in place fits.
<1>6. work[w] \notin inPlace
  <2> SUFFICES ASSUME work[w] \in inPlace PROVE FALSE
    OBVIOUS
  <2>1. target[w][To(w)] = work[w] /\ work[w] # NoPage
        /\ used[work[w]] <= EndOf(work[w])[cursor[w] - 1] /\ used[work[w]] \in 0..PageSize
    BY <1>1, Working DEF TargetsInv, InPlaceRoomInv, PlacesOK
  <2> DEFINE end == EndOf(work[w])
  <2>4. end[cursor[w]] = end[cursor[w] - 1] + Size(w) /\ Size(w) \in 1..PageSize
        /\ end[cursor[w]] \in 0..PageSize /\ end[cursor[w] - 1] \in 0..PageSize
    BY <1>1, NextObject
  <2>5. used[work[w]] <= end[cursor[w] - 1]
    BY <2>1
  <2> HIDE DEF end
  <2>6. used[work[w]] + Size(w) <= PageSize
    BY <2>1, <2>4, <2>5, RecyclableFacts
  <2>2. FitsTarget(w)
    BY <2>1, <2>6 DEF FitsTarget, Target
  <2>3. ~UsesFreeList(w)
    BY <1>1, <2>1, Working DEF TargetsInv, ReviveInv, UsesFreeList, Ages
  <2> QED BY <2>2, <2>3
<1> QED BY <1>1, <1>3, <1>4, <1>5, <1>6, NextObject, LocalStep

LEMMA TargetsInsert ==
  ASSUME TargetsAssumptions, TargetsInv, NEW w \in Workers, Insert(w)
  PROVE  TargetsInv'
<1> USE DEF Insert, pageVars, Goto
<1>1. pc[w] = "insert" /\ cursor[w] \in 1..Len(Layout[work[w]])
  BY DEF TargetsInv, WorkInv
<1>2. work[w] \in FromPages /\ Len(Layout[work[w]]) \in Nat
      /\ DOMAIN Layout[work[w]] = 1..Len(Layout[work[w]])
  BY <1>1, Working, LayoutFacts
<1>3. pc'[w] = "try" /\ cursor'[w] = cursor[w] + 1 /\ cursor'[w] - 1 = cursor[w]
  BY <1>1, <1>2 DEF TargetsInv, PlacesOK
<1>4. \A v \in Workers \ {w} : pc'[v] = pc[v] /\ cursor'[v] = cursor[v]
  BY DEF TargetsInv, PlacesOK
<1>5. PlacesOK'
  BY <1>1 DEF TargetsInv, PlacesOK
<1>6. ForwardedOK'
  BY <1>1, <1>2 DEF TargetsInv, ForwardedOK, Object
<1>7. cursor'[w] \in 1..(Len(Layout[work[w]]) + 1)
  BY <1>1, <1>2, <1>3
<1>8. work[w] \in inPlace => used[work[w]] <= EndOf(work[w])[cursor[w]]
  BY <1>1, Working DEF TargetsInv, InPlaceRoomInv
<1> QED BY <1>1, <1>3, <1>4, <1>5, <1>6, <1>7, <1>8, LocalStep

LEMMA TargetsReviveFails ==
  ASSUME TargetsAssumptions, TargetsInv, NEW w \in Workers, ReviveFails(w)
  PROVE  TargetsInv'
<1> USE DEF ReviveFails, pageVars, workVars, Goto
<1>1. pc[w] = "revive" /\ cursor[w] \in 1..Len(Layout[work[w]])
  BY DEF TargetsInv, WorkInv
<1>2. pc'[w] = "alloc" /\ recycle'[w] = NoPage /\ OutOfRecyclable
      /\ \A v \in Workers \ {w} : pc'[v] = pc[v]
  BY DEF TargetsInv, PlacesOK, OutOfRecyclable
<1>3. PlacesOK' /\ ForwardedOK'
  BY DEF TargetsInv, PlacesOK, ForwardedOK
<1>4. work[w] \notin inPlace
  BY <1>1, Working DEF TargetsInv, InPlaceRoomInv
<1>5. Len(Layout[work[w]]) \in Nat
  BY <1>1, Working, LayoutFacts
<1>6. cursor'[w] \in 1..(Len(Layout[work[w]]) + 1) /\ cursor'[w] \in 1..Len(Layout[work[w]])
  BY <1>1, <1>5
<1>7. pc[w] \notin {"claim", "end"} /\ pc'[w] \notin {"claim", "end"}
  BY <1>1, <1>2
<1>8. UNCHANGED <<unclaimed, inPlace, work, target, used, rPageIndex, free, retired, cursor>>
      /\ recycle' = [recycle EXCEPT ![w] = NoPage]
  OBVIOUS
<1> HIDE DEF ReviveFails
<1> QED BY <1>2, <1>3, <1>4, <1>6, <1>7, <1>8, LocalStep

LEMMA TargetsClaim ==
  ASSUME TargetsAssumptions, TargetsInv, NEW w \in Workers, Claim(w)
  PROVE  TargetsInv'
<1> USE RecyclableFacts, LayoutFacts DEF Claim, Goto, pageVars
<1>0. PICK p \in unclaimed : /\ p \in FromPages
                             /\ unclaimed' = unclaimed \ {p} /\ work' = [work EXCEPT ![w] = p]
  BY DEF TargetsInv, PlacesOK
<1>1. PlacesOK' /\ ForwardedOK'
  <2>1. unclaimed' \subseteq FromPages /\ work' \in [Workers -> FromPages \cup {NoPage}]
    BY <1>0 DEF TargetsInv, PlacesOK
  <2>2. /\ cursor' \in [Workers -> Nat]
        /\ pc' \in [Workers -> {"claim", "try", "insert", "revive", "alloc", "start_in_place",
                                "end"}]
    BY DEF TargetsInv, PlacesOK
  <2> QED BY <2>1, <2>2 DEF TargetsInv, PlacesOK, ForwardedOK
<1>2. WorkInv'
  <2>1. /\ pc'[w] = "try" /\ work'[w] = p /\ cursor'[w] = 1 /\ p # NoPage
        /\ \A v \in Workers \ {w} :
             pc'[v] = pc[v] /\ work'[v] = work[v] /\ cursor'[v] = cursor[v]
    BY <1>0 DEF TargetsInv, PlacesOK
  <2>2. \A v \in Workers : work[v] # p
    BY <1>0 DEF TargetsInv, WorkInv
  <2>3. 1 \in 1..(Len(Layout[p]) + 1)
    BY <1>0
  <2>4. unclaimed' \subseteq unclaimed \ {p} /\ unclaimed # {}
    BY <1>0
  <2> QED BY <2>1, <2>2, <2>3, <2>4, <1>0, SMTT(20) DEF TargetsInv, WorkInv
<1>3. ReviveInv'
  BY DEF TargetsInv, ReviveInv, WorkInv, PlacesOK, OutOfRecyclable, NextRecyclable, To
<1>4. TargetInv'
  <2>1. p \notin free \cup inPlace /\ \A v \in Workers, a \in Ages : target[v][a] # p
    BY <1>0 DEF TargetsInv, TargetInv, WorkInv, PlacesOK
  <2>2. work'[w] = p /\ \A v \in Workers \ {w} : work'[v] = work[v]
    BY <1>0 DEF TargetsInv, PlacesOK
  <2>3. cursor'[w] = 1 /\ \A v \in Workers \ {w} : cursor'[v] = cursor[v]
    BY DEF TargetsInv, PlacesOK
  <2> QED BY <1>0, <2>1, <2>2, <2>3 DEF TargetsInv, TargetInv, To
<1>5. InPlaceRoomInv'
  BY DEF TargetsInv, InPlaceRoomInv, WorkInv, PlacesOK, To
<1>6. RecycleInv'
  BY DEF TargetsInv, RecycleInv
<1>7. RetiredInv'
  <2>1. unclaimed' = unclaimed \ {p} /\ work' = [work EXCEPT ![w] = p]
    BY <1>0
  <2>2. work'[w] = p /\ work[w] = NoPage /\ \A v \in Workers \ {w} : work'[v] = work[v]
    BY <2>1 DEF TargetsInv, PlacesOK, WorkInv
  <2>3. \A v \in Workers : work'[v] # NoPage => retired[work'[v]] = 0
    BY <2>2 DEF TargetsInv, RetiredInv
  <2>4. ASSUME NEW q \in Pages \ RecyclablePages
        PROVE  \/ q \in free \cup unclaimed'
               \/ \E v \in Workers : work'[v] = q \/ \E a \in Ages : target[v][a] = q
               \/ used[q] > 0 /\ retired[q] = 1
    BY <2>1, <2>2 DEF TargetsInv, RetiredInv
  <2> QED BY <2>1, <2>3, <2>4 DEF TargetsInv, RetiredInv
<1> QED BY <1>1, <1>2, <1>3, <1>4, <1>5, <1>6, <1>7 DEF TargetsInv

LEMMA TargetsAllocInTarget ==
  ASSUME TargetsAssumptions, TargetsInv, NEW w \in Workers, AllocInTarget(w)
  PROVE  TargetsInv'
<1> USE DEF AllocInTarget, workVars, Trying, Goto
<1> DEFINE t == Target(w)
           n == Size(w)
           a == To(w)
<1>1. /\ pc[w] = "try" /\ cursor[w] \in 1..Len(Layout[work[w]]) /\ n \in 1..PageSize
      /\ work[w] \in FromPages /\ work[w] # NoPage /\ a \in Ages /\ t = target[w][a]
  BY NextObject, Working DEF Target
<1>2. t \in Pages /\ used[t] + n <= PageSize /\ used[t] \in 0..PageSize
  BY <1>1 DEF TargetsInv, PlacesOK, FitsTarget, Target
<1>3. used[t] + n \in 1..PageSize
  BY <1>1, <1>2, RecyclableFacts
<1>4. /\ used' \in [Pages -> 0..PageSize] /\ used'[t] = used[t] + n
      /\ \A p \in Pages : p # t => used'[p] = used[p]
  BY <1>2, <1>3 DEF TargetsInv, PlacesOK
<1>5. pc' \in [Workers -> {"claim", "try", "insert", "revive", "alloc", "start_in_place", "end"}]
      /\ pc'[w] = "insert" /\ \A v \in Workers \ {w} : pc'[v] = pc[v]
  BY DEF TargetsInv, PlacesOK
<1> UNCHANGED <<forwarded, unclaimed, inPlace, work, cursor, target, recycle, space, rPageIndex,
                free, retired>>
  OBVIOUS
<1> HIDE DEF t, n, a, AllocInTarget, Trying, Goto
<1>6. PlacesOK' /\ ForwardedOK'
  BY <1>4, <1>5 DEF TargetsInv, PlacesOK, ForwardedOK
<1>7. WorkInv'
  <2>1. \A v \in Workers : work[v] = NoPage <=> pc'[v] \in {"claim", "end"}
    BY <1>1, <1>5 DEF TargetsInv, WorkInv
  <2>2. \A v \in Workers : pc'[v] \in {"insert", "revive", "alloc", "start_in_place"}
                             => cursor[v] \in 1..Len(Layout[work[v]])
    BY <1>1, <1>5 DEF TargetsInv, WorkInv
  <2>3. \A v \in Workers : pc'[v] = "end" => pc[v] = "end"
    BY <1>5
  <2> QED BY <2>1, <2>2, <2>3 DEF TargetsInv, WorkInv
<1>8. ReviveInv'
  BY <1>5 DEF TargetsInv, ReviveInv, OutOfRecyclable, NextRecyclable, To
<1>9. TargetInv'
  BY DEF TargetsInv, TargetInv, To
<1>10. InPlaceRoomInv'
  <2> SUFFICES ASSUME NEW v \in Workers, work[v] # NoPage, work[v] \in inPlace
               PROVE  /\ target[v][To(v)] = work[v]
                      /\ pc'[v] \in {"try", "insert"}
                      /\ pc'[v] = "try" => used'[work[v]] <= EndOf(work[v])[cursor[v] - 1]
                      /\ pc'[v] = "insert" => used'[work[v]] <= EndOf(work[v])[cursor[v]]
    BY DEF InPlaceRoomInv, To
  <2>1. CASE v # w
    <3>1. work[v] \in Pages /\ work[v] # t
      BY <1>1, <2>1, RecyclableFacts DEF TargetsInv, TargetInv, PlacesOK
    <3> QED BY <1>4, <1>5, <2>1, <3>1 DEF TargetsInv, InPlaceRoomInv
  <2>2. CASE v = w
    <3>1. target[w][a] = work[w] /\ used[work[w]] <= EndOf(work[w])[cursor[w] - 1]
      BY <1>1, <2>2 DEF TargetsInv, InPlaceRoomInv, a
    <3> DEFINE end == EndOf(work[w])
    <3>2. /\ end[cursor[w]] = end[cursor[w] - 1] + n
          /\ end[cursor[w]] \in 0..PageSize /\ end[cursor[w] - 1] \in 0..PageSize
      BY <1>1, NextObject DEF n
    <3>3. used[work[w]] <= end[cursor[w] - 1]
      BY <3>1
    <3> HIDE DEF end
    <3>4. used'[work[w]] <= end[cursor[w]]
      BY <1>1, <1>2, <1>4, <3>1, <3>2, <3>3, RecyclableFacts
    <3> QED BY <1>5, <2>2, <3>1, <3>4 DEF end, a
  <2> QED BY <2>1, <2>2
<1>11. RecycleInv'
  BY DEF TargetsInv, RecycleInv
<1>12. RetiredInv'
  <2>1. t \notin free
    BY <1>1 DEF TargetsInv, TargetInv
  <2>2. \A p \in Pages : used'[p] = used[p] \/ (p = t /\ used'[p] > 0)
    BY <1>3, <1>4
  <2>3. \A p \in free : used'[p] = 0
    BY <1>4, <2>1 DEF TargetsInv, RetiredInv, PlacesOK
  <2>4. \A p \in Pages : used[p] > 0 => used'[p] > 0
    BY <2>2
  <2> QED BY <2>3, <2>4 DEF TargetsInv, RetiredInv
<1> QED BY <1>6, <1>7, <1>8, <1>9, <1>10, <1>11, <1>12 DEF TargetsInv

\* Reviving retires no target, since there is none as long as pages can be
\* revived.
LEMMA TargetsRevive ==
  ASSUME TargetsAssumptions, TargetsInv, NEW w \in Workers, Revive(w)
  PROVE  TargetsInv'
<1>1. /\ pc[w] = "revive" /\ To(w) = "survivor" /\ rPageIndex + 1 \in DOMAIN Recyclable
      /\ rPageIndex' = rPageIndex + 1
      /\ recycle' = [recycle EXCEPT ![w] = Recyclable[rPageIndex + 1]]
      /\ pc' = [pc EXCEPT ![w] = "try"]
      /\ UNCHANGED <<forwarded, unclaimed, inPlace, work, cursor, target, used, space>>
  BY DEF TargetsInv, ReviveInv, Revive, NextRecyclable, Goto, workVars
<1>2. Recyclable[rPageIndex + 1] \in RecyclablePages /\ Recyclable[rPageIndex + 1] # NoPage
  BY <1>1, RecyclableFacts DEF RecyclablePages
<1>3. target[w]["survivor"] = NoPage
  BY <1>1, <1>2 DEF TargetsInv, ReviveInv, OutOfRecyclable, NextRecyclable
<1>4. OldTarget(w) = {}
  BY <1>1, <1>3 DEF OldTarget, Target
<1>5. UNCHANGED <<free, retired>>
  BY <1>4 DEF Revive, Freed, CountRetired, TargetsInv, PlacesOK
<1>6. PlacesOK' /\ ForwardedOK'
  <2>1. recycle' \in [Workers -> RecyclablePages \cup {NoPage}]
    BY <1>1, <1>2 DEF TargetsInv, PlacesOK
  <2>2. pc' \in [Workers -> {"claim", "try", "insert", "revive", "alloc", "start_in_place", "end"}]
    BY <1>1 DEF TargetsInv, PlacesOK
  <2>3. rPageIndex' \in 0..Len(Recyclable)
    BY <1>1, RecyclableFacts DEF TargetsInv, PlacesOK
  <2> QED BY <1>1, <1>5, <2>1, <2>2, <2>3 DEF TargetsInv, PlacesOK, ForwardedOK
<1>7. /\ pc'[w] = "try" /\ recycle'[w] = Recyclable[rPageIndex + 1]
      /\ \A v \in Workers \ {w} : pc'[v] = pc[v] /\ recycle'[v] = recycle[v]
  BY <1>1 DEF TargetsInv, PlacesOK
<1>8. WorkInv'
  BY <1>1, <1>5, <1>7 DEF TargetsInv, WorkInv
<1>9. ReviveInv'
  <2>1. ~OutOfRecyclable
    BY <1>1, <1>2 DEF OutOfRecyclable, NextRecyclable
  <2> QED BY <1>1, <1>3, <1>7, <2>1 DEF TargetsInv, ReviveInv, To
<1>10. TargetInv'
  BY <1>1, <1>5 DEF TargetsInv, TargetInv, To
<1>11. InPlaceRoomInv'
  BY <1>1, <1>7 DEF TargetsInv, InPlaceRoomInv, To
<1>12. RecycleInv'
  <2>1. \A v \in Workers : recycle[v] # NoPage => recycle[v] # Recyclable[rPageIndex + 1]
    BY <1>1, RecyclableFacts DEF TargetsInv, RecycleInv, PlacesOK
  <2>2. \A v \in Workers : recycle'[v] # NoPage =>
          \E i \in DOMAIN Recyclable : i <= rPageIndex' /\ recycle'[v] = Recyclable[i]
    <3>1. rPageIndex \in Nat
      BY DEF TargetsInv, PlacesOK
    <3>2. ASSUME NEW v \in Workers \ {w}, recycle[v] # NoPage
          PROVE  \E i \in DOMAIN Recyclable : i <= rPageIndex' /\ recycle[v] = Recyclable[i]
      BY <1>1, <3>1, <3>2, RecyclableFacts DEF TargetsInv, RecycleInv
    <3> QED BY <1>1, <1>7, <3>1, <3>2
  <2> QED BY <1>5, <1>7, <2>1, <2>2 DEF TargetsInv, RecycleInv
<1>13. RetiredInv'
  BY <1>1, <1>5 DEF TargetsInv, RetiredInv
<1> QED BY <1>6, <1>8, <1>9, <1>10, <1>11, <1>12, <1>13 DEF TargetsInv

\* A worker gives up the target t and takes q: a free page, no page, or the
\* page it relocates.
LEMMA Retarget ==
  ASSUME TargetsAssumptions, TargetsInv, NEW w \in Workers, NEW q, PlacesOK', ForwardedOK',
         pc[w] \in {"alloc", "start_in_place"},
         target'[w][To(w)] = q,
         \A v \in Workers, b \in Ages :
           v # w \/ b # To(w) => target'[v][b] = target[v][b],
         UNCHANGED <<unclaimed, work, cursor, rPageIndex, recycle>>,
         pc'[w] = IF q = NoPage THEN "start_in_place" ELSE "try",
         \A v \in Workers \ {w} : pc'[v] = pc[v],
         q \in free \cup {NoPage, work[w]},
         free' = (free \ {q}) \cup {p \in {target[w][To(w)]} \ {NoPage} : used[p] = 0},
         inPlace' = IF q = work[w] THEN inPlace \cup {work[w]} ELSE inPlace,
         \A p \in Pages : used'[p] = IF p = q THEN 0 ELSE used[p],
         \A p \in Pages : retired'[p] = IF p = q THEN 0
                                        ELSE IF p = target[w][To(w)] THEN retired[p] + 1
                                        ELSE retired[p]
  PROVE  TargetsInv'
<1> DEFINE a == To(w)
           t == target[w][a]
<1>1. /\ work[w] \in FromPages /\ work[w] # NoPage /\ work[w] \in Pages /\ a \in Ages
      /\ work[w] \notin free \cup unclaimed \cup RecyclablePages
  BY Working DEF TargetsInv, WorkInv
<1>2. work[w] \notin inPlace
  BY <1>1 DEF TargetsInv, InPlaceRoomInv
<1>3. t \in Pages \cup {NoPage} /\ t \notin free \cup unclaimed \cup RecyclablePages
  BY <1>1 DEF TargetsInv, PlacesOK, TargetInv
<1>4. t # NoPage => /\ \A v \in Workers : work[v] # t
                    /\ \A v \in Workers, b \in Ages :
                         target[v][b] = t => v = w /\ b = a
                    /\ retired[t] = 0
  BY <1>1, <1>2 DEF TargetsInv, TargetInv, RetiredInv
<1>5. q # NoPage => /\ q \in Pages /\ q \notin unclaimed \cup RecyclablePages /\ q # t
                    /\ \A v \in Workers \ {w} : work[v] # q
                    /\ \A v \in Workers, b \in Ages : target[v][b] # q
  <2>1. CASE q = work[w]
    <3>1. \A v \in Workers \ {w} : work[v] # q
      BY <1>1, <2>1 DEF TargetsInv, WorkInv
    <3>2. \A v \in Workers, b \in Ages : target[v][b] # q
      BY <1>1, <1>2, <2>1 DEF TargetsInv, TargetInv
    <3> QED BY <1>1, <2>1, <3>1, <3>2
  <2>2. CASE q \in free
    <3>1. q \in Pages /\ q \notin unclaimed \cup RecyclablePages
      BY <2>2 DEF TargetsInv, PlacesOK, WorkInv, RecycleInv
    <3>2. \A v \in Workers : work[v] # q
      BY <2>2 DEF TargetsInv, WorkInv
    <3>3. \A v \in Workers, b \in Ages : target[v][b] # q
      BY <2>2 DEF TargetsInv, TargetInv
    <3> QED BY <1>1, <3>1, <3>2, <3>3
  <2> QED BY <2>1, <2>2
<1>6. NoPage \notin Pages /\ free \subseteq Pages
  BY RecyclableFacts DEF TargetsInv, PlacesOK
<1>7. \A p : p \in free' <=> \/ p \in free /\ p # q
                             \/ p = t /\ t # NoPage /\ used[t] = 0
  OBVIOUS
<1>8. \A v \in Workers : work[v] \in inPlace' => work[v] \in inPlace \/ (v = w /\ q = work[w])
  BY <1>1 DEF TargetsInv, WorkInv
<1> HIDE DEF t, a
<1>9. WorkInv'
  <2>1. \A v \in Workers : work[v] = NoPage <=> pc'[v] \in {"claim", "end"}
    BY <1>1 DEF TargetsInv, WorkInv
  <2>2. \A v \in Workers : pc'[v] \in {"insert", "revive", "alloc", "start_in_place"}
                             => cursor[v] \in 1..Len(Layout[work[v]])
    BY DEF TargetsInv, WorkInv
  <2>3. \A v \in Workers : pc'[v] = "end" => v # w /\ pc[v] = "end"
    OBVIOUS
  <2>4. \A v \in Workers : work[v] \notin free' \cup unclaimed
    BY <1>4, <1>6, <1>7 DEF TargetsInv, WorkInv, PlacesOK
  <2>5. unclaimed \cap (free' \cup inPlace') = {}
    BY <1>1, <1>3, <1>7 DEF TargetsInv, WorkInv
  <2> QED BY <2>1, <2>2, <2>3, <2>4, <2>5 DEF TargetsInv, WorkInv
<1>10. ReviveInv'
  <2>1. OutOfRecyclable' <=> OutOfRecyclable
    BY DEF OutOfRecyclable, NextRecyclable
  <2> SUFFICES ASSUME NEW v \in Workers
               PROVE  /\ pc'[v] = "revive" => To(v) = "survivor"
                      /\ (pc'[v] \in {"alloc", "start_in_place"} /\ To(v) = "survivor")
                           \/ target'[v]["survivor"] # NoPage
                         => OutOfRecyclable /\ recycle[v] = NoPage
                      /\ pc'[v] = "start_in_place" => target'[v][To(v)] = NoPage
    BY <2>1 DEF ReviveInv, To
  <2>2. "survivor" \in Ages
    BY DEF Ages
  <2>3. CASE v # w
    <3>1. pc'[v] = pc[v] /\ target'[v]["survivor"] = target[v]["survivor"]
      BY <2>2, <2>3
    <3>2. pc[v] = "start_in_place" => target'[v][To(v)] = target[v][To(v)]
      BY <2>3, Working
    <3> QED BY <3>1, <3>2 DEF TargetsInv, ReviveInv
  <2>4. CASE v = w
    <3>1. To(w) = "survivor" \/ target[w]["survivor"] # NoPage
            => OutOfRecyclable /\ recycle[w] = NoPage
      BY DEF TargetsInv, ReviveInv
    <3>2. To(w) # "survivor" => target'[w]["survivor"] = target[w]["survivor"]
      BY <2>2
    <3> QED BY <2>4, <3>1, <3>2
  <2> QED BY <2>3, <2>4
<1>11. TargetInv'
  <2>1. \A v \in Workers, b \in Ages :
          target'[v][b] \notin free' \cup unclaimed \cup RecyclablePages
    <3> SUFFICES ASSUME NEW v \in Workers, NEW b \in Ages
                 PROVE  target'[v][b] \notin free' \cup unclaimed \cup RecyclablePages
      OBVIOUS
    <3>1. CASE v = w /\ b = a
      <4>1. target'[v][b] = q
        BY <3>1 DEF a
      <4>2. CASE q = NoPage
        BY <1>6, <1>7, <4>1, <4>2, RecyclableFacts DEF TargetsInv, PlacesOK
      <4>3. CASE q # NoPage
        BY <1>5, <1>7, <4>1, <4>3
      <4> QED BY <4>2, <4>3
    <3>2. CASE v # w \/ b # a
      <4>1. target'[v][b] = target[v][b]
        BY <3>2 DEF a
      <4>2. target[v][b] \notin free \cup unclaimed \cup RecyclablePages
        BY DEF TargetsInv, TargetInv
      <4>3. target[v][b] = t /\ t # NoPage => FALSE
        BY <1>4, <3>2
      <4> QED BY <1>7, <4>1, <4>2, <4>3
    <3> QED BY <3>1, <3>2
  <2>2. \A v, u \in Workers, b, c \in Ages :
          target'[v][b] = target'[u][c] /\ target'[v][b] # NoPage => v = u /\ b = c
    BY <1>5 DEF TargetsInv, TargetInv, a
  <2>3. \A v, u \in Workers, b \in Ages :
          target'[v][b] = work[u] /\ work[u] # NoPage
            => v = u /\ b = To(u) /\ work[u] \in inPlace'
    <3> SUFFICES ASSUME NEW v \in Workers, NEW u \in Workers, NEW b \in Ages,
                        target'[v][b] = work[u], work[u] # NoPage
                 PROVE  v = u /\ b = To(u) /\ work[u] \in inPlace'
      OBVIOUS
    <3>1. CASE v = w /\ b = a
      BY <1>5, <3>1 DEF a
    <3>2. CASE v # w \/ b # a
      BY <3>2 DEF TargetsInv, TargetInv, a
    <3> QED BY <3>1, <3>2
  <2> QED BY <2>1, <2>2, <2>3 DEF TargetInv, To
<1>12. InPlaceRoomInv'
  <2> SUFFICES ASSUME NEW v \in Workers, work[v] # NoPage, work[v] \in inPlace'
               PROVE  /\ target'[v][To(v)] = work[v]
                      /\ pc'[v] \in {"try", "insert"}
                      /\ pc'[v] = "try" => used'[work[v]] <= EndOf(work[v])[cursor[v] - 1]
                      /\ pc'[v] = "insert" => used'[work[v]] <= EndOf(work[v])[cursor[v]]
    BY DEF InPlaceRoomInv, To
  <2>1. CASE v # w
    <3>1. work[v] \in inPlace /\ work[v] # q /\ work[v] \in Pages
      BY <1>5, <1>8, <2>1, LayoutFacts DEF TargetsInv, PlacesOK
    <3>2. target'[v][To(v)] = target[v][To(v)]
      <4>1. To(v) \in Ages
        BY LayoutFacts DEF TargetsInv, PlacesOK, To
      <4> QED BY <2>1, <4>1
    <3> QED BY <2>1, <3>1, <3>2 DEF TargetsInv, InPlaceRoomInv
  <2>2. CASE v = w
    <3>1. q = work[w]
      BY <1>2, <1>8, <2>2
    <3>2. used'[work[w]] = 0 /\ pc'[w] = "try"
      BY <1>1, <3>1
    <3>3. IsEnds(Layout[work[w]], EndOf(work[w])) /\ cursor[w] \in 1..Len(Layout[work[w]])
      BY <1>1, EndsOfLayout DEF TargetsInv, WorkInv
    <3>4. Len(Layout[work[w]]) \in Nat
      BY <1>1, LayoutFacts
    <3>5. cursor[w] - 1 \in 0..Len(Layout[work[w]])
      BY <3>3, <3>4
    <3>6. EndOf(work[w])[cursor[w] - 1] \in 0..PageSize
      BY <3>3, <3>5 DEF IsEnds
    <3> QED BY <2>2, <3>1, <3>2, <3>6, RecyclableFacts
  <2> QED BY <2>1, <2>2
<1>13. RecycleInv'
  BY <1>3, <1>7 DEF TargetsInv, RecycleInv
<1>14. RetiredInv'
  <2>1. \A p \in free' : used'[p] = 0
    BY <1>3, <1>5, <1>6, <1>7 DEF TargetsInv, RetiredInv
  <2>2. \A p \in Pages : retired'[p] <= 1
    BY <1>4, <1>6 DEF TargetsInv, RetiredInv, t, a
  <2>3. \A p \in unclaimed \cup RecyclablePages : retired'[p] = 0
    <3>1. unclaimed \cup RecyclablePages \subseteq Pages
      BY RecyclableFacts DEF TargetsInv, PlacesOK
    <3> QED BY <1>3, <3>1 DEF TargetsInv, RetiredInv, t, a
  <2>4. \A v \in Workers : work[v] # NoPage => retired'[work[v]] = 0
    BY <1>4, <1>6, RecyclableFacts DEF TargetsInv, RetiredInv, PlacesOK, t, a
  <2>5. \A v \in Workers, b \in Ages : target'[v][b] # NoPage => retired'[target'[v][b]] = 0
    <3> SUFFICES ASSUME NEW v \in Workers, NEW b \in Ages, target'[v][b] # NoPage
                 PROVE  retired'[target'[v][b]] = 0
      OBVIOUS
    <3>1. CASE v = w /\ b = a
      BY <1>5, <3>1 DEF a
    <3>2. CASE v # w \/ b # a
      <4>1. target'[v][b] = target[v][b] /\ target[v][b] # t /\ target[v][b] \in Pages
        BY <1>4, <3>2 DEF a, TargetsInv, PlacesOK
      <4> QED BY <4>1 DEF TargetsInv, RetiredInv, t, a
    <3> QED BY <3>1, <3>2
  <2>6. ASSUME NEW p \in Pages \ RecyclablePages
        PROVE  \/ p \in free' \cup unclaimed
               \/ \E v \in Workers : work[v] = p \/ \E b \in Ages : target'[v][b] = p
               \/ used'[p] > 0 /\ retired'[p] = 1
    <3>1. CASE p = q
      BY <1>1, <3>1 DEF a
    <3>2. CASE p # q /\ p = t
      <4>1. t # NoPage /\ used'[p] = used[p] /\ used[p] \in Nat /\ retired'[p] = 1
        BY <1>4, <1>6, <3>2 DEF TargetsInv, PlacesOK, t, a
      <4> QED BY <1>7, <3>2, <4>1
    <3>3. CASE p # q /\ p # t
      <4>1. used'[p] = used[p] /\ retired'[p] = retired[p]
        BY <3>3 DEF t, a
      <4>2. \A v \in Workers, b \in Ages : target[v][b] = p => target'[v][b] = p
        BY <3>3 DEF t, a
      <4> QED BY <1>7, <3>3, <4>1, <4>2 DEF TargetsInv, RetiredInv
    <3> QED BY <3>1, <3>2, <3>3
  <2> QED BY <2>1, <2>2, <2>3, <2>4, <2>5, <2>6 DEF RetiredInv
<1> QED BY <1>9, <1>10, <1>11, <1>12, <1>13, <1>14 DEF TargetsInv

LEMMA TargetsAlloc ==
  ASSUME TargetsAssumptions, TargetsInv, NEW w \in Workers, Alloc(w)
  PROVE  TargetsInv'
<1> DEFINE a == To(w)
<1>1. /\ pc[w] = "alloc" /\ work[w] # NoPage /\ work[w] \notin free /\ a \in Ages
  BY Working DEF Alloc, TargetsInv, WorkInv
<1>2. PICK p \in free :
        /\ target' = [target EXCEPT ![w][a] = p]
        /\ free' = (free \ {p}) \cup {q \in {target[w][a]} \ {NoPage} : used[q] = 0}
        /\ used' = [used EXCEPT ![p] = 0]
        /\ retired' = [q \in Pages |-> IF q = p THEN 0
                                       ELSE IF q \in {target[w][a]} \ {NoPage} THEN retired[q] + 1
                                       ELSE retired[q]]
  BY DEF Alloc, SetTarget, OldTarget, Target, Freed
<1>3. /\ pc' = [pc EXCEPT ![w] = "try"]
      /\ UNCHANGED <<forwarded, unclaimed, inPlace, work, cursor, recycle, space, rPageIndex>>
  BY DEF Alloc, Goto, workVars
<1>4. p \in Pages /\ p # NoPage /\ p # work[w]
  BY <1>1, RecyclableFacts DEF TargetsInv, PlacesOK
<1> HIDE DEF a
<1>5. /\ target'[w][a] = p
      /\ \A v \in Workers, b \in Ages : v # w \/ b # a => target'[v][b] = target[v][b]
      /\ target' \in [Workers -> [Ages -> Pages \cup {NoPage}]]
  BY <1>1, <1>2, <1>4 DEF TargetsInv, PlacesOK
<1>6. /\ \A q \in Pages : used'[q] = IF q = p THEN 0 ELSE used[q]
      /\ used' \in [Pages -> 0..PageSize]
  BY <1>2, <1>4, RecyclableFacts DEF TargetsInv, PlacesOK
<1>7. /\ \A q \in Pages : retired'[q] = IF q = p THEN 0
                                        ELSE IF q = target[w][a] THEN retired[q] + 1
                                        ELSE retired[q]
      /\ retired' \in [Pages -> Nat]
  BY <1>2, <1>4, RecyclableFacts DEF TargetsInv, PlacesOK
<1>8. /\ pc'[w] = "try" /\ \A v \in Workers \ {w} : pc'[v] = pc[v]
      /\ pc' \in [Workers -> {"claim", "try", "insert", "revive", "alloc", "start_in_place", "end"}]
  BY <1>3 DEF TargetsInv, PlacesOK
<1>9. free' \subseteq Pages
  BY <1>1, <1>2 DEF TargetsInv, PlacesOK
<1>10. PlacesOK' /\ ForwardedOK'
  BY <1>3, <1>5, <1>6, <1>7, <1>8, <1>9 DEF TargetsInv, PlacesOK, ForwardedOK
<1> QED BY <1>1, <1>2, <1>3, <1>4, <1>5, <1>6, <1>7, <1>8, <1>10, Retarget DEF a

LEMMA TargetsAllocPageFails ==
  ASSUME TargetsAssumptions, TargetsInv, NEW w \in Workers, AllocPageFails(w)
  PROVE  TargetsInv'
<1> DEFINE a == To(w)
<1>1. /\ pc[w] = "alloc" /\ work[w] # NoPage /\ a \in Ages
  BY Working DEF AllocPageFails
<1>2. /\ target' = [target EXCEPT ![w][a] = NoPage]
      /\ free' = free \cup {q \in {target[w][a]} \ {NoPage} : used[q] = 0}
      /\ retired' = [q \in Pages |-> IF q \in {target[w][a]} \ {NoPage} THEN retired[q] + 1
                                     ELSE retired[q]]
      /\ pc' = [pc EXCEPT ![w] = "start_in_place"]
      /\ UNCHANGED <<forwarded, unclaimed, inPlace, work, cursor, recycle, used, space, rPageIndex>>
  BY DEF AllocPageFails, SetTarget, OldTarget, Target,
         Freed, CountRetired, Goto, workVars
<1>3. NoPage \notin Pages /\ NoPage \notin free
  BY RecyclableFacts DEF TargetsInv, PlacesOK
<1> HIDE DEF a
<1>4. free' = (free \ {NoPage}) \cup {q \in {target[w][a]} \ {NoPage} : used[q] = 0}
  BY <1>2, <1>3
<1>5. /\ target'[w][a] = NoPage
      /\ \A v \in Workers, b \in Ages : v # w \/ b # a => target'[v][b] = target[v][b]
      /\ target' \in [Workers -> [Ages -> Pages \cup {NoPage}]]
  BY <1>1, <1>2 DEF TargetsInv, PlacesOK
<1>6. \A q \in Pages : used'[q] = IF q = NoPage THEN 0 ELSE used[q]
  BY <1>2, <1>3
<1>7. /\ \A q \in Pages : retired'[q] = IF q = NoPage THEN 0
                                        ELSE IF q = target[w][a] THEN retired[q] + 1
                                        ELSE retired[q]
      /\ retired' \in [Pages -> Nat]
  BY <1>2, <1>3 DEF TargetsInv, PlacesOK
<1>8. /\ pc'[w] = "start_in_place" /\ \A v \in Workers \ {w} : pc'[v] = pc[v]
      /\ pc' \in [Workers -> {"claim", "try", "insert", "revive", "alloc", "start_in_place", "end"}]
  BY <1>2 DEF TargetsInv, PlacesOK
<1>9. free' \subseteq Pages
  BY <1>1, <1>2 DEF TargetsInv, PlacesOK
<1>10. PlacesOK' /\ ForwardedOK'
  BY <1>2, <1>5, <1>7, <1>8, <1>9 DEF TargetsInv, PlacesOK, ForwardedOK
<1> QED BY <1>1, <1>2, <1>4, <1>5, <1>6, <1>7, <1>8, <1>10, Retarget DEF a

LEMMA TargetsStartInPlace ==
  ASSUME TargetsAssumptions, TargetsInv, NEW w \in Workers, StartInPlace(w)
  PROVE  TargetsInv'
<1> DEFINE a == To(w)
<1>1. /\ pc[w] = "start_in_place" /\ work[w] # NoPage /\ work[w] \in FromPages /\ work[w] \in Pages
      /\ a \in Ages
  BY Working DEF StartInPlace
<1>2. /\ target' = [target EXCEPT ![w][a] = work[w]]
      /\ inPlace' = inPlace \cup {work[w]}
      /\ used' = [used EXCEPT ![work[w]] = 0]
      /\ pc' = [pc EXCEPT ![w] = "try"]
      /\ UNCHANGED <<forwarded, unclaimed, work, cursor, recycle, space, rPageIndex, free, retired>>
  BY DEF StartInPlace, SetTarget, Goto
<1>3. target[w][a] = NoPage /\ work[w] \notin free /\ retired[work[w]] = 0 /\ NoPage \notin Pages
  BY <1>1, RecyclableFacts DEF TargetsInv, ReviveInv, WorkInv, RetiredInv
<1> HIDE DEF a
<1>4. free' = (free \ {work[w]}) \cup {q \in {target[w][a]} \ {NoPage} : used[q] = 0}
  BY <1>2, <1>3
<1>5. /\ target'[w][a] = work[w]
      /\ \A v \in Workers, b \in Ages : v # w \/ b # a => target'[v][b] = target[v][b]
      /\ target' \in [Workers -> [Ages -> Pages \cup {NoPage}]]
  BY <1>1, <1>2 DEF TargetsInv, PlacesOK
<1>6. /\ \A q \in Pages : used'[q] = IF q = work[w] THEN 0 ELSE used[q]
      /\ used' \in [Pages -> 0..PageSize]
  BY <1>1, <1>2, RecyclableFacts DEF TargetsInv, PlacesOK
<1>7. \A q \in Pages : retired'[q] = IF q = work[w] THEN 0
                                     ELSE IF q = target[w][a] THEN retired[q] + 1
                                     ELSE retired[q]
  BY <1>2, <1>3
<1>8. /\ pc'[w] = "try" /\ \A v \in Workers \ {w} : pc'[v] = pc[v]
      /\ pc' \in [Workers -> {"claim", "try", "insert", "revive", "alloc", "start_in_place", "end"}]
  BY <1>2 DEF TargetsInv, PlacesOK
<1>9. PlacesOK' /\ ForwardedOK'
  BY <1>1, <1>2, <1>5, <1>6, <1>8 DEF TargetsInv, PlacesOK, ForwardedOK
<1> QED BY <1>1, <1>2, <1>4, <1>5, <1>6, <1>7, <1>8, <1>9, Retarget DEF a

LEMMA TargetsFinishPage ==
  ASSUME TargetsAssumptions, TargetsInv, NEW w \in Workers, FinishPage(w)
  PROVE  TargetsInv'
<1> DEFINE p == work[w]
<1>1. /\ pc[w] = "try" /\ p \in FromPages /\ p # NoPage /\ p \in Pages
      /\ p \notin RecyclablePages /\ p \notin free \cup unclaimed /\ To(w) \in Ages
  BY Working DEF FinishPage, TargetsInv, WorkInv
<1>2. /\ work' = [work EXCEPT ![w] = NoPage] /\ cursor' = [cursor EXCEPT ![w] = 0]
      /\ pc' = [pc EXCEPT ![w] = "claim"]
      /\ UNCHANGED <<forwarded, unclaimed, inPlace, target, recycle, space, rPageIndex, retired>>
  BY DEF FinishPage, Goto
<1>3. /\ work'[w] = NoPage /\ cursor'[w] = 0 /\ pc'[w] = "claim"
      /\ \A v \in Workers \ {w} : work'[v] = work[v] /\ cursor'[v] = cursor[v] /\ pc'[v] = pc[v]
  BY <1>2 DEF TargetsInv, PlacesOK
<1>4. \/ p \in inPlace /\ free' = free /\ used' = used
      \/ p \notin inPlace /\ free' = free \cup {p} /\ used' = [used EXCEPT ![p] = 0]
  BY DEF FinishPage
<1> HIDE DEF p
<1>5. /\ free' \subseteq free \cup {p} /\ free \subseteq free'
      /\ used' \in [Pages -> 0..PageSize]
      /\ \A q \in Pages : used'[q] = IF q = p /\ p \notin inPlace THEN 0 ELSE used[q]
  <2>1. used \in [Pages -> 0..PageSize] /\ 0 \in 0..PageSize
    BY RecyclableFacts DEF TargetsInv, PlacesOK
  <2>2. CASE p \in inPlace
    BY <1>4, <2>1, <2>2
  <2>3. CASE p \notin inPlace
    BY <1>1, <1>4, <2>1, <2>3
  <2> QED BY <2>2, <2>3
<1>6. p \notin inPlace => \A v \in Workers, b \in Ages : target[v][b] # p
  BY <1>1 DEF TargetsInv, TargetInv, p
<1>7. \A v \in Workers \ {w} : work[v] # p
  BY <1>1 DEF TargetsInv, WorkInv, p
<1>8. PlacesOK' /\ ForwardedOK'
  BY <1>1, <1>2, <1>5 DEF TargetsInv, PlacesOK, ForwardedOK
<1>9. WorkInv'
  <2>1. \A v \in Workers : work'[v] = NoPage <=> pc'[v] \in {"claim", "end"}
    BY <1>3 DEF TargetsInv, WorkInv
  <2>2. /\ \A v \in Workers : work'[v] # NoPage => cursor'[v] \in 1..(Len(Layout[work'[v]]) + 1)
        /\ \A v \in Workers : pc'[v] \in {"insert", "revive", "alloc", "start_in_place"}
                                => cursor'[v] \in 1..Len(Layout[work'[v]])
    BY <1>3 DEF TargetsInv, WorkInv
  <2>3. \A v, u \in Workers : work'[v] = work'[u] /\ work'[v] # NoPage => v = u
    BY <1>3 DEF TargetsInv, WorkInv
  <2>4. NoPage \notin free' \cup unclaimed
    BY <1>8, <1>2, RecyclableFacts DEF PlacesOK
  <2>5. \A v \in Workers : work'[v] \notin free' \cup unclaimed
    BY <1>3, <1>5, <1>7, <2>4 DEF TargetsInv, WorkInv
  <2>6. unclaimed \cap (free' \cup inPlace) = {}
    BY <1>1, <1>5 DEF TargetsInv, WorkInv
  <2>7. \A v \in Workers : pc'[v] = "end" => v # w
    BY <1>3
  <2> QED BY <1>2, <1>3, <2>1, <2>2, <2>3, <2>5, <2>6, <2>7 DEF TargetsInv, WorkInv
<1>10. ReviveInv'
  BY <1>2, <1>3 DEF TargetsInv, ReviveInv, OutOfRecyclable, NextRecyclable, To
<1>11. TargetInv'
  <2>1. \A v \in Workers, a \in Ages : target[v][a] \notin free'
    BY <1>4, <1>6 DEF TargetsInv, TargetInv
  <2> QED BY <1>2, <1>3, <2>1 DEF TargetsInv, TargetInv, To
<1>12. InPlaceRoomInv'
  <2>1. \A v \in Workers \ {w} : work[v] # NoPage => used'[work[v]] = used[work[v]]
    BY <1>5, <1>7, LayoutFacts DEF TargetsInv, PlacesOK
  <2> QED BY <1>2, <1>3, <2>1 DEF TargetsInv, InPlaceRoomInv, To
<1>13. RecycleInv'
  BY <1>1, <1>2, <1>5 DEF TargetsInv, RecycleInv
<1>14. RetiredInv'
  <2>1. \A q \in free' : used'[q] = 0
    BY <1>1, <1>4, <1>5 DEF TargetsInv, RetiredInv, PlacesOK
  <2>2. \A v \in Workers : work'[v] # NoPage => retired[work'[v]] = 0
    BY <1>3 DEF TargetsInv, RetiredInv
  <2>3. ASSUME NEW q \in Pages \ RecyclablePages
        PROVE  \/ q \in free' \cup unclaimed
               \/ \E v \in Workers : work'[v] = q \/ \E a \in Ages : target[v][a] = q
               \/ used'[q] > 0 /\ retired[q] = 1
    <3>1. CASE q = p /\ p \notin inPlace
      BY <1>4, <3>1
    <3>2. CASE q = p /\ p \in inPlace
      <4>1. target[w][To(w)] = p
        BY <1>1, <3>2 DEF TargetsInv, InPlaceRoomInv, p
      <4> QED BY <1>1, <3>2, <4>1
    <3>3. CASE q # p
      <4>1. used'[q] = used[q] /\ (q \in free => q \in free')
        BY <1>5, <3>3
      <4>2. \A v \in Workers : work[v] = q => work'[v] = q
        BY <1>3, <3>3 DEF p
      <4> QED BY <4>1, <4>2 DEF TargetsInv, RetiredInv
    <3> QED BY <3>1, <3>2, <3>3
  <2> QED BY <1>2, <2>1, <2>2, <2>3 DEF TargetsInv, RetiredInv
<1> QED BY <1>8, <1>9, <1>10, <1>11, <1>12, <1>13, <1>14 DEF TargetsInv

LEMMA TargetsDestroy ==
  ASSUME TargetsAssumptions, TargetsInv, NEW w \in Workers, Destroy(w)
  PROVE  TargetsInv'
<1> DEFINE mine == {target[w][a] : a \in Ages} \ {NoPage}
<1>1. /\ pc[w] = "claim" /\ unclaimed = {} /\ work[w] = NoPage
      /\ free' = free \cup {p \in mine : used[p] = 0}
      /\ retired' = [p \in Pages |-> IF p \in mine THEN retired[p] + 1 ELSE retired[p]]
      /\ target' = [target EXCEPT ![w] = [a \in Ages |-> NoPage]]
      /\ recycle' = [recycle EXCEPT ![w] = NoPage]
      /\ pc' = [pc EXCEPT ![w] = "end"]
      /\ UNCHANGED <<forwarded, unclaimed, inPlace, work, cursor, used, space, rPageIndex>>
  BY DEF Destroy, Freed, CountRetired, Goto, workVars,
         TargetsInv, WorkInv
<1>2. /\ pc'[w] = "end" /\ recycle'[w] = NoPage /\ \A a \in Ages : target'[w][a] = NoPage
      /\ \A v \in Workers \ {w} : pc'[v] = pc[v] /\ recycle'[v] = recycle[v] /\ target'[v] = target[v]
  BY <1>1 DEF TargetsInv, PlacesOK
<1>3. /\ mine \subseteq Pages /\ mine \cap (free \cup RecyclablePages) = {}
      /\ \A v \in Workers : work[v] \notin mine
      /\ \A v \in Workers \ {w}, a \in Ages : target[v][a] \notin mine
      /\ \A p \in mine : retired[p] = 0
  <2>1. \A v \in Workers : work[v] \notin mine
    BY <1>1 DEF TargetsInv, TargetInv
  <2>2. \A v \in Workers \ {w}, a \in Ages : target[v][a] \notin mine
    BY DEF TargetsInv, TargetInv
  <2> QED BY <2>1, <2>2 DEF TargetsInv, PlacesOK, TargetInv, RetiredInv
<1>4. \A v \in Workers, a \in Ages : target'[v][a] # NoPage =>
        v # w /\ target'[v][a] = target[v][a] /\ target[v][a] \notin mine
  BY <1>2, <1>3
<1>5. \A p \in Pages : retired'[p] = IF p \in mine THEN retired[p] + 1 ELSE retired[p]
  BY <1>1
<1>6. \A p \in mine : target[w]["survivor"] = p \/ target[w]["old"] = p
  BY DEF Ages
<1> HIDE DEF mine
<1>7. NoPage \notin Pages /\ NoPage \notin free'
  BY <1>1, <1>3, RecyclableFacts DEF TargetsInv, PlacesOK
<1>8. PlacesOK' /\ ForwardedOK'
  <2>1. target' \in [Workers -> [Ages -> Pages \cup {NoPage}]]
    BY <1>1 DEF TargetsInv, PlacesOK
  <2>2. retired' \in [Pages -> Nat]
    BY <1>1 DEF TargetsInv, PlacesOK
  <2> QED BY <1>1, <1>3, <2>1, <2>2 DEF TargetsInv, PlacesOK, ForwardedOK
<1>9. WorkInv'
  <2>1. \A v \in Workers : work[v] = NoPage <=> pc'[v] \in {"claim", "end"}
    BY <1>1, <1>2 DEF TargetsInv, WorkInv
  <2>2. \A v \in Workers : pc'[v] \in {"insert", "revive", "alloc", "start_in_place"}
                             => cursor[v] \in 1..Len(Layout[work[v]])
    BY <1>2 DEF TargetsInv, WorkInv
  <2>3. \A v \in Workers : work[v] \notin free' \cup unclaimed
    BY <1>1, <1>3 DEF TargetsInv, WorkInv
  <2>4. \A v \in Workers : pc'[v] = "end" => recycle'[v] = NoPage
                                         /\ \A a \in Ages : target'[v][a] = NoPage
    BY <1>2 DEF TargetsInv, WorkInv
  <2> QED BY <1>1, <2>1, <2>2, <2>3, <2>4 DEF TargetsInv, WorkInv
<1>10. ReviveInv'
  BY <1>1, <1>2 DEF TargetsInv, ReviveInv, OutOfRecyclable, NextRecyclable, To,
                    Ages
<1>11. TargetInv'
  <2>1. \A v \in Workers, a \in Ages :
          target'[v][a] \notin free' \cup unclaimed \cup RecyclablePages
    BY <1>1, <1>4, <1>7, RecyclableFacts DEF TargetsInv, TargetInv
  <2>2. \A v, u \in Workers, a, b \in Ages :
          target'[v][a] = target'[u][b] /\ target'[v][a] # NoPage => v = u /\ a = b
    BY <1>4 DEF TargetsInv, TargetInv
  <2>3. \A v, u \in Workers, a \in Ages :
          target'[v][a] = work[u] /\ work[u] # NoPage
            => v = u /\ a = To(u) /\ work[u] \in inPlace
    BY <1>4 DEF TargetsInv, TargetInv
  <2> QED BY <1>1, <2>1, <2>2, <2>3 DEF TargetInv, To
<1>12. InPlaceRoomInv'
  BY <1>1, <1>2 DEF TargetsInv, InPlaceRoomInv, To
<1>13. RecycleInv'
  BY <1>1, <1>2, <1>3 DEF TargetsInv, RecycleInv
<1>14. RetiredInv'
  <2>1. \A p \in free' : used[p] = 0
    BY <1>1 DEF TargetsInv, RetiredInv
  <2>2. \A p \in Pages : retired'[p] <= 1
    BY <1>3, <1>5 DEF TargetsInv, RetiredInv
  <2>3. \A p \in RecyclablePages : retired'[p] = 0
    BY <1>3, <1>5, RecyclableFacts DEF TargetsInv, RetiredInv
  <2>4. \A v \in Workers : work[v] # NoPage => retired'[work[v]] = 0
    BY <1>3, <1>5, RecyclableFacts DEF TargetsInv, RetiredInv, PlacesOK
  <2>5. \A v \in Workers, a \in Ages : target'[v][a] # NoPage => retired'[target'[v][a]] = 0
    <3>1. \A v \in Workers, a \in Ages : target[v][a] \in Pages \cup {NoPage}
      BY DEF TargetsInv, PlacesOK
    <3> QED BY <1>4, <1>5, <3>1 DEF TargetsInv, RetiredInv
  <2>6. ASSUME NEW p \in Pages \ RecyclablePages
        PROVE  \/ p \in free'
               \/ \E v \in Workers : work[v] = p \/ \E a \in Ages : target'[v][a] = p
               \/ used[p] > 0 /\ retired'[p] = 1
    <3>1. CASE p \in mine
      <4>1. retired'[p] = 1 /\ used[p] \in Nat
        BY <1>3, <1>5, <3>1 DEF TargetsInv, PlacesOK
      <4> QED BY <1>1, <3>1, <4>1
    <3>2. CASE p \notin mine
      <4>1. \A a \in Ages : target[w][a] = p => p = NoPage
        BY <3>2 DEF mine
      <4>2. \A v \in Workers, a \in Ages : target[v][a] = p => target'[v][a] = p
        BY <1>2, <1>7, <4>1
      <4> QED BY <1>1, <1>5, <3>2, <4>2 DEF TargetsInv, RetiredInv
    <3> QED BY <3>1, <3>2
  <2> QED BY <1>1, <2>1, <2>2, <2>3, <2>4, <2>5, <2>6 DEF RetiredInv
<1> QED BY <1>8, <1>9, <1>10, <1>11, <1>12, <1>13, <1>14 DEF TargetsInv

\* Steps that leave pages, workers and targets alone.
LEMMA TargetsUnchanged ==
  ASSUME TargetsAssumptions, TargetsInv, ForwardedOK',
         UNCHANGED <<workVars, pc, target, recycle, pageVars>>
  PROVE  TargetsInv'
  BY DEF TargetsInv, PlacesOK, WorkInv, ReviveInv, TargetInv, InPlaceRoomInv, RecycleInv,
         RetiredInv, workVars, pageVars, To, OutOfRecyclable,
         NextRecyclable

LEMMA TargetsStep ==
  ASSUME TargetsAssumptions, TargetsInv, [Next]_vars
  PROVE  TargetsInv'
<1>1. ASSUME NEW w \in Workers, Worker(w) PROVE TargetsInv'
  BY <1>1, TargetsClaim, TargetsFound, TargetsAllocInFreeList, TargetsAllocInTarget,
     TargetsAllocFails, TargetsInsert, TargetsRevive, TargetsReviveFails, TargetsAlloc,
     TargetsAllocPageFails, TargetsStartInPlace, TargetsFinishPage, TargetsDestroy
     DEF Worker
<1>2. ASSUME MutatorRelocates PROVE TargetsInv'
  <2>1. PICK p \in FromPages :
          /\ \E i \in DOMAIN Layout[p] : forwarded' = forwarded \cup {<<p, i>>}
          /\ UNCHANGED <<workVars, pc, target, recycle, pageVars>>
    BY <1>2 DEF MutatorRelocates
  <2>2. ForwardedOK'
    BY <2>1 DEF TargetsInv, ForwardedOK
  <2> QED BY <2>1, <2>2, TargetsUnchanged
<1>3. ASSUME UNCHANGED vars PROVE TargetsInv'
  BY <1>3, TargetsUnchanged DEF vars, TargetsInv, ForwardedOK
<1> QED BY <1>1, <1>2, <1>3 DEF Next

LEMMA TargetsInvImpliesSafe ==
  ASSUME TargetsAssumptions, TargetsInv PROVE TargetsAreSafe
<1>1. ASSUME NEW v \in Workers, NEW w \in Workers,
             NEW h \in Held(v), NEW g \in Held(w), h[2] = g[2], h[2] # NoPage
      PROVE  v = w /\ h = g /\ h[2] \notin free
  <2>1. \A u \in Workers : recycle[u] # NoPage => recycle[u] \in RecyclablePages
    BY DEF TargetsInv, PlacesOK
  <2>2. CASE h = <<"recycle", recycle[v]>> /\ g = <<"recycle", recycle[w]>>
    BY <1>1, <2>1, <2>2 DEF TargetsInv, RecycleInv
  <2>3. CASE \E a, b \in Ages : h = <<a, target[v][a]>> /\ g = <<b, target[w][b]>>
    BY <1>1, <2>3 DEF TargetsInv, TargetInv
  <2>4. CASE \E a \in Ages : \/ h = <<a, target[v][a]>> /\ g = <<"recycle", recycle[w]>>
                             \/ g = <<a, target[w][a]>> /\ h = <<"recycle", recycle[v]>>
    BY <1>1, <2>1, <2>4 DEF TargetsInv, TargetInv
  <2> QED BY <2>2, <2>3, <2>4 DEF Held
<1>2. \A p \in Pages : retired[p] <= 1
  BY DEF TargetsInv, RetiredInv
<1>3. ASSUME AllEnded, NEW p \in Pages \ RecyclablePages
      PROVE  IF p \in free THEN used[p] = 0 ELSE used[p] > 0 /\ retired[p] = 1
  <2>1. \A w \in Workers : work[w] = NoPage /\ \A a \in Ages : target[w][a] = NoPage
    BY <1>3 DEF AllEnded, TargetsInv, WorkInv
  <2>2. p # NoPage
    BY RecyclableFacts
  <2>3. p \notin unclaimed
    <3>1. PICK w \in Workers : pc[w] = "end"
      BY <1>3 DEF AllEnded, TargetsAssumptions, TargetsAssumption
    <3> QED BY <3>1 DEF TargetsInv, WorkInv
  <2> QED BY <2>1, <2>2, <2>3 DEF TargetsInv, RetiredInv
<1> QED BY <1>1, <1>2, <1>3 DEF TargetsAreSafe

\* The places, counts and targets of a young collection's workers are always
\* what they are declared to be (ZRelocateSmallAllocator).
THEOREM TargetsTypeCorrect == TargetsAssumptions => (Spec => []TypeOK)
<1> SUFFICES ASSUME TargetsAssumptions PROVE Spec => []TypeOK
  OBVIOUS
<1>1. Init => TargetsInv
  BY TargetsInit
<1>2. TargetsInv /\ [Next]_vars => TargetsInv'
  BY TargetsStep
<1>3. TargetsInv => TypeOK
  BY TypesSplit DEF TargetsInv
<1> QED BY <1>1, <1>2, <1>3, PTL DEF Spec

THEOREM TargetsSafe == TargetsAssumptions => (Spec => []TargetsAreSafe)
<1> SUFFICES ASSUME TargetsAssumptions PROVE Spec => []TargetsAreSafe
  OBVIOUS
<1>1. Init => TargetsInv
  BY TargetsInit
<1>2. TargetsInv /\ [Next]_vars => TargetsInv'
  BY TargetsStep
<1>3. TargetsInv => TargetsAreSafe
  BY TargetsInvImpliesSafe
<1> QED BY <1>1, <1>2, <1>3, PTL DEF Spec
=============================================================================

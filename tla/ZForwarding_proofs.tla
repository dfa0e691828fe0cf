------------------------- MODULE ZForwarding_proofs -------------------------
(***************************************************************************)
(* Proofs about ZForwarding, for any number of workers, mutators and       *)
(* objects: the inductive invariant, the invariants that follow from it,   *)
(* the two rules the code documents about the reference count, and that    *)
(* the counting implements ForwardingLease.                                *)
(***************************************************************************)
EXTENDS ZForwarding, FiniteSetTheorems, TLAPS

\* The labels of a worker that has claimed the forwarding, by phase.
ClaimingPCs  == {"claim_lock", "claim_check", "claim_wait", "claim_waiting"}
DetachingPCs == {"detach_load", "detach_lock", "detach_check", "detach_wait", "detach_waiting"}
AfterPCs     == DetachingPCs \cup {"recycle", "mark_done", "end"}

\* An in-place relocation has negated the count.
Sealed == inPlace \/ \E w \in Workers : pc[w] \in ClaimingPCs \cup {"in_place_start"}

References == Cardinality(Holders) + (IF Relocating THEN 1 ELSE 0)

LabelsInv ==
  /\ \A m \in Mutators : pc[m] \in MutatorPCs \cup ReleasePCs
  /\ \A w \in Workers : pc[w] \in WorkerPCs \cup ReleasePCs

\* One worker at most has claimed the forwarding.
ClaimInv ==
  /\ \A w \in Workers : pc[w] \notin {"start", "skip"} => claimed
  /\ \A w, v \in Workers :
       pc[w] \notin {"start", "skip"} /\ pc[v] \notin {"start", "skip"} => w = v

CountInv == refCount = IF Sealed THEN -References ELSE References

InPlaceInv ==
  /\ \A w \in Workers : pc[w] \in ClaimingPCs \cup {"claim_load", "claim_cas", "in_place_start"}
                          => ~inPlace
  /\ \A w \in Workers : pc[w] = "in_place_start" => Holders = {}
  /\ inPlace => Holders = {}
  /\ inPlace => \E w \in Workers : pc[w] \notin {"start", "skip"}

RetainInv == \A m \in Mutators : pc[m] = "retain_cas" => loaded[m] > 0

PageInv ==
  /\ \A w \in Workers : pc[w] \in {"recycle", "mark_done", "end"} => refCount = 0
  /\ page = "recycled" => \E w \in Workers : pc[w] \in {"mark_done", "end"}
  /\ \A w \in Workers : pc[w] \in {"mark_done", "end"} => page = "recycled"
  /\ done => \E w \in Workers : pc[w] = "end"

ForwardedInv ==
  /\ \A w \in Workers : pc[w] \in AfterPCs \cup ReleasePCs => AllForwarded
  /\ \A m \in Mutators : pc[m] # "idle" => object[m] \in Objects
  /\ \A m \in Mutators : pc[m] = "forward" => object[m] \in forwarded

IInv ==
  /\ TypeOK
  /\ LabelsInv
  /\ ClaimInv
  /\ CountInv
  /\ InPlaceInv
  /\ RetainInv
  /\ PageInv
  /\ ForwardedInv
-----------------------------------------------------------------------------
RefHolderPCs == {"relocate", "release_load", "release_cas"}

LEMMA HoldersFinite ==
  /\ IsFiniteSet(Holders)
  /\ Cardinality(Holders) \in Nat
<1>1. Holders \subseteq Mutators /\ IsFiniteSet(Mutators)
  BY ThreadsAssumption DEF Holders
<1>2. IsFiniteSet(Holders)
  BY <1>1, FS_Subset
<1> QED
  BY <1>2, FS_CardinalityType

\* A mutator that takes a reference.
LEMMA HoldersEnter ==
  ASSUME TypeOK, NEW m \in Mutators, NEW l \in RefHolderPCs,
         pc[m] \notin RefHolderPCs, pc' = [pc EXCEPT ![m] = l]
  PROVE  /\ Holders' = Holders \cup {m}
         /\ Cardinality(Holders') = Cardinality(Holders) + 1
<1>1. m \in Threads
  BY DEF Threads
<1>2. Holders' = Holders \cup {m} /\ m \notin Holders
  BY <1>1 DEF Holders, RefHolderPCs, TypeOK, Threads
<1> QED
  BY <1>2, HoldersFinite, FS_AddElement

\* A mutator that gives its reference up.
LEMMA HoldersLeave ==
  ASSUME TypeOK, NEW m \in Mutators, NEW l,
         pc[m] \in RefHolderPCs, l \notin RefHolderPCs, pc' = [pc EXCEPT ![m] = l]
  PROVE  /\ Holders' = Holders \ {m}
         /\ m \in Holders
         /\ Cardinality(Holders') = Cardinality(Holders) - 1
<1>1. m \in Threads
  BY DEF Threads
<1>2. Holders' = Holders \ {m} /\ m \in Holders
  BY <1>1 DEF Holders, RefHolderPCs, TypeOK, Threads
<1> QED
  BY <1>2, HoldersFinite, FS_RemoveElement

\* Every other step leaves the holders alone.
LEMMA HoldersKeep ==
  ASSUME TypeOK, NEW t \in Threads, NEW l, pc' = [pc EXCEPT ![t] = l],
         t \in Mutators => (pc[t] \in RefHolderPCs <=> l \in RefHolderPCs)
  PROVE  Holders' = Holders
  BY ThreadsAssumption DEF Holders, RefHolderPCs, TypeOK, Threads

LEMMA InitInv == Init => IInv
<1> SUFFICES ASSUME Init PROVE IInv
  OBVIOUS
<1>1. Holders = {}
  BY ThreadsAssumption DEF Init, Holders, Threads
<1>2. Cardinality(Holders) = 0
  BY <1>1, FS_EmptySet
<1>3. Relocating /\ ~Sealed
  BY ThreadsAssumption DEF Init, Relocating, RelocatingPCs, Sealed, Threads, ClaimingPCs
<1>4. CountInv
  BY <1>2, <1>3 DEF Init, CountInv, References
<1>5. pc \in [Threads -> MutatorPCs \cup WorkerPCs \cup ReleasePCs]
  BY DEF Init, MutatorPCs, WorkerPCs
<1>6. loaded \in [Threads -> Int] /\ object \in [Mutators -> Objects \cup {NoObject}]
  BY DEF Init
<1>7. claimed \in BOOLEAN /\ inPlace \in BOOLEAN /\ done \in BOOLEAN
  BY DEF Init
<1>8. refCount \in Int /\ refLock \in Workers \cup {NoThread} /\ page \in {"from", "recycled"}
  BY DEF Init
<1>9. refWaiters \subseteq Workers /\ forwarded \subseteq Objects /\ stalled \subseteq Mutators
  BY DEF Init
<1>10. TypeOK
  BY <1>5, <1>6, <1>7, <1>8, <1>9 DEF TypeOK
<1> QED
  BY <1>1, <1>4, <1>10, ThreadsAssumption
  DEF Init, IInv, LabelsInv, ClaimInv, InPlaceInv, RetainInv, PageInv, ForwardedInv,
      Threads, MutatorPCs, WorkerPCs, ReleasePCs, ClaimingPCs, AfterPCs, DetachingPCs

LEMMA ReferencesNat == References \in Nat /\ (References = 0 <=> Holders = {} /\ ~Relocating)
<1>1. Cardinality(Holders) = 0 <=> Holders = {}
  BY HoldersFinite, FS_EmptySet
<1> QED
  BY <1>1, HoldersFinite DEF References

\* The mutator's steps that take or give up no reference.
MutatorLocal(m) ==
  \/ \E o \in Objects : Find(m, o)
  \/ RetainLoad(m) \/ RetainRetry(m) \/ Relocate(m) \/ RelocateFails(m)
  \/ ReleaseLoad(m) \/ ReleaseRetry(m) \/ ReleaseNotify(m)
  \/ Stall(m) \/ ForwardObject(m)

LEMMA MutatorLocalFrame ==
  ASSUME TypeOK, NEW m \in Mutators, MutatorLocal(m)
  PROVE  /\ UNCHANGED <<refCount, flagVars, Holders, Relocating, Sealed>>
         /\ \A w \in Workers : pc'[w] = pc[w]
         /\ \E l \in MutatorPCs \cup ReleasePCs : pc' = [pc EXCEPT ![m] = l]
<1> USE DEF MutatorLocal, Find, RetainLoad, RetainRetry, Relocate, RelocateFails, Stall,
            ForwardObject, ReleaseLoad, ReleaseRetry, ReleaseNotify, AfterRelease,
            Goto, flagVars, lockVars, localVars
<1>1. m \in Threads /\ m \notin Workers
  BY ThreadsAssumption DEF Threads
<1>2. PICK l \in MutatorPCs \cup ReleasePCs :
        pc' = [pc EXCEPT ![m] = l] /\ (pc[m] \in RefHolderPCs <=> l \in RefHolderPCs)
  BY <1>1 DEF MutatorPCs, ReleasePCs, RefHolderPCs
<1>3. Holders' = Holders
  BY <1>1, <1>2, HoldersKeep
<1>4. \A w \in Workers : pc'[w] = pc[w]
  BY <1>1, <1>2 DEF TypeOK
<1>5. UNCHANGED <<refCount, flagVars>>
  OBVIOUS
<1>6. UNCHANGED <<Relocating, Sealed>>
  BY <1>4, <1>5 DEF Relocating, Sealed
<1> QED
  BY <1>2, <1>3, <1>4, <1>5, <1>6

LEMMA MutatorLocalInv ==
  ASSUME IInv, NEW m \in Mutators, MutatorLocal(m)
  PROVE  IInv'
<1> USE DEF MutatorLocal, Find, RetainLoad, RetainRetry, Relocate, RelocateFails, Stall,
            ForwardObject, ReleaseLoad, ReleaseRetry, ReleaseNotify, AfterRelease,
            Goto, flagVars, lockVars, localVars
<1>0. TypeOK /\ m \in Threads /\ m \notin Workers
  BY ThreadsAssumption DEF IInv, Threads
<1>1. PICK l \in MutatorPCs \cup ReleasePCs : pc' = [pc EXCEPT ![m] = l]
  BY <1>0, MutatorLocalFrame
<1>2. UNCHANGED <<refCount, Holders, Relocating, Sealed>>
  BY <1>0, MutatorLocalFrame
<1>3. TypeOK'
  <2>1. pc' \in [Threads -> MutatorPCs \cup WorkerPCs \cup ReleasePCs]
    BY <1>0, <1>1 DEF TypeOK
  <2>2. /\ loaded' \in [Threads -> Int]
        /\ object' \in [Mutators -> Objects \cup {NoObject}]
        /\ stalled' \subseteq Mutators
    BY <1>0 DEF TypeOK
  <2>3. forwarded' \subseteq Objects
    BY <1>0 DEF IInv, ForwardedInv, TypeOK
  <2>4. refLock' = refLock /\ refWaiters' \subseteq Workers
    BY <1>0 DEF TypeOK
  <2> QED
    BY <1>0, <2>1, <2>2, <2>3, <2>4 DEF TypeOK
<1>4. LabelsInv'
  BY <1>0, <1>1 DEF IInv, LabelsInv, TypeOK
<1>5. (\A w \in Workers : pc'[w] = pc[w]) /\ UNCHANGED flagVars
  BY <1>0, MutatorLocalFrame
<1>6. ClaimInv' /\ PageInv'
  BY <1>2, <1>5 DEF IInv, ClaimInv, PageInv
<1>7. CountInv'
  BY <1>2 DEF IInv, CountInv, References
<1>8. InPlaceInv'
  BY <1>2, <1>5 DEF IInv, InPlaceInv
<1>9. RetainInv'
  <2>1. pc'[m] = "retain_cas" => RetainLoad(m)
    BY <1>0 DEF TypeOK
  <2>2. \A n \in Mutators \ {m} : pc'[n] = pc[n] /\ loaded'[n] = loaded[n]
    BY <1>0, <1>1 DEF TypeOK, Threads
  <2>3. RetainLoad(m) /\ pc'[m] = "retain_cas" => loaded'[m] > 0
    BY <1>0 DEF TypeOK
  <2> QED
    BY <2>1, <2>2, <2>3 DEF IInv, RetainInv
<1>10. ForwardedInv'
  <2>1. refCount = 0 \/ done => AllForwarded
    <3>1. refCount = 0 => \E w \in Workers : pc[w] \notin RelocatingPCs
      BY ReferencesNat DEF IInv, CountInv, Relocating
    <3> QED
      BY <3>1 DEF IInv, LabelsInv, PageInv, ForwardedInv, RelocatingPCs, WorkerPCs,
                  ReleasePCs, AfterPCs, DetachingPCs
  <2>2. forwarded \subseteq forwarded'
    OBVIOUS
  <2>3. \A n \in Mutators \ {m} : pc'[n] = pc[n] /\ object'[n] = object[n]
    BY <1>0, <1>1 DEF TypeOK, Threads
  <2>4. pc'[m] # "idle" => object'[m] \in Objects
    BY <1>0 DEF IInv, ForwardedInv, TypeOK
  <2>5. pc'[m] = "forward" => object'[m] \in forwarded'
    BY <1>0, <2>1, <2>4 DEF TypeOK, AllForwarded
  <2> QED
    BY <1>3, <1>5, <2>2, <2>3, <2>4, <2>5 DEF IInv, ForwardedInv, AllForwarded, TypeOK
<1> QED
  BY <1>3, <1>4, <1>6, <1>7, <1>8, <1>9, <1>10 DEF IInv

\* retain_page's compare-and-swap succeeds: one more holder, one more count.
LEMMA RetainCasInv ==
  ASSUME IInv, NEW m \in Mutators, RetainCas(m)
  PROVE  IInv'
<1> USE DEF RetainCas, Goto, flagVars, lockVars, localVars
<1>0. TypeOK /\ m \in Threads /\ m \notin Workers /\ pc' = [pc EXCEPT ![m] = "relocate"]
  BY ThreadsAssumption DEF IInv, Threads
<1>1. /\ Holders' = Holders \cup {m}
      /\ Cardinality(Holders') = Cardinality(Holders) + 1
  BY <1>0, HoldersEnter DEF RefHolderPCs
<1>2. \A w \in Workers : pc'[w] = pc[w]
  BY <1>0 DEF TypeOK
<1>3. refCount > 0 /\ refCount' = refCount + 1
  BY DEF IInv, RetainInv
<1>4. ~Sealed
  BY <1>3, ReferencesNat DEF IInv, CountInv
<1>5. CountInv'
  <2>1. ~Sealed' /\ (Relocating' <=> Relocating)
    BY <1>2, <1>4 DEF Sealed, Relocating
  <2> QED
    BY <1>1, <1>3, <1>4, <2>1, HoldersFinite DEF IInv, CountInv, References
<1>6. TypeOK'
  BY <1>0, <1>3 DEF TypeOK, MutatorPCs
<1>7. LabelsInv'
  BY <1>0 DEF IInv, LabelsInv, TypeOK, MutatorPCs
<1>8. ClaimInv' /\ InPlaceInv'
  BY <1>2, <1>4 DEF IInv, ClaimInv, InPlaceInv, Sealed
<1>9. RetainInv' /\ ForwardedInv'
  BY <1>0, <1>2 DEF IInv, RetainInv, ForwardedInv, AllForwarded, TypeOK
<1>10. PageInv'
  BY <1>2, <1>3 DEF IInv, PageInv
<1> QED
  BY <1>5, <1>6, <1>7, <1>8, <1>9, <1>10 DEF IInv

\* A mutator's release: one holder less, and the count moves towards zero.
LEMMA MutatorReleaseInv ==
  ASSUME IInv, NEW m \in Mutators, ReleaseCas(m)
  PROVE  IInv'
<1> USE DEF ReleaseCas, AfterRelease, Goto, flagVars, lockVars, localVars
<1>0. TypeOK /\ m \in Threads /\ m \notin Workers
  BY ThreadsAssumption DEF IInv, Threads
<1>1. PICK l \in {"release_notify", "stall", "idle"} : pc' = [pc EXCEPT ![m] = l]
  BY <1>0
<1>2. /\ Holders' = Holders \ {m}
      /\ m \in Holders
      /\ Cardinality(Holders') = Cardinality(Holders) - 1
  <2>1. pc[m] \in RefHolderPCs /\ l \notin RefHolderPCs
    BY <1>1 DEF RefHolderPCs
  <2> QED
    BY <1>0, <1>1, <2>1, HoldersLeave
<1>3. \A w \in Workers : pc'[w] = pc[w]
  BY <1>0, <1>1 DEF TypeOK
<1>4. (Relocating' <=> Relocating) /\ (Sealed' <=> Sealed)
  BY <1>3 DEF Sealed, Relocating
<1>5. References \in Nat /\ References # 0 /\ References' = References - 1
  BY <1>2, <1>4, ReferencesNat, HoldersFinite DEF References
<1>6. CountInv'
  BY <1>4, <1>5 DEF IInv, CountInv
<1>7. TypeOK'
  BY <1>0, <1>1 DEF TypeOK, MutatorPCs, ReleasePCs
<1>8. LabelsInv'
  BY <1>0, <1>1 DEF IInv, LabelsInv, TypeOK, MutatorPCs, ReleasePCs
<1>9. ClaimInv' /\ InPlaceInv'
  BY <1>2, <1>3 DEF IInv, ClaimInv, InPlaceInv
<1>10. RetainInv' /\ ForwardedInv'
  BY <1>0, <1>1, <1>3 DEF IInv, RetainInv, ForwardedInv, AllForwarded, TypeOK
<1>11. PageInv'
  <2>1. refCount # 0
    BY <1>5 DEF IInv, CountInv
  <2> QED
    BY <1>3, <2>1 DEF IInv, PageInv
<1> QED
  BY <1>6, <1>7, <1>8, <1>9, <1>10, <1>11 DEF IInv

\* The worker's steps other than negating the count and releasing the page.
WorkerLocal(w) ==
  \/ Claim(w) \/ OutOfPages(w) \/ ClaimLoad(w) \/ ClaimRetry(w) \/ InPlaceStart(w)
  \/ \E o \in Objects : IterateObject(w, o)
  \/ IterateEnd(w) \/ ReleaseLoad(w) \/ ReleaseRetry(w) \/ ReleaseNotify(w)
  \/ DetachLoad(w) \/ Lock(w) \/ CheckPasses(w) \/ CheckFails(w) \/ Wait(w)
  \/ Recycle(w) \/ MarkDone(w)

LEMMA WorkerLocalFrame ==
  ASSUME IInv, NEW w \in Workers, WorkerLocal(w)
  PROVE  /\ UNCHANGED <<refCount, Holders, Relocating, Sealed>>
         /\ \A m \in Mutators : pc'[m] = pc[m]
         /\ \E l \in WorkerPCs \cup ReleasePCs : pc' = [pc EXCEPT ![w] = l]
<1> USE DEF WorkerLocal, Claim, OutOfPages, ClaimLoad, ClaimRetry, InPlaceStart,
            IterateObject, IterateEnd, ReleaseLoad, ReleaseRetry, ReleaseNotify,
            DetachLoad, Lock, CheckPasses, CheckFails, Wait, Recycle, MarkDone,
            AfterRelease, Goto, flagVars, lockVars, localVars
<1>0. TypeOK /\ w \in Threads /\ w \notin Mutators
  BY ThreadsAssumption DEF IInv, Threads
<1>1. PICK l \in WorkerPCs \cup ReleasePCs : pc' = [pc EXCEPT ![w] = l]
  <2>1. CASE \E o \in Objects : IterateObject(w, o)
    <3>1. pc' = [pc EXCEPT ![w] = "iterate"]
      BY <1>0, <2>1 DEF TypeOK
    <3> QED
      BY <3>1 DEF WorkerPCs
  <2>2. CASE ~ \E o \in Objects : IterateObject(w, o)
    BY <1>0, <2>2 DEF WorkerPCs, ReleasePCs
  <2> QED
    BY <2>1, <2>2
<1>2. Holders' = Holders /\ \A m \in Mutators : pc'[m] = pc[m]
  <2>1. Holders' = Holders
    BY <1>0, <1>1, HoldersKeep
  <2>2. \A m \in Mutators : pc'[m] = pc[m]
    BY <1>0, <1>1 DEF TypeOK, Threads
  <2> QED
    BY <2>1, <2>2
<1>3. \A v \in Workers \ {w} : pc'[v] = pc[v]
  BY <1>1 DEF TypeOK, Threads
<1>4. Sealed' <=> Sealed
  <2>1. pc[w] \in ClaimingPCs \cup {"in_place_start"} <=> 
          pc'[w] \in ClaimingPCs \cup {"in_place_start"} \/ InPlaceStart(w)
    BY <1>0, <1>1 DEF TypeOK, ClaimingPCs
  <2>2. ~InPlaceStart(w) => inPlace' = inPlace
    OBVIOUS
  <2> QED
    BY <1>3, <2>1, <2>2 DEF Sealed
<1>5. Relocating' <=> Relocating
  <2>1. pc[w] \in RelocatingPCs <=> pc'[w] \in RelocatingPCs
    BY <1>0, <1>1 DEF TypeOK, RelocatingPCs
  <2> QED
    BY <1>3, <2>1 DEF Relocating
<1>6. refCount' = refCount
  OBVIOUS
<1> QED
  BY <1>1, <1>2, <1>4, <1>5, <1>6

LEMMA WorkerLocalInv ==
  ASSUME IInv, NEW w \in Workers, WorkerLocal(w)
  PROVE  IInv'
<1> USE DEF WorkerLocal, Claim, OutOfPages, ClaimLoad, ClaimRetry, InPlaceStart,
            IterateObject, IterateEnd, ReleaseLoad, ReleaseRetry, ReleaseNotify,
            DetachLoad, Lock, CheckPasses, CheckFails, Wait, Recycle, MarkDone,
            AfterRelease, Goto, flagVars, lockVars, localVars
<1>0. TypeOK /\ w \in Threads /\ w \notin Mutators
  BY ThreadsAssumption DEF IInv, Threads
<1>1. PICK l \in WorkerPCs \cup ReleasePCs : pc' = [pc EXCEPT ![w] = l]
  BY WorkerLocalFrame
<1>2. UNCHANGED <<refCount, Holders, Relocating, Sealed>> /\ \A m \in Mutators : pc'[m] = pc[m]
  BY WorkerLocalFrame
<1>3. /\ refCount' = refCount /\ object' = object
      /\ forwarded \subseteq forwarded' /\ forwarded' \subseteq Objects
      /\ \A m \in Mutators : loaded'[m] = loaded[m]
  <2>1. refCount' = refCount /\ object' = object
    OBVIOUS
  <2>2. forwarded \subseteq forwarded' /\ forwarded' \subseteq Objects
    BY <1>0 DEF TypeOK
  <2>3. \A m \in Mutators : loaded'[m] = loaded[m]
    BY <1>0 DEF TypeOK, Threads
  <2> QED
    BY <2>1, <2>2, <2>3
<1>4. \A v \in Workers \ {w} : pc'[v] = pc[v]
  BY <1>1 DEF TypeOK, Threads
<1>5. TypeOK'
  <2>1. pc' \in [Threads -> MutatorPCs \cup WorkerPCs \cup ReleasePCs]
    BY <1>0, <1>1 DEF TypeOK
  <2>2. loaded' \in [Threads -> Int] /\ object' \in [Mutators -> Objects \cup {NoObject}]
    BY <1>0 DEF TypeOK
  <2>3. claimed' \in BOOLEAN /\ inPlace' \in BOOLEAN /\ done' \in BOOLEAN
    BY <1>0 DEF TypeOK
  <2>4. /\ refLock' \in Workers \cup {NoThread} /\ refWaiters' \subseteq Workers
        /\ stalled' \subseteq Mutators /\ page' \in {"from", "recycled"}
    BY <1>0 DEF TypeOK
  <2> QED
    BY <1>0, <1>3, <2>1, <2>2, <2>3, <2>4 DEF TypeOK
<1>6. LabelsInv'
  BY <1>0, <1>1, <1>2 DEF IInv, LabelsInv, TypeOK
<1>7. ClaimInv'
  <2>1. pc[w] \notin {"start", "skip"} => claimed /\ \A v \in Workers \ {w} : pc[v] \in {"start", "skip"}
    BY DEF IInv, ClaimInv
  <2>2. CASE Claim(w)
    BY <1>0, <1>1, <1>4, <2>2 DEF IInv, ClaimInv, TypeOK
  <2>3. CASE ~Claim(w)
    <3>1. pc[w] \notin {"start", "skip"} /\ claimed' = claimed
      BY <2>3
    <3> QED
      BY <1>4, <2>1, <3>1 DEF IInv, ClaimInv
  <2> QED
    BY <2>2, <2>3
<1>8. CountInv'
  BY <1>2 DEF IInv, CountInv, References
<1>9. InPlaceInv'
  <2>1. pc'[w] = "in_place_start" => Holders = {}
    <3>1. pc'[w] = "in_place_start" => pc[w] = "claim_check" /\ refCount = -1
      BY <1>0 DEF TypeOK
    <3>2. pc[w] = "claim_check" /\ refCount = -1 => References = 1 /\ Relocating
      <4>1. pc[w] = "claim_check" => Sealed
        BY DEF Sealed, ClaimingPCs
      <4>2. pc[w] = "claim_check" => Relocating
        BY DEF IInv, ClaimInv, Relocating, RelocatingPCs
      <4> QED
        BY <4>1, <4>2, ReferencesNat DEF IInv, CountInv
    <3>3. References = 1 /\ Relocating => Cardinality(Holders) = 0
      BY HoldersFinite DEF References
    <3> QED
      BY <3>1, <3>2, <3>3, HoldersFinite, FS_EmptySet
  <2> QED
    BY <1>0, <1>1, <1>2, <1>4, <2>1 DEF IInv, InPlaceInv, ClaimInv, ClaimingPCs, TypeOK
<1>10. RetainInv'
  BY <1>2, <1>3 DEF IInv, RetainInv
<1>11. PageInv'
  BY <1>0, <1>1, <1>3, <1>4 DEF IInv, PageInv, TypeOK
<1>12. ForwardedInv'
  <2>1. pc'[w] \in AfterPCs \cup ReleasePCs => AllForwarded
    BY <1>0, <1>1 DEF IInv, ForwardedInv, AfterPCs, DetachingPCs, ReleasePCs, TypeOK
  <2> QED
    BY <1>2, <1>3, <1>4, <2>1 DEF IInv, ForwardedInv, AllForwarded, TypeOK
<1> QED
  BY <1>5, <1>6, <1>7, <1>8, <1>9, <1>10, <1>11, <1>12 DEF IInv

\* in_place_relocation_claim_page negates the count.
LEMMA ClaimCasInv ==
  ASSUME IInv, NEW w \in Workers, ClaimCas(w)
  PROVE  IInv'
<1> USE DEF ClaimCas, Goto, flagVars, lockVars, localVars
<1>0. TypeOK /\ w \in Threads /\ w \notin Mutators
  BY ThreadsAssumption DEF IInv, Threads
<1>1. PICK l \in {"in_place_start", "claim_lock"} :
        /\ pc' = [pc EXCEPT ![w] = l]
        /\ l = IF refCount = 1 THEN "in_place_start" ELSE "claim_lock"
  OBVIOUS
<1>2. Holders' = Holders /\ \A m \in Mutators : pc'[m] = pc[m]
  <2>1. Holders' = Holders
    BY <1>0, <1>1, HoldersKeep
  <2>2. \A m \in Mutators : pc'[m] = pc[m]
    BY <1>0, <1>1 DEF TypeOK, Threads
  <2> QED
    BY <2>1, <2>2
<1>3. \A v \in Workers \ {w} : pc'[v] = pc[v] /\ pc[v] \in {"start", "skip"}
  BY <1>0, <1>1 DEF IInv, ClaimInv, TypeOK, Threads
<1>4. pc'[w] = l
  BY <1>0, <1>1 DEF TypeOK
<1>5. ~Sealed /\ Sealed'
  BY <1>0, <1>3, <1>4 DEF IInv, InPlaceInv, Sealed, ClaimingPCs
<1>6. Relocating /\ Relocating'
  BY <1>0, <1>3, <1>4 DEF Relocating, RelocatingPCs
<1>7. References \in Nat /\ References' = References /\ refCount = References
  BY <1>2, <1>5, <1>6, ReferencesNat DEF IInv, CountInv, References
<1>8. CountInv'
  BY <1>5, <1>7 DEF CountInv
<1>9. TypeOK'
  BY <1>0, <1>1 DEF TypeOK, WorkerPCs
<1>10. LabelsInv' /\ ClaimInv'
  BY <1>2, <1>3, <1>4 DEF IInv, LabelsInv, ClaimInv, WorkerPCs
<1>11. InPlaceInv'
  <2>1. refCount = 1 => Holders = {}
    BY <1>6, <1>7, HoldersFinite, FS_EmptySet DEF References
  <2> QED
    BY <1>1, <1>2, <1>3, <1>4, <2>1 DEF IInv, InPlaceInv, ClaimInv, ClaimingPCs
<1>12. RetainInv' /\ PageInv' /\ ForwardedInv'
  BY <1>1, <1>2, <1>3, <1>4
  DEF IInv, RetainInv, PageInv, ForwardedInv, AfterPCs, DetachingPCs, ReleasePCs, AllForwarded
<1> QED
  BY <1>8, <1>9, <1>10, <1>11, <1>12 DEF IInv

\* The worker's release: the relocation gives its own reference up.
LEMMA WorkerReleaseInv ==
  ASSUME IInv, NEW w \in Workers, ReleaseCas(w)
  PROVE  IInv'
<1> USE DEF ReleaseCas, AfterRelease, Goto, flagVars, lockVars, localVars
<1>0. TypeOK /\ w \in Threads /\ w \notin Mutators
  BY ThreadsAssumption DEF IInv, Threads
<1>1. PICK l \in {"release_notify", "detach_load"} : pc' = [pc EXCEPT ![w] = l]
  OBVIOUS
<1>2. Holders' = Holders /\ \A m \in Mutators : pc'[m] = pc[m]
  <2>1. Holders' = Holders
    BY <1>0, <1>1, HoldersKeep
  <2>2. \A m \in Mutators : pc'[m] = pc[m]
    BY <1>0, <1>1 DEF TypeOK, Threads
  <2> QED
    BY <2>1, <2>2
<1>3. \A v \in Workers \ {w} : pc'[v] = pc[v] /\ pc[v] \in {"start", "skip"}
  BY <1>0, <1>1 DEF IInv, ClaimInv, TypeOK, Threads
<1>4. pc'[w] = l
  BY <1>0, <1>1 DEF TypeOK
<1>5. Relocating /\ ~Relocating' /\ (Sealed' <=> Sealed)
  BY <1>0, <1>3, <1>4 DEF Relocating, RelocatingPCs, Sealed, ClaimingPCs
<1>6. References \in Nat /\ References # 0 /\ References' = References - 1
  BY <1>2, <1>5, ReferencesNat, HoldersFinite DEF References
<1>7. CountInv'
  BY <1>5, <1>6 DEF IInv, CountInv
<1>8. TypeOK'
  BY <1>0, <1>1 DEF TypeOK, WorkerPCs, ReleasePCs
<1>9. LabelsInv' /\ ClaimInv'
  BY <1>2, <1>3, <1>4 DEF IInv, LabelsInv, ClaimInv, WorkerPCs, ReleasePCs
<1>10. InPlaceInv' /\ RetainInv' /\ PageInv'
  BY <1>2, <1>3, <1>4 DEF IInv, InPlaceInv, RetainInv, PageInv, ClaimInv, ClaimingPCs
<1>11. ForwardedInv'
  BY <1>2, <1>3, <1>4 DEF IInv, ForwardedInv, AfterPCs, DetachingPCs, ReleasePCs, AllForwarded
<1> QED
  BY <1>7, <1>8, <1>9, <1>10, <1>11 DEF IInv

\* Waking up spuriously, and stuttering, touch nothing the invariant is about.
LEMMA IdleInv ==
  ASSUME IInv, UNCHANGED vars \/ \E w \in Workers : SpuriousWakeup(w)
  PROVE  IInv'
<1>1. /\ UNCHANGED <<flagVars, localVars, refCount, refLock, forwarded, pc>>
      /\ TypeOK => refWaiters' \subseteq Workers
  BY DEF SpuriousWakeup, vars, lockVars, TypeOK
<1> USE <1>1 DEF flagVars, localVars
<1>2. Holders' = Holders /\ (Relocating' <=> Relocating) /\ (Sealed' <=> Sealed)
  BY DEF Holders, Relocating, Sealed
<1>3. TypeOK' /\ LabelsInv' /\ ClaimInv'
  BY DEF IInv, TypeOK, LabelsInv, ClaimInv
<1>4. CountInv' /\ InPlaceInv' /\ RetainInv'
  BY <1>2 DEF IInv, CountInv, References, InPlaceInv, RetainInv
<1>5. PageInv' /\ ForwardedInv'
  BY DEF IInv, PageInv, ForwardedInv, AllForwarded
<1> QED
  BY <1>3, <1>4, <1>5 DEF IInv
-----------------------------------------------------------------------------
\* A step is one of the kinds the lemmas above are about.
LEMMA StepKinds ==
  ASSUME [Next]_vars
  PROVE  \/ \E m \in Mutators : MutatorLocal(m) \/ RetainCas(m) \/ ReleaseCas(m)
         \/ \E w \in Workers : WorkerLocal(w) \/ ClaimCas(w) \/ ReleaseCas(w)
         \/ UNCHANGED vars \/ \E w \in Workers : SpuriousWakeup(w)
<1>1. ASSUME NEW m \in Mutators, Step(m), m \notin Workers
      PROVE  MutatorLocal(m) \/ RetainCas(m) \/ ReleaseCas(m)
  BY <1>1 DEF Step, Mutator, MutatorLocal
<1>2. ASSUME NEW w \in Workers, Step(w), w \notin Mutators
      PROVE  WorkerLocal(w) \/ ClaimCas(w) \/ ReleaseCas(w)
  BY <1>2 DEF Step, Worker, WorkerLocal
<1> QED
  BY <1>1, <1>2, ThreadsAssumption DEF Next, Threads

LEMMA NextInv == IInv /\ [Next]_vars => IInv'
BY StepKinds, MutatorLocalInv, RetainCasInv, MutatorReleaseInv, WorkerLocalInv,
   ClaimCasInv, WorkerReleaseInv, IdleInv

LEMMA InductiveInvariant == Spec => []IInv
BY InitInv, NextInv, PTL DEF Spec
-----------------------------------------------------------------------------
(* What the invariant is for.                                              *)

\* Every variable of the forwarding keeps its type.
THEOREM TypeCorrect == Spec => []TypeOK
BY InductiveInvariant, PTL DEF IInv

\* The count is the number of references to the page, negated while it is
\* claimed in place (the comment at zForwarding.cpp:37-50).
THEOREM CountCorrect == Spec => []CountIsHolders
<1>1. IInv => CountIsHolders
  BY DEF IInv, CountInv, CountIsHolders, References
<1> QED
  BY <1>1, InductiveInvariant, PTL

\* An in-place relocation has the page to itself.
THEOREM InPlaceExclusive == Spec => []InPlaceIsExclusive
<1>1. IInv => InPlaceIsExclusive
  <2> SUFFICES ASSUME IInv, NEW w \in Workers, OwnsInPlace(w)
               PROVE  Holders = {} /\ refCount = -1
    BY DEF InPlaceIsExclusive
  <2>1. Sealed /\ Holders = {}
    BY DEF IInv, InPlaceInv, OwnsInPlace, Sealed
  <2>2. Relocating
    BY DEF IInv, ClaimInv, OwnsInPlace, Relocating, RelocatingPCs
  <2>3. References = 1
    BY <2>1, <2>2, FS_EmptySet DEF References
  <2> QED
    BY <2>1, <2>3 DEF IInv, CountInv
<1> QED
  BY <1>1, InductiveInvariant, PTL

\* A page that was freed or shared is retained by nobody.
THEOREM RecycledUnused == Spec => []RecycledIsUnused
<1>1. IInv => RecycledIsUnused
  BY ReferencesNat DEF IInv, PageInv, CountInv, RecycledIsUnused
<1> QED
  BY <1>1, InductiveInvariant, PTL

\* The asserts at zForwarding.cpp:115 and :139 never fail.
THEOREM AssertsHold == Spec => []CountAsserts
<1>1. ASSUME IInv, NEW t \in Threads, pc[t] = "release_load"
      PROVE  refCount # 0
  <2>1. CASE t \in Mutators
    BY <1>1, <2>1, ReferencesNat DEF IInv, CountInv, Holders
  <2>2. CASE t \in Workers
    <3>1. Relocating
      BY <1>1, <2>2 DEF IInv, ClaimInv, Relocating, RelocatingPCs
    <3> QED
      BY <1>1, <3>1, ReferencesNat DEF IInv, CountInv
  <2> QED
    BY <2>1, <2>2 DEF Threads
<1>2. ASSUME IInv, NEW w \in Workers, pc[w] = "claim_load"
      PROVE  refCount > 0
  <2>1. Relocating /\ ~Sealed
    BY <1>2 DEF IInv, ClaimInv, InPlaceInv, Relocating, RelocatingPCs, Sealed, ClaimingPCs
  <2> QED
    BY <1>2, <2>1, ReferencesNat DEF IInv, CountInv
<1>3. IInv => CountAsserts
  BY <1>1, <1>2 DEF CountAsserts
<1> QED
  BY <1>3, InductiveInvariant, PTL

\* forward_object never fails to find the object (zRelocate.cpp:414).
THEOREM ForwardObjectFinds == Spec => []ForwardFinds
<1>1. IInv => ForwardFinds
  BY DEF IInv, ForwardedInv, ForwardFinds
<1> QED
  BY <1>1, InductiveInvariant, PTL

\* How a step changes the count, kind by kind.
LEMMA CountSteps ==
  ASSUME IInv, [Next]_vars
  PROVE  /\ refCount = 0 => refCount' = 0
         /\ refCount < 0 => refCount' \in {refCount, refCount + 1}
<1>1. \/ refCount' = refCount
      \/ \E m \in Mutators : RetainCas(m)
      \/ \E t \in Threads : ReleaseCas(t)
      \/ \E w \in Workers : ClaimCas(w)
  <2>1. ASSUME NEW m \in Mutators, MutatorLocal(m)
        PROVE  refCount' = refCount
    BY <2>1, MutatorLocalFrame DEF IInv
  <2>2. ASSUME NEW w \in Workers, WorkerLocal(w)
        PROVE  refCount' = refCount
    BY <2>2, WorkerLocalFrame
  <2>3. UNCHANGED vars \/ (\E w \in Workers : SpuriousWakeup(w)) => refCount' = refCount
    BY DEF vars, SpuriousWakeup
  <2> QED
    BY <2>1, <2>2, <2>3, StepKinds DEF Threads
<1>2. ASSUME NEW m \in Mutators, RetainCas(m)
      PROVE  refCount > 0
  BY <1>2 DEF IInv, RetainInv, RetainCas
<1>3. ASSUME NEW t \in Threads, ReleaseCas(t)
      PROVE  refCount # 0 /\ (refCount < 0 => refCount' = refCount + 1)
  <2>1. CASE t \in Mutators
    BY <1>3, <2>1, ReferencesNat DEF IInv, CountInv, Holders, ReleaseCas, TypeOK
  <2>2. CASE t \in Workers
    <3>1. Relocating
      BY <1>3, <2>2 DEF IInv, ClaimInv, Relocating, RelocatingPCs, ReleaseCas
    <3> QED
      BY <1>3, <3>1, ReferencesNat DEF IInv, CountInv, ReleaseCas, TypeOK
  <2> QED
    BY <2>1, <2>2 DEF Threads
<1>4. ASSUME NEW w \in Workers, ClaimCas(w)
      PROVE  refCount > 0
  <2>1. Relocating /\ ~Sealed
    BY <1>4 DEF IInv, ClaimInv, InPlaceInv, Relocating, RelocatingPCs, Sealed, ClaimingPCs, ClaimCas
  <2> QED
    BY <2>1, ReferencesNat DEF IInv, CountInv
<1> QED
  BY <1>1, <1>2, <1>3, <1>4 DEF IInv, TypeOK

\* A zero reference count never changes again (zForwarding.cpp:39).
THEOREM ZeroCountIsFinal == Spec => ZeroIsFinal
<1>1. IInv /\ [Next]_vars => [refCount = 0 => refCount' = 0]_vars
  BY CountSteps
<1> QED
  BY <1>1, InductiveInvariant, PTL DEF Spec, ZeroIsFinal

\* A negative reference count is only released (zForwarding.cpp:44).
THEOREM NegativeCountIsOnlyReleased == Spec => NegativeOnlyReleased
<1>1. IInv /\ [Next]_vars => [refCount < 0 => refCount' \in {refCount, refCount + 1}]_vars
  BY CountSteps
<1> QED
  BY <1>1, InductiveInvariant, PTL DEF Spec, NegativeOnlyReleased
-----------------------------------------------------------------------------
(* The counting implements ForwardingLease.                                *)

LEMMA LeaseInitially == Init => Lease!LeaseInit
<1> SUFFICES ASSUME Init PROVE Lease!LeaseInit
  OBVIOUS
<1>1. Holders = {} /\ Relocating
  BY ThreadsAssumption DEF Init, Holders, Relocating, RelocatingPCs, Threads
<1>2. LeaseState = "open"
  BY DEF Init, LeaseState
<1> QED
  BY <1>1, <1>2 DEF Lease!LeaseInit

LEMMA LeaseStep ==
  ASSUME IInv, IInv', [Next]_vars
  PROVE  [Lease!LeaseNext]_(Lease!leaseVars)
<1> USE DEF Lease!leaseVars
\* What the lease is, and that the count tells sealed from open.
<1>1. /\ refCount < 0 <=> Sealed /\ References # 0
      /\ Sealed /\ ~inPlace => Relocating
      /\ page = "recycled" => refCount = 0
      /\ page \in {"from", "recycled"} /\ inPlace \in BOOLEAN
  <2>1. refCount < 0 <=> Sealed /\ References # 0
    BY ReferencesNat DEF IInv, CountInv
  <2>2. Sealed /\ ~inPlace => Relocating
    BY DEF IInv, ClaimInv, Sealed, ClaimingPCs, Relocating, RelocatingPCs
  <2> QED
    BY <2>1, <2>2 DEF IInv, PageInv, TypeOK
<1>2. ASSUME NEW m \in Mutators, MutatorLocal(m)
      PROVE  UNCHANGED Lease!leaseVars
  <2>1. UNCHANGED <<refCount, flagVars, Holders, Relocating>>
    BY <1>2, MutatorLocalFrame DEF IInv
  <2> QED
    BY <2>1 DEF LeaseState, flagVars
<1>3. ASSUME NEW m \in Mutators, RetainCas(m)
      PROVE  Lease!Retain(m)
  <2>1. refCount > 0 /\ refCount' = refCount + 1 /\ UNCHANGED flagVars
    BY <1>3 DEF IInv, RetainInv, RetainCas
  <2>2. ~Sealed /\ References # 0
    BY <2>1, ReferencesNat DEF IInv, CountInv
  <2>3. LeaseState = "open" /\ LeaseState' = "open"
    BY <1>1, <2>1, <2>2 DEF LeaseState, flagVars, Sealed, IInv, TypeOK
  <2>4. m \notin Holders /\ Holders' = Holders \cup {m}
    BY <1>3, HoldersEnter DEF IInv, RetainCas, Goto, RefHolderPCs, Holders
  <2>5. \A w \in Workers : pc'[w] = pc[w]
    BY <1>3, ThreadsAssumption DEF IInv, TypeOK, Threads, RetainCas, Goto
  <2> QED
    BY <2>2, <2>3, <2>4, <2>5, ReferencesNat DEF Lease!Retain, Relocating
<1>4. ASSUME NEW m \in Mutators, ReleaseCas(m)
      PROVE  Lease!Release(m)
  <2>1. m \in Threads /\ m \notin Workers
    BY ThreadsAssumption DEF Threads
  <2>2. PICK l \in {"release_notify", "stall", "idle"} : pc' = [pc EXCEPT ![m] = l]
    BY <1>4, <2>1 DEF ReleaseCas, AfterRelease, Goto
  <2>3. pc[m] \in RefHolderPCs /\ l \notin RefHolderPCs
    BY <1>4 DEF ReleaseCas, RefHolderPCs
  <2>4. m \in Holders /\ Holders' = Holders \ {m}
    BY <2>2, <2>3, HoldersLeave DEF IInv
  <2>5. \A w \in Workers : pc'[w] = pc[w]
    BY <2>1, <2>2 DEF IInv, TypeOK, Threads
  <2>6. UNCHANGED <<Relocating, Sealed, inPlace, page>>
    BY <1>4, <2>5 DEF Relocating, Sealed, ReleaseCas, flagVars
  <2>7. ~inPlace => (refCount < 0 <=> refCount' < 0)
    <3>1. Relocating => References > 1
      BY <2>4, HoldersFinite, FS_EmptySet DEF References
    <3>2. References # 0 /\ (refCount = References \/ refCount = -References)
      BY <2>4, ReferencesNat DEF IInv, CountInv
    <3>3. refCount' = IF refCount > 0 THEN refCount - 1 ELSE refCount + 1
      BY <1>4 DEF ReleaseCas
    <3> QED
      BY <1>1, <3>1, <3>2, <3>3, ReferencesNat
  <2> QED
    BY <1>1, <2>4, <2>6, <2>7 DEF Lease!Release, LeaseState
<1>5. ASSUME NEW w \in Workers, WorkerLocal(w)
      PROVE  Lease!GrantExclusive \/ Lease!Recycle \/ UNCHANGED Lease!leaseVars
  <2>1. UNCHANGED <<refCount, Holders, Relocating, Sealed>>
    BY <1>5, WorkerLocalFrame
  <2>2. CASE InPlaceStart(w)
    <3>1. Sealed /\ ~inPlace /\ inPlace' /\ Holders = {} /\ page' = page
      BY <2>2 DEF InPlaceStart, IInv, InPlaceInv, Sealed, flagVars
    <3>2. LeaseState = "sealed" /\ LeaseState' = "exclusive"
      BY <1>1, <3>1, ReferencesNat DEF LeaseState, IInv, PageInv, CountInv
    <3> QED
      BY <2>1, <3>1, <3>2 DEF Lease!GrantExclusive
  <2>3. CASE Recycle(w)
    <3>1. refCount = 0 /\ Holders = {} /\ ~Relocating
      BY <2>3, ReferencesNat DEF Recycle, IInv, PageInv, CountInv
    <3>2. LeaseState \in {"open", "exclusive"} /\ LeaseState' = "recycled"
      <4>1. page = "from"
        BY <1>1, <2>3 DEF Recycle, IInv, PageInv, ClaimInv
      <4> QED
        BY <1>1, <2>3, <3>1, <4>1 DEF Recycle, LeaseState
    <3> QED
      BY <2>1, <3>1, <3>2 DEF Lease!Recycle
  <2>4. CASE ~InPlaceStart(w) /\ ~Recycle(w)
    <3>1. UNCHANGED <<inPlace, page>>
      BY <1>5, <2>4
      DEF WorkerLocal, Claim, OutOfPages, ClaimLoad, ClaimRetry, IterateObject, IterateEnd,
          ReleaseLoad, ReleaseRetry, ReleaseNotify, DetachLoad, Lock, CheckPasses,
          CheckFails, Wait, MarkDone, flagVars
    <3> QED
      BY <2>1, <3>1 DEF LeaseState
  <2> QED
    BY <2>2, <2>3, <2>4
<1>6. ASSUME NEW w \in Workers, ClaimCas(w)
      PROVE  Lease!Seal
  <2>1. w \in Threads /\ w \notin Mutators
    BY ThreadsAssumption DEF Threads
  <2>2. PICK l \in {"in_place_start", "claim_lock"} : pc' = [pc EXCEPT ![w] = l]
    BY <1>6 DEF ClaimCas, Goto
  <2>3. Holders' = Holders
    BY <2>1, <2>2, HoldersKeep DEF IInv
  <2>4. \A v \in Workers \ {w} : pc'[v] = pc[v] /\ pc[v] \in {"start", "skip"}
    BY <1>6, <2>1, <2>2 DEF IInv, ClaimInv, ClaimCas, TypeOK
  <2>5. Relocating /\ Relocating' /\ ~Sealed /\ ~inPlace
    BY <1>6, <2>1, <2>2, <2>4
    DEF Relocating, RelocatingPCs, Sealed, ClaimingPCs, IInv, InPlaceInv, TypeOK, ClaimCas
  <2>6. refCount > 0 /\ refCount' = -refCount /\ UNCHANGED flagVars
    BY <1>6, <2>5, ReferencesNat DEF IInv, CountInv, ClaimCas
  <2>7. LeaseState = "open" /\ LeaseState' = "sealed"
    BY <1>1, <2>5, <2>6 DEF LeaseState, flagVars, IInv, TypeOK
  <2> QED
    BY <2>3, <2>5, <2>7 DEF Lease!Seal
<1>7. ASSUME NEW w \in Workers, ReleaseCas(w)
      PROVE  Lease!RelocationDone
  <2>1. w \in Threads /\ w \notin Mutators
    BY ThreadsAssumption DEF Threads
  <2>2. PICK l \in {"release_notify", "detach_load"} : pc' = [pc EXCEPT ![w] = l]
    BY <1>7 DEF ReleaseCas, AfterRelease, Goto
  <2>3. Holders' = Holders
    BY <1>7, <2>1, <2>2, HoldersKeep DEF IInv
  <2>4. \A v \in Workers \ {w} : pc'[v] = pc[v] /\ pc[v] \in {"start", "skip"}
    BY <1>7, <2>1, <2>2 DEF IInv, ClaimInv, ReleaseCas, TypeOK
  <2>5. Relocating /\ ~Relocating' /\ (Sealed => inPlace) /\ UNCHANGED flagVars
    BY <1>7, <2>1, <2>2, <2>4
    DEF Relocating, RelocatingPCs, Sealed, ClaimingPCs, IInv, TypeOK, ReleaseCas
  <2>6. page = "from"
    BY <1>7, <1>1, <2>4 DEF IInv, PageInv, ReleaseCas
  <2>7. ~inPlace => ~(refCount < 0) /\ ~(refCount' < 0)
    BY <1>1, <1>7, <2>5, ReferencesNat DEF IInv, CountInv, TypeOK, ReleaseCas
  <2>8. LeaseState \in {"open", "exclusive"} /\ LeaseState' = LeaseState
    BY <1>1, <2>5, <2>6, <2>7 DEF LeaseState, flagVars
  <2> QED
    BY <2>3, <2>5, <2>8 DEF Lease!RelocationDone
<1>8. ASSUME UNCHANGED vars \/ \E w \in Workers : SpuriousWakeup(w)
      PROVE  UNCHANGED Lease!leaseVars
  <2>1. UNCHANGED <<pc, refCount, inPlace, page>>
    BY <1>8 DEF vars, SpuriousWakeup, flagVars
  <2> QED
    BY <2>1 DEF Holders, Relocating, LeaseState
<1> QED
  BY <1>2, <1>3, <1>4, <1>5, <1>6, <1>7, <1>8, StepKinds DEF Lease!LeaseNext

\* Every behaviour of the counting is a behaviour of the lease.
THEOREM CountingImplementsLease == Spec => ImplementsLease
<1>1. IInv /\ IInv' /\ [Next]_vars => [Lease!LeaseNext]_(Lease!leaseVars)
  BY LeaseStep
<1> QED
  BY <1>1, LeaseInitially, InductiveInvariant, PTL DEF Spec, ImplementsLease, Lease!LeaseSpec
=============================================================================

---------------------------- MODULE ZForwarding ----------------------------
(***************************************************************************)
(* One ZForwarding: the page it relocates, the reference count that guards *)
(* the page, and the threads that run                                      *)
(*   ZRelocate::relocate_object        (mutators: find, retain, copy,      *)
(*                                      insert, release, wait, forward)    *)
(*   ZRelocateWork::do_forwarding      (the GC worker that claimed it:     *)
(*                                      relocate, maybe in place, release, *)
(*                                      detach, recycle, mark done).       *)
(*                                                                         *)
(* Every load, compare-and-swap, lock and wait of zForwarding.cpp is a     *)
(* step of its own.  The forwarding table is the set of objects that have  *)
(* an entry (ZForwardingTable models the table itself), and the relocation *)
(* queue's add_and_wait is the await on done that it promises              *)
(* (ZRelocateQueue models the queue).                                      *)
(***************************************************************************)
EXTENDS Integers, FiniteSets

CONSTANTS Workers,    \* GC worker threads
          Mutators,   \* threads that call ZRelocate::relocate_object
          Objects,    \* live objects on the page
          NoThread,   \* nobody (owner of a free lock)
          NoObject    \* no object

ASSUME ThreadsAssumption ==
  /\ IsFiniteSet(Workers)
  /\ IsFiniteSet(Mutators)
  /\ Workers \cap Mutators = {}
  /\ NoThread \notin Workers \cup Mutators
  /\ NoObject \notin Objects

Threads == Workers \cup Mutators

VARIABLES
  claimed,     \* _claimed: a worker has taken this forwarding
  refCount,    \* _ref_count
  refLock,     \* owner of _ref_lock, or NoThread
  refWaiters,  \* threads inside _ref_lock.wait()
  inPlace,     \* _in_place
  done,        \* _done
  forwarded,   \* objects with an entry in the forwarding table
  page,        \* "from", or "recycled" once freed or shared as a target
  pc,          \* where each thread is
  loaded,      \* each thread's local ref_count, last loaded
  object,      \* the object a mutator is relocating
  stalled      \* mutators whose allocation failed (to_addr is null)

flagVars  == <<claimed, inPlace, done, page>>
lockVars  == <<refLock, refWaiters>>
localVars == <<loaded, object, stalled>>

vars == <<flagVars, lockVars, localVars, refCount, forwarded, pc>>

MutatorPCs == {"idle", "retain_load", "retain_cas", "relocate", "stall", "forward"}
WorkerPCs  == {"start", "skip", "iterate", "claim_load", "claim_cas",
               "claim_lock", "claim_check", "claim_wait", "claim_waiting",
               "in_place_start", "detach_load", "detach_lock",
               "detach_check", "detach_wait", "detach_waiting", "recycle",
               "mark_done", "end"}
ReleasePCs == {"release_load", "release_cas", "release_notify"}

Init ==
  /\ claimed = FALSE
  /\ refCount = 1
  /\ refLock = NoThread
  /\ refWaiters = {}
  /\ inPlace = FALSE
  /\ done = FALSE
  /\ forwarded = {}
  /\ page = "from"
  /\ pc = [t \in Threads |-> IF t \in Workers THEN "start" ELSE "idle"]
  /\ loaded = [t \in Threads |-> 0]
  /\ object = [m \in Mutators |-> NoObject]
  /\ stalled = {}

Goto(t, label) == pc' = [pc EXCEPT ![t] = label]

AllForwarded == forwarded = Objects
-----------------------------------------------------------------------------
(* release_page, called by the mutators and by the worker.                 *)

AfterRelease(t) ==
  IF t \in Workers THEN "detach_load"
  ELSE IF t \in stalled THEN "stall" ELSE "idle"

ReleaseLoad(t) ==
  /\ pc[t] = "release_load"
  /\ loaded' = [loaded EXCEPT ![t] = refCount]
  /\ Goto(t, "release_cas")
  /\ UNCHANGED <<lockVars, flagVars, refCount, forwarded, object, stalled>>

ReleaseRetry(t) ==
  /\ pc[t] = "release_cas"
  /\ refCount # loaded[t]
  /\ Goto(t, "release_load")
  /\ UNCHANGED <<lockVars, flagVars, localVars, refCount, forwarded>>

\* Mutants: a claimed count is released downwards; only 0 is signalled.
ReleaseCasDown(t) ==
  /\ pc[t] = "release_cas"
  /\ refCount = loaded[t]
  /\ refCount' = refCount - 1
  /\ Goto(t, IF refCount = 1 THEN "release_notify" ELSE AfterRelease(t))
  /\ UNCHANGED <<lockVars, flagVars, localVars, forwarded>>

ReleaseCasSignalsZero(t) ==
  /\ pc[t] = "release_cas"
  /\ refCount = loaded[t]
  /\ refCount' = IF refCount > 0 THEN refCount - 1 ELSE refCount + 1
  /\ Goto(t, IF refCount \in {1, -1} THEN "release_notify" ELSE AfterRelease(t))
  /\ UNCHANGED <<lockVars, flagVars, localVars, forwarded>>

\* The count moves towards zero; reaching 0 or -1 must be signalled.
ReleaseCas(t) ==
  /\ pc[t] = "release_cas"
  /\ refCount = loaded[t]
  /\ refCount' = IF refCount > 0 THEN refCount - 1 ELSE refCount + 1
  /\ Goto(t, IF refCount \in {1, -1, -2} THEN "release_notify" ELSE AfterRelease(t))
  /\ UNCHANGED <<lockVars, flagVars, localVars, forwarded>>

ReleaseNotify(t) ==
  /\ pc[t] = "release_notify"
  /\ refLock = NoThread
  /\ refWaiters' = {}
  /\ Goto(t, AfterRelease(t))
  /\ UNCHANGED <<flagVars, localVars, refCount, refLock, forwarded>>
-----------------------------------------------------------------------------
(* ZRelocate::relocate_object, run by a mutator that needs object o.       *)

\* find missed.  (A find that hits returns at once and changes nothing.)
Find(m, o) ==
  /\ pc[m] = "idle"
  /\ o \notin forwarded
  /\ object' = [object EXCEPT ![m] = o]
  /\ Goto(m, "retain_load")
  /\ UNCHANGED <<lockVars, flagVars, refCount, forwarded, loaded, stalled>>

\* Mutant: a claimed page counts as relocated.
RetainLoadClaimed(m) ==
  /\ pc[m] = "retain_load"
  /\ loaded' = [loaded EXCEPT ![m] = refCount]
  /\ Goto(m, IF refCount <= 0 THEN "forward" ELSE "retain_cas")
  /\ UNCHANGED <<lockVars, flagVars, refCount, forwarded, object, stalled>>

\* retain_page: 0 is released, negative is claimed, positive can be retained.
RetainLoad(m) ==
  /\ pc[m] = "retain_load"
  /\ loaded' = [loaded EXCEPT ![m] = refCount]
  /\ Goto(m, CASE refCount = 0 -> "forward"
               [] refCount < 0 -> "stall"
               [] OTHER        -> "retain_cas")
  /\ UNCHANGED <<lockVars, flagVars, refCount, forwarded, object, stalled>>

RetainRetry(m) ==
  /\ pc[m] = "retain_cas"
  /\ refCount # loaded[m]
  /\ Goto(m, "retain_load")
  /\ UNCHANGED <<lockVars, flagVars, localVars, refCount, forwarded>>

\* Mutant: an increment without the comparison.
RetainAdd(m) ==
  /\ pc[m] = "retain_cas"
  /\ refCount' = refCount + 1
  /\ Goto(m, "relocate")
  /\ UNCHANGED <<lockVars, flagVars, localVars, forwarded>>

RetainCas(m) ==
  /\ pc[m] = "retain_cas"
  /\ refCount = loaded[m]
  /\ refCount' = refCount + 1
  /\ Goto(m, "relocate")
  /\ UNCHANGED <<lockVars, flagVars, localVars, forwarded>>

\* relocate_object_inner: copy and insert; losing the race to insert yields
\* the winner's address and is the same table.
Relocate(m) ==
  /\ pc[m] = "relocate"
  /\ forwarded' = forwarded \cup {object[m]}
  /\ Goto(m, "release_load")
  /\ UNCHANGED <<lockVars, flagVars, localVars, refCount>>

\* relocate_object_inner: the allocation failed.
RelocateFails(m) ==
  /\ pc[m] = "relocate"
  /\ stalled' = stalled \cup {m}
  /\ Goto(m, "release_load")
  /\ UNCHANGED <<lockVars, flagVars, refCount, forwarded, loaded, object>>

\* add_and_wait returns once the forwarding is done.
Stall(m) ==
  /\ pc[m] = "stall"
  /\ done
  /\ stalled' = stalled \ {m}
  /\ Goto(m, "forward")
  /\ UNCHANGED <<lockVars, flagVars, refCount, forwarded, loaded, object>>

ForwardObject(m) ==
  /\ pc[m] = "forward"
  /\ Goto(m, "idle")
  /\ UNCHANGED <<lockVars, flagVars, localVars, refCount, forwarded>>

Mutator(m) ==
  \/ \E o \in Objects : Find(m, o)
  \/ RetainLoad(m) \/ RetainRetry(m) \/ RetainCas(m)
  \/ Relocate(m) \/ RelocateFails(m)
  \/ Stall(m) \/ ForwardObject(m)
-----------------------------------------------------------------------------
(* The GC worker: claim, do_forwarding, mark_done.                         *)

Claim(w) ==
  /\ pc[w] = "start"
  /\ claimed' = TRUE
  /\ Goto(w, IF claimed THEN "skip" ELSE "iterate")
  /\ UNCHANGED <<lockVars, localVars, refCount, inPlace, done, forwarded, page>>

\* object_iterate, one live object: find hit, or allocate, copy and insert.
IterateObject(w, o) ==
  /\ pc[w] = "iterate"
  /\ o \notin forwarded
  /\ forwarded' = forwarded \cup {o}
  /\ UNCHANGED <<lockVars, flagVars, localVars, refCount, pc>>

\* No page to relocate to: relocate the page onto itself.
OutOfPages(w) ==
  /\ pc[w] = "iterate"
  /\ ~AllForwarded
  /\ ~inPlace
  /\ Goto(w, "claim_load")
  /\ UNCHANGED <<lockVars, flagVars, localVars, refCount, forwarded>>

\* in_place_relocation_claim_page
ClaimLoad(w) ==
  /\ pc[w] = "claim_load"
  /\ loaded' = [loaded EXCEPT ![w] = refCount]
  /\ Goto(w, "claim_cas")
  /\ UNCHANGED <<lockVars, flagVars, refCount, forwarded, object, stalled>>

ClaimRetry(w) ==
  /\ pc[w] = "claim_cas"
  /\ refCount # loaded[w]
  /\ Goto(w, "claim_load")
  /\ UNCHANGED <<lockVars, flagVars, localVars, refCount, forwarded>>

\* Mutant: the worker does not wait for the threads that retain the page.
ClaimCasNoWait(w) ==
  /\ pc[w] = "claim_cas"
  /\ refCount = loaded[w]
  /\ refCount' = -refCount
  /\ Goto(w, "in_place_start")
  /\ UNCHANGED <<lockVars, flagVars, localVars, forwarded>>

ClaimCas(w) ==
  /\ pc[w] = "claim_cas"
  /\ refCount = loaded[w]
  /\ refCount' = -refCount
  /\ Goto(w, IF refCount = 1 THEN "in_place_start" ELSE "claim_lock")
  /\ UNCHANGED <<lockVars, flagVars, localVars, forwarded>>

InPlaceStart(w) ==
  /\ pc[w] = "in_place_start"
  /\ inPlace' = TRUE
  /\ Goto(w, "iterate")
  /\ UNCHANGED <<lockVars, localVars, claimed, refCount, done, forwarded, page>>

IterateEnd(w) ==
  /\ pc[w] = "iterate"
  /\ AllForwarded
  /\ Goto(w, "release_load")
  /\ UNCHANGED <<lockVars, flagVars, localVars, refCount, forwarded>>
-----------------------------------------------------------------------------
(* Waiting on _ref_lock: for -1 when claiming in place, for 0 in           *)
(* detach_page.                                                            *)

DetachLoad(w) ==
  /\ pc[w] = "detach_load"
  /\ Goto(w, IF refCount = 0 THEN "recycle" ELSE "detach_lock")
  /\ UNCHANGED <<lockVars, flagVars, localVars, refCount, forwarded>>

Lock(w) ==
  /\ \/ pc[w] \in {"claim_lock", "detach_lock"}
     \/ pc[w] \in {"claim_waiting", "detach_waiting"} /\ w \notin refWaiters
  /\ refLock = NoThread
  /\ refLock' = w
  /\ Goto(w, IF pc[w] \in {"claim_lock", "claim_waiting"}
             THEN "claim_check" ELSE "detach_check")
  /\ UNCHANGED <<flagVars, localVars, refCount, refWaiters, forwarded>>

\* The wait loop's condition holds: leave the locker's scope.
CheckPasses(w) ==
  /\ \/ pc[w] = "claim_check"  /\ refCount = -1
     \/ pc[w] = "detach_check" /\ refCount = 0
  /\ refLock' = NoThread
  /\ Goto(w, IF pc[w] = "claim_check" THEN "in_place_start" ELSE "recycle")
  /\ UNCHANGED <<flagVars, localVars, refCount, refWaiters, forwarded>>

CheckFails(w) ==
  /\ \/ pc[w] = "claim_check"  /\ refCount # -1
     \/ pc[w] = "detach_check" /\ refCount # 0
  /\ Goto(w, IF pc[w] = "claim_check" THEN "claim_wait" ELSE "detach_wait")
  /\ UNCHANGED <<lockVars, flagVars, localVars, refCount, forwarded>>

Wait(w) ==
  /\ pc[w] \in {"claim_wait", "detach_wait"}
  /\ refLock' = NoThread
  /\ refWaiters' = refWaiters \cup {w}
  /\ Goto(w, IF pc[w] = "claim_wait" THEN "claim_waiting" ELSE "detach_waiting")
  /\ UNCHANGED <<flagVars, localVars, refCount, forwarded>>

\* A condition variable may wake up without a notification.
SpuriousWakeup(w) ==
  /\ w \in refWaiters
  /\ refWaiters' = refWaiters \ {w}
  /\ UNCHANGED <<flagVars, localVars, refCount, refLock, forwarded, pc>>

\* free_page, or share_target_page when the page was relocated in place.
Recycle(w) ==
  /\ pc[w] = "recycle"
  /\ page' = "recycled"
  /\ Goto(w, "mark_done")
  /\ UNCHANGED <<lockVars, localVars, claimed, refCount, inPlace, done, forwarded>>

MarkDone(w) ==
  /\ pc[w] = "mark_done"
  /\ done' = TRUE
  /\ Goto(w, "end")
  /\ UNCHANGED <<lockVars, localVars, claimed, refCount, inPlace, forwarded, page>>

Worker(w) ==
  \/ Claim(w)
  \/ \E o \in Objects : IterateObject(w, o)
  \/ OutOfPages(w)
  \/ ClaimLoad(w) \/ ClaimRetry(w) \/ ClaimCas(w) \/ InPlaceStart(w)
  \/ IterateEnd(w)
  \/ DetachLoad(w) \/ Lock(w) \/ CheckPasses(w) \/ CheckFails(w) \/ Wait(w)
  \/ Recycle(w) \/ MarkDone(w)
-----------------------------------------------------------------------------
Step(t) ==
  \/ ReleaseLoad(t) \/ ReleaseRetry(t) \/ ReleaseCas(t) \/ ReleaseNotify(t)
  \/ t \in Mutators /\ Mutator(t)
  \/ t \in Workers /\ Worker(t)

Finished ==
  /\ done
  /\ AllForwarded
  /\ \A t \in Threads : pc[t] \in {"idle", "skip", "end"}

Next ==
  \/ \E t \in Threads : Step(t)
  \/ \E w \in Workers : SpuriousWakeup(w)
  \/ Finished /\ UNCHANGED vars

\* Every thread that can run is eventually scheduled.  The compare-and-swap
\* loops and the lock need no more: a mutator retains at most once per object.
Spec == Init /\ [][Next]_vars /\ \A t \in Threads : WF_vars(Step(t))
-----------------------------------------------------------------------------
TypeOK ==
  /\ claimed \in BOOLEAN
  /\ refCount \in Int
  /\ refLock \in Workers \cup {NoThread}
  /\ refWaiters \subseteq Workers
  /\ inPlace \in BOOLEAN
  /\ done \in BOOLEAN
  /\ forwarded \subseteq Objects
  /\ page \in {"from", "recycled"}
  /\ pc \in [Threads -> MutatorPCs \cup WorkerPCs \cup ReleasePCs]
  /\ loaded \in [Threads -> Int]
  /\ object \in [Mutators -> Objects \cup {NoObject}]
  /\ stalled \subseteq Mutators

\* The threads that hold a reference to the page.
Holders ==
  {m \in Mutators : pc[m] \in {"relocate", "release_load", "release_cas"}}

\* The relocation holds the reference the forwarding was created with until
\* the worker's release_page.
RelocatingPCs == {"start", "skip", "iterate", "claim_load", "claim_cas", "claim_lock",
                  "claim_check", "claim_wait", "claim_waiting", "in_place_start",
                  "release_load", "release_cas"}
Relocating == \A w \in Workers : pc[w] \in RelocatingPCs

\* A worker owns the page exclusively: it is about to relocate in place or is
\* doing so.
OwnsInPlace(w) ==
  \/ pc[w] = "in_place_start"
  \/ inPlace /\ pc[w] \in {"iterate", "release_load", "release_cas"}

\* The count is the number of references, negated once an in-place relocation
\* asked for the page (the comment at zForwarding.cpp:37-50).
CountIsHolders ==
  LET n == Cardinality(Holders) + (IF Relocating THEN 1 ELSE 0)
  IN  refCount = n \/ refCount = -n

\* Nobody else looks at a page that is being relocated onto itself.
InPlaceIsExclusive ==
  (\E w \in Workers : OwnsInPlace(w)) => Holders = {} /\ refCount = -1

\* A page is freed, or shared as a target, only when nobody retains it.
RecycledIsUnused == page = "recycled" => Holders = {} /\ refCount = 0

\* The asserts of in_place_relocation_claim_page (:115) and release_page (:139).
CountAsserts ==
  /\ \A t \in Threads : pc[t] = "release_load" => refCount # 0
  /\ \A w \in Workers : pc[w] = "claim_load" => refCount > 0

\* The assert of forward_object (zRelocate.cpp:414): a thread that found the
\* page released, or waited for it, finds its object forwarded.
ForwardFinds == \A m \in Mutators : pc[m] = "forward" => object[m] \in forwarded

\* zForwarding.cpp:39: a zero reference count never changes again.
ZeroIsFinal == [][refCount = 0 => refCount' = 0]_vars

\* zForwarding.cpp:44: a negative reference count is only released.
NegativeOnlyReleased == [][refCount < 0 => refCount' \in {refCount, refCount + 1}]_vars

\* Nobody is stuck: a mutator that asked for an object gets it, and a claimed
\* forwarding is completed; no wakeup on _ref_lock is lost.
NobodyIsStuck ==
  /\ \A m \in Mutators : pc[m] # "idle" ~> pc[m] = "idle"
  /\ claimed ~> done

\* The state of the lease the page is under.
LeaseState ==
  CASE page = "recycled"         -> "recycled"
    [] page = "from" /\ inPlace  -> "exclusive"
    [] page = "from" /\ ~inPlace -> IF refCount < 0 THEN "sealed" ELSE "open"

Lease == INSTANCE ForwardingLease WITH
  Users <- Mutators, holders <- Holders, relocating <- Relocating, lease <- LeaseState

\* The reference count implements the lease on the page.
ImplementsLease == Lease!LeaseSpec
=============================================================================

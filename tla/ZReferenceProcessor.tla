------------------------- MODULE ZReferenceProcessor -------------------------
(***************************************************************************)
(* Soft, weak, final and phantom references, and weak roots, through old   *)
(* collections: references are discovered while the old generation is      *)
(* marked, resurrection is blocked when marking ends, workers clear the    *)
(* referents that died and chain the references to a pending list, a       *)
(* handshake makes sure that no thread still holds what it read before,    *)
(* resurrection is unblocked, and the chain is handed to the               *)
(* ReferenceHandler.  All the while Java threads load referents, ask what  *)
(* they refer to, and clear references.                                    *)
(* Objects do not move here (ZBarrier), and marking work is found where it *)
(* is (ZMark); colours say how well a referent's pointer is marked.        *)
(***************************************************************************)
EXTENDS Integers, FiniteSets

CONSTANTS Objects,     \* plain objects and references
          Null,
          Threads,     \* Java threads, the Finalizer among them
          Workers,
          Situations   \* heaps and bounds to start from, see Init

VARIABLES
  heap,        \* what never changes: types, strong edges, the young objects
  alive,       \* objects that have not been freed
  referent,    \* by reference and weak root: the pointer, [to, q]
  next,        \* FinalReferences with a looped next field
  discovered,  \* the discovered fields
  lists,       \* _discovered_list, by worker
  pending,     \* _pending_list and _pending_list_tail, [head, tail]
  external,    \* the pending list of the Universe
  strong, live,  \* mark bits of the old generation
  todo,        \* mark stack entries
  stage, blocked,  \* of the collection; ZResurrection::_blocked
  policy,      \* whether all soft references are to be cleared
  roots,       \* weak roots that have not been processed
  passed,      \* threads that have answered the handshake
  worker,      \* where a GC worker is
  thread,      \* where a Java thread is, and what its locals refer to
  queue,       \* FinalReferences whose finalizers have not been run
  seen,        \* what has been observed, for the properties
  bounds       \* operations, old and young collections that may still come

heapVars == <<heap, alive, queue>>
listVars == <<discovered, lists, pending, external>>
markVars == <<strong, live, todo>>
phaseVars == <<stage, blocked, policy, roots, passed>>
vars == <<heapVars, referent, next, listVars, markVars, phaseVars, worker, thread, seen, bounds>>

References == DOMAIN heap.type
Type(r) == IF r \in References THEN heap.type[r] ELSE "root"
IsYoung(a) == a \in heap.young

-----------------------------------------------------------------------------
(* Marking *)

\* The livemap has a bit for live objects and one for strongly live ones.
IsLive(a) == IsYoung(a) \/ a \in live
IsStronglyLive(a) == IsYoung(a) \/ a \in strong
IsMarked(a, finalizable) == IF finalizable THEN IsLive(a) ELSE IsStronglyLive(a)

Entry(a, finalizable, mark) == [obj |-> a, finalizable |-> finalizable, mark |-> mark]

\* ZMark::mark_object of a GC worker marks before it pushes, that of a Java
\* thread leaves marking to the worker that pops the entry.
MarkAndPush(own, S, finalizable, rest) ==
  LET new == {a \in S \ ({Null} \cup own) : ~IsMarked(a, finalizable)}
  IN  /\ live' = live \cup new \cup own
      /\ strong' = IF finalizable THEN strong ELSE strong \cup new \cup own
      /\ todo' = rest \cup {Entry(a, finalizable, FALSE) : a \in new}
Mark(S, finalizable) == MarkAndPush({}, S, finalizable, todo)

MarkFromJava(a) ==
  IF stage = "mark" /\ a # Null /\ ~IsStronglyLive(a)
  THEN todo' = todo \cup {Entry(a, FALSE, TRUE)} ELSE UNCHANGED todo

-----------------------------------------------------------------------------
(* Referents.  The quality of a pointer: marked through strongly, so before  *)
(* the last young collection, marked through for finalization, or not since  *)
(* marking started.  A null that was stored is as good as any.               *)

Pointer(a, q) == [to |-> a, q |-> q]
Cleared == Pointer(Null, "good")
IsMarkGood(o) == o.q = "good"
IsFinalizableGood(o) == o.q \in {"good", "aged", "finalizable"}

\* Mutant of SelfHeal: null is healed with like any other pointer.
SelfHealWithNull(f, o, heal) ==
  IF referent[f] # o /\ IsMarkGood(referent[f]) THEN referent ELSE [referent EXCEPT ![f] = heal]

\* ZBarrier::self_heal of a referent
SelfHeal(f, o, heal) ==
  IF \/ heal.to = Null /\ o.to # Null
     \/ referent[f] # o /\ IsMarkGood(referent[f])
  THEN referent ELSE [referent EXCEPT ![f] = heal]

\* The slow paths of the barriers of blocked resurrection make of a referent: phantom
\* references and weak roots keep what is live, the others what is strongly so.
StronglyLiveOrNull(a) == IF a # Null /\ IsStronglyLive(a) THEN a ELSE Null
LiveOrNull(a) == IF a # Null /\ IsLive(a) THEN a ELSE Null
Blocking(f, o) ==
  IF IsMarkGood(o) THEN o.to
  ELSE IF Type(f) \in {"phantom", "root"} THEN LiveOrNull(o.to) ELSE StronglyLiveOrNull(o.to)

-----------------------------------------------------------------------------
(* Java threads.  They load the referents of references they know, and of    *)
(* weak roots; the pointer is loaded first, and its barrier then looks       *)
(* whether resurrection is blocked.  There is no safepoint or handshake in   *)
(* between.                                                                  *)

Idle == [at |-> "idle"]
Operation == bounds.ops > 0 /\ bounds' = [bounds EXCEPT !.ops = @ - 1]
Runs(t) == thread[t].doing = Idle
Doing(t, what) == thread' = [thread EXCEPT ![t].doing = what]

Fields == References \cup heap.roots
Knows(t, f) == f \in thread[t].locals \cup queue \cup heap.roots

\* keepAlive: Reference.get, or a load of a weak root; otherwise refersTo.
\* The referent of a FinalReference is for the Finalizer.
LoadReferent(t, f, keepAlive) ==
  /\ Runs(t) /\ Operation /\ f \in Fields /\ Knows(t, f)
  /\ Type(f) = "phantom" => ~keepAlive
  /\ Type(f) = "final" => f \in queue /\ keepAlive
  /\ Doing(t, [at |-> "loaded", f |-> f, o |-> referent[f], keepAlive |-> keepAlive])
  /\ UNCHANGED <<heapVars, referent, next, listVars, markVars, phaseVars, worker, seen>>

IsBlocked(t) ==
  /\ thread[t].doing.at = "loaded"
  /\ Doing(t, [thread[t].doing EXCEPT !.at = IF blocked THEN "blocking" ELSE "barrier"])
  /\ UNCHANGED <<heapVars, referent, next, listVars, markVars, phaseVars, worker, seen, bounds>>

\* What the thread gets: the locals refer to it, or it is only compared.
Got(t, a) ==
  LET d == thread[t].doing
      Observe(set) == [seen EXCEPT ![set] = @ \cup {heap.referent[d.f]}]
  IN  /\ thread' = [thread EXCEPT ![t].doing = Idle,
                                  ![t].locals = IF d.keepAlive THEN @ \cup ({a} \ {Null}) ELSE @]
      /\ seen' = IF d.f \in seen.cleared THEN seen
                 ELSE IF a # Null THEN IF Type(d.f) = "final" THEN Observe("finalized") ELSE seen
                 ELSE IF Type(d.f) \in {"soft", "weak"} THEN Observe("weakly") ELSE seen
      /\ queue' = IF Type(d.f) = "final" THEN queue \ {d.f} ELSE queue
      /\ UNCHANGED <<heap, alive>>

\* load_barrier_on_weak_oop_field_preloaded and its three siblings.
Barrier(t) ==
  LET d == thread[t].doing IN
  /\ d.at = "barrier"
  /\ Got(t, d.o.to)
  /\ IF d.keepAlive /\ ~IsMarkGood(d.o)
     THEN /\ MarkFromJava(d.o.to)
          /\ referent' = SelfHeal(d.f, d.o, Pointer(d.o.to, "good"))
     ELSE UNCHANGED <<todo, referent>>
  /\ UNCHANGED <<next, listVars, strong, live, phaseVars, worker, bounds>>

BlockingBarrier(t) ==
  LET d == thread[t].doing
      a == Blocking(d.f, d.o)
  IN  /\ d.at = "blocking"
      /\ Got(t, a)
      /\ referent' = IF IsMarkGood(d.o) THEN referent
                     ELSE SelfHeal(d.f, d.o, Pointer(a, "good"))
      /\ UNCHANGED <<next, listVars, markVars, phaseVars, worker, bounds>>

\* Reference.clear: a store that keeps nothing alive.
Clear(t, r) ==
  /\ Runs(t) /\ Operation
  /\ r \in References \cap thread[t].locals /\ Type(r) # "final"
  /\ referent' = [referent EXCEPT ![r] = Cleared]
  /\ seen' = [seen EXCEPT !.cleared = @ \cup {r}]
  /\ UNCHANGED <<heapVars, next, listVars, markVars, phaseVars, worker, thread>>

\* A strong field: objects behind it are marked by the snapshot.
LoadField(t, a, b) ==
  /\ Runs(t) /\ Operation
  /\ a \in thread[t].locals /\ b \notin thread[t].locals
  /\ thread' = [thread EXCEPT ![t].locals = @ \cup {b}]
  /\ UNCHANGED <<heapVars, referent, next, listVars, markVars, phaseVars, worker, seen>>

Forget(t, a) ==
  /\ Runs(t) /\ Operation
  /\ thread' = [thread EXCEPT ![t].locals = @ \ {a}]
  /\ UNCHANGED <<heapVars, referent, next, listVars, markVars, phaseVars, worker, seen>>

Chain(head) ==
  LET from[n \in 0 .. Cardinality(References)] ==
        IF n = 0 THEN {head} ELSE from[n - 1] \cup {discovered[r] : r \in from[n - 1] \ {Null}}
  IN  from[Cardinality(References)] \ {Null}

\* The ReferenceHandler takes the whole list, under the Heap_lock, and unlinks
\* the references; its stores to the discovered fields mark what they overwrite.
HandleReferences ==
  /\ external # Null
  /\ external' = Null
  /\ discovered' = [r \in References |-> IF r \in Chain(external) THEN Null ELSE discovered[r]]
  /\ queue' = queue \cup {r \in Chain(external) : Type(r) = "final"}
  /\ todo' = IF stage # "mark" THEN todo
             ELSE todo \cup {Entry(r, FALSE, TRUE) : r \in {c \in Chain(external) : ~IsStronglyLive(c)}}
  /\ seen' = [seen EXCEPT !.enqueued = @ \cup Chain(external)]
  /\ UNCHANGED <<heap, alive, referent, next, lists, pending, strong, live, phaseVars, worker,
                 thread, bounds>>

-----------------------------------------------------------------------------
(* The old generation.  Marking starts with what the threads and the young   *)
(* objects refer to, the pending list and the finalizers that have not run.  *)
(* A worker's barrier is one step: whatever a thread does to the field in    *)
(* between might as well come before or after.                               *)

At(w, where) == worker[w].at = where
Goes(w, where) == worker' = [worker EXCEPT ![w] = where]

Successors(a) == {b \in Objects : <<a, b>> \in heap.edges}
Behind(a) == Successors(a) \cup (IF a \in References THEN {referent[a].to} ELSE {})

MarkStart ==
  /\ stage = "idle" /\ bounds.cycles > 0
  /\ \A t \in Threads : Runs(t)
  /\ bounds' = [bounds EXCEPT !.cycles = @ - 1]
  /\ stage' = "mark"
  /\ policy' \in IF \E r \in References : Type(r) = "soft" THEN {"clear", "lru"} ELSE {"lru"}
  /\ referent' = [f \in Fields |-> Pointer(referent[f].to, "bad")]
  /\ LET held == UNION {thread[t].locals : t \in Threads} \cup queue \cup {external}
         young == UNION {Behind(a) : a \in alive \cap heap.young}
     IN  /\ live' = {a \in (held \cup young) \ {Null} : ~IsYoung(a)}
         /\ strong' = live'
         /\ todo' = {Entry(a, FALSE, FALSE) : a \in live'}
  /\ UNCHANGED <<heapVars, next, listVars, blocked, roots, passed, worker, thread, seen>>

\* Marking young objects starts: pointers have to be looked at again.
YoungMarkStart ==
  /\ bounds.young > 0 /\ stage # "idle"
  /\ \A t \in Threads : Runs(t)
  /\ bounds' = [bounds EXCEPT !.young = @ - 1]
  /\ referent' = [f \in Fields |-> IF IsMarkGood(referent[f]) THEN [referent[f] EXCEPT !.q = "aged"]
                                  ELSE referent[f]]
  /\ UNCHANGED <<heapVars, next, listVars, markVars, phaseVars, worker, thread, seen>>

\* ZMark::mark_and_follow
Pops(w, e) == At(w, "idle") /\ stage = "mark" /\ e \in todo
AlreadyMarked(e) == e.mark /\ IsMarked(e.obj, e.finalizable)
Own(e) == IF e.mark THEN {e.obj} ELSE {}

Drop(w, e) ==
  /\ Pops(w, e) /\ AlreadyMarked(e)
  /\ todo' = todo \ {e}
  /\ UNCHANGED <<heapVars, referent, next, listVars, strong, live, phaseVars, worker, thread,
                 seen, bounds>>

FollowObject(w, e) ==
  /\ Pops(w, e) /\ ~AlreadyMarked(e) /\ e.obj \notin References
  /\ MarkAndPush(Own(e), Successors(e.obj), e.finalizable, todo \ {e})
  /\ UNCHANGED <<heapVars, referent, next, listVars, phaseVars, worker, thread, seen, bounds>>

\* Followed for finalization, a reference is an object like any other;
FollowFinalizable(w, e) ==
  LET r == e.obj
      o == referent[r]
      behind == IF IsFinalizableGood(o) \/ IsYoung(o.to) THEN {} ELSE {o.to}
  IN  /\ Pops(w, e) /\ ~AlreadyMarked(e) /\ r \in References /\ e.finalizable
      /\ MarkAndPush(Own(e), Successors(r) \cup {discovered[r]} \cup behind, TRUE, todo \ {e})
      /\ referent' = IF behind = {} THEN referent ELSE [referent EXCEPT ![r].q = "finalizable"]
      /\ UNCHANGED <<heapVars, next, listVars, phaseVars, worker, thread, seen, bounds>>

\* followed strongly, it may be discovered.
Encounter(w, e) ==
  /\ Pops(w, e) /\ ~AlreadyMarked(e) /\ e.obj \in References /\ ~e.finalizable
  /\ MarkAndPush(Own(e), Successors(e.obj), FALSE, todo \ {e})
  /\ Goes(w, [at |-> "encountered", r |-> e.obj])
  /\ UNCHANGED <<heapVars, referent, next, listVars, phaseVars, thread, seen, bounds>>

IsInactive(r) == IF Type(r) = "final" THEN r \in next ELSE referent[r].to = Null

\* A SoftReference used lately is softly live under the LRU policy.
ShouldDiscover(w) ==
  LET r == worker[w].r IN
  /\ At(w, "encountered")
  /\ \E softly \in IF Type(r) = "soft" /\ policy = "lru" THEN BOOLEAN ELSE {FALSE} :
       Goes(w, [at |-> IF IsInactive(r) \/ IsYoung(r) \/ IsStronglyLive(referent[r].to) \/ softly
                       THEN "strong" ELSE "discover", r |-> r])
  /\ UNCHANGED <<heapVars, referent, next, listVars, markVars, phaseVars, thread, seen, bounds>>

\* Its referent and its discovered field are then followed like any field.
FollowReference(w) ==
  LET r == worker[w].r
      o == referent[r]
      behind == IF IsMarkGood(o) \/ IsYoung(o.to) THEN {} ELSE {o.to}
  IN  /\ At(w, "strong")
      /\ Mark({discovered[r]} \cup behind, FALSE)
      /\ referent' = IF behind = {} THEN referent ELSE [referent EXCEPT ![r].q = "good"]
      /\ Goes(w, Idle)
      /\ UNCHANGED <<heapVars, next, listVars, phaseVars, thread, seen, bounds>>

\* Mutant of Discover: what a FinalReference refers to is not marked.
DiscoverOnly(w) ==
  LET r == worker[w].r IN
  /\ At(w, "discover")
  /\ discovered' = [discovered EXCEPT ![r] = lists[w]]
  /\ lists' = [lists EXCEPT ![w] = r]
  /\ Goes(w, Idle)
  /\ UNCHANGED <<heapVars, referent, next, markVars, pending, external, phaseVars, thread, seen,
                 bounds>>

Discover(w) ==
  LET r == worker[w].r
      o == referent[r]
      final == Type(r) = "final" /\ ~IsFinalizableGood(o)
  IN  /\ At(w, "discover")
      /\ Mark(IF final THEN {o.to} ELSE {}, TRUE)
      /\ referent' = IF final THEN [referent EXCEPT ![r].q = "finalizable"] ELSE referent
      /\ discovered' = [discovered EXCEPT ![r] = lists[w]]
      /\ lists' = [lists EXCEPT ![w] = r]
      /\ Goes(w, Idle)
      /\ UNCHANGED <<heapVars, next, pending, external, phaseVars, thread, seen, bounds>>

MarkEnd ==
  /\ stage = "mark" /\ todo = {} /\ \A w \in Workers : At(w, "idle")
  /\ \A t \in Threads : Runs(t)
  /\ stage' = "process" /\ blocked' = TRUE
  /\ UNCHANGED <<heapVars, referent, next, listVars, markVars, policy, roots, passed, worker,
                 thread, seen, bounds>>

-----------------------------------------------------------------------------
(* Processing.  A worker takes somebody's discovered list, unlinks the        *)
(* references one by one, keeps those whose referents died in a list of its   *)
(* own, and puts that in front of the pending list.                          *)

TakeList(w, v) ==
  /\ At(w, "idle") /\ stage = "process" /\ lists[v] # Null
  /\ lists' = [lists EXCEPT ![v] = Null]
  /\ Goes(w, [at |-> "unlink", r |-> lists[v], head |-> Null, tail |-> Null])
  /\ UNCHANGED <<heapVars, referent, next, discovered, pending, external, markVars, phaseVars,
                 thread, seen, bounds>>

\* Where the worker goes when it is done with a reference.
Goto(r, head, tail) ==
  [at |-> IF r # Null THEN "unlink" ELSE IF head # Null THEN "prepend" ELSE "idle",
   r |-> r, head |-> head, tail |-> tail]
Advance(w, state) == Goes(w, IF state.at = "idle" THEN Idle ELSE state)

\* The application may have cleared the reference: then it is dropped.
Unlink(w) ==
  LET k == worker[w] IN
  /\ At(w, "unlink")
  /\ discovered' = [discovered EXCEPT ![k.r] = Null]
  /\ IF referent[k.r].to = Null
     THEN Advance(w, Goto(discovered[k.r], k.head, k.tail))
     ELSE Goes(w, [at |-> "clean", r |-> k.r, next |-> discovered[k.r],
                   head |-> k.head, tail |-> k.tail])
  /\ UNCHANGED <<heapVars, referent, next, lists, pending, external, markVars, phaseVars, thread,
                 seen, bounds>>

\* The clean barriers clear what died, and heal what did not.
Clean(f) ==
  LET o == referent[f] IN
  IF IsMarkGood(o) THEN referent
  ELSE [referent EXCEPT ![f] = Pointer(Blocking(f, o), "good")]

\* A FinalReference keeps its referent.
CleanFinal(f) ==
  IF IsMarkGood(referent[f]) \/ LiveOrNull(referent[f].to) = Null
  THEN referent ELSE [referent EXCEPT ![f].q = "good"]

Died(r) ==
  IF Type(r) = "final" THEN StronglyLiveOrNull(referent[r].to) = Null
  ELSE Blocking(r, referent[r]) = Null

\* try_make_inactive and list_append
TryMakeInactive(w) ==
  LET k == worker[w] IN
  /\ At(w, "clean")
  /\ referent' = IF Type(k.r) = "final" THEN CleanFinal(k.r) ELSE Clean(k.r)
  /\ IF Died(k.r)
     THEN /\ next' = IF Type(k.r) = "final" THEN next \cup {k.r} ELSE next
          /\ discovered' = IF k.head = Null THEN discovered
                           ELSE [discovered EXCEPT ![k.tail] = k.r]
          /\ Advance(w, Goto(k.next, IF k.head = Null THEN k.r ELSE k.head, k.r))
     ELSE /\ Advance(w, Goto(k.next, k.head, k.tail))
          /\ UNCHANGED <<next, discovered>>
  /\ UNCHANGED <<heapVars, lists, pending, external, markVars, phaseVars, thread, seen, bounds>>

Prepend(w) ==
  LET k == worker[w] IN
  /\ At(w, "prepend")
  /\ pending' = [pending EXCEPT !.head = k.head]
  /\ Goes(w, [at |-> "link", old |-> pending.head, tail |-> k.tail])
  /\ UNCHANGED <<heapVars, referent, next, discovered, lists, external, markVars, phaseVars,
                 thread, seen, bounds>>

\* The first worker's list ends the pending list.
Link(w) ==
  LET k == worker[w] IN
  /\ At(w, "link")
  /\ discovered' = [discovered EXCEPT ![k.tail] = k.old]
  /\ pending' = IF k.old = Null THEN [pending EXCEPT !.tail = k.tail] ELSE pending
  /\ Goes(w, Idle)
  /\ UNCHANGED <<heapVars, referent, next, lists, external, markVars, phaseVars, thread, seen,
                 bounds>>

ProcessWeakRoots ==
  /\ stage = "process" /\ \A w \in Workers : At(w, "idle") /\ lists[w] = Null
  /\ stage' = "weak roots"
  /\ roots' = heap.roots
  /\ UNCHANGED <<heapVars, referent, next, listVars, markVars, blocked, policy, passed, worker,
                 thread, seen, bounds>>

CleanRoot(f) ==
  /\ stage = "weak roots" /\ f \in roots
  /\ roots' = roots \ {f}
  /\ referent' = Clean(f)
  /\ UNCHANGED <<heapVars, next, listVars, markVars, stage, blocked, policy, passed, worker,
                 thread, seen, bounds>>

Rendezvous ==
  /\ stage = "weak roots" /\ roots = {}
  /\ stage' = "handshake"
  /\ passed' = {}
  /\ UNCHANGED <<heapVars, referent, next, listVars, markVars, blocked, policy, roots, worker,
                 thread, seen, bounds>>

\* Mutant of Handshake: threads are not waited for.
HandshakeUnanswered(t) ==
  /\ stage = "handshake" /\ t \notin passed
  /\ passed' = passed \cup {t}
  /\ UNCHANGED <<heapVars, referent, next, listVars, markVars, stage, blocked, policy, roots,
                 worker, thread, seen, bounds>>

Handshake(t) ==
  /\ stage = "handshake" /\ t \notin passed /\ Runs(t)
  /\ passed' = passed \cup {t}
  /\ UNCHANGED <<heapVars, referent, next, listVars, markVars, stage, blocked, policy, roots,
                 worker, thread, seen, bounds>>

Unblock ==
  /\ stage = "handshake" /\ passed = Threads
  /\ stage' = "enqueue" /\ blocked' = FALSE
  /\ UNCHANGED <<heapVars, referent, next, listVars, markVars, policy, roots, passed, worker,
                 thread, seen, bounds>>

\* Under the Heap_lock: the pending list goes in front of the external one.
EnqueueReferences ==
  /\ stage = "enqueue"
  /\ stage' = "enqueued"
  /\ IF pending.head = Null THEN UNCHANGED listVars
     ELSE /\ external' = pending.head
          /\ discovered' = [discovered EXCEPT ![pending.tail] = external]
          /\ pending' = [head |-> Null, tail |-> Null]
          /\ UNCHANGED lists
  /\ UNCHANGED <<heapVars, referent, next, markVars, blocked, policy, roots, passed, worker,
                 thread, seen, bounds>>

\* The collection goes on and frees what is not live.
Free ==
  /\ stage = "enqueued"
  /\ stage' = "idle"
  /\ alive' = {a \in alive : IsLive(a)}
  /\ UNCHANGED <<heap, queue, referent, next, listVars, markVars, blocked, policy, roots, passed,
                 worker, thread, seen, bounds>>
-----------------------------------------------------------------------------
\* A situation gives the types of references, the strong edges, the young
\* objects, the weak roots, who refers to what, and the bounds.
Init ==
  \E s \in Situations :
    /\ heap = [type |-> s.type, edges |-> s.edges, young |-> s.young, roots |-> s.roots,
               referent |-> s.referent]
    /\ alive = Objects
    /\ referent = [f \in DOMAIN s.type \cup s.roots |-> Pointer(s.referent[f], "good")]
    /\ next = {}
    /\ discovered = [r \in DOMAIN s.type |-> Null]
    /\ lists = [w \in Workers |-> Null]
    /\ pending = [head |-> Null, tail |-> Null]
    /\ external = Null
    /\ strong = {} /\ live = {} /\ todo = {}
    /\ stage = "idle" /\ blocked = FALSE /\ policy = "lru"
    /\ roots = {} /\ passed = {}
    /\ worker = [w \in Workers |-> Idle]
    /\ thread = [t \in Threads |-> [doing |-> Idle, locals |-> s.locals]]
    /\ queue = {}
    /\ seen = [cleared |-> {}, weakly |-> {}, finalized |-> {}, enqueued |-> {}]
    /\ bounds = [ops |-> s.ops, cycles |-> s.cycles, young |-> s.youngs]

Application ==
  \/ \E t \in Threads : \/ \E f \in Fields, keepAlive \in BOOLEAN : LoadReferent(t, f, keepAlive)
                       \/ IsBlocked(t)
                       \/ Barrier(t)
                       \/ BlockingBarrier(t)
                       \/ \E r \in References : Clear(t, r)
                       \/ \E edge \in heap.edges : LoadField(t, edge[1], edge[2])
                       \/ \E a \in thread[t].locals : Forget(t, a)
  \/ HandleReferences

Marking(w) ==
  \/ \E e \in todo : \/ Drop(w, e)
                    \/ FollowObject(w, e)
                    \/ FollowFinalizable(w, e)
                    \/ Encounter(w, e)
  \/ ShouldDiscover(w)
  \/ FollowReference(w)
  \/ Discover(w)

Processing(w) ==
  \/ \E v \in Workers : TakeList(w, v)
  \/ Unlink(w)
  \/ TryMakeInactive(w)
  \/ Prepend(w)
  \/ Link(w)

Phases ==
  \/ MarkStart
  \/ YoungMarkStart
  \/ MarkEnd
  \/ ProcessWeakRoots
  \/ \E f \in roots : CleanRoot(f)
  \/ Rendezvous
  \/ \E t \in Threads : Handshake(t)
  \/ Unblock
  \/ EnqueueReferences
  \/ Free

Next == Application \/ (\E w \in Workers : Marking(w) \/ Processing(w)) \/ Phases
Spec == Init /\ [][Next]_vars

-----------------------------------------------------------------------------
\* What can be reached from a set: through fields, and through referents.
ReachableFrom(S) ==
  LET from[n \in 0 .. Cardinality(Objects)] ==
        IF n = 0 THEN S ELSE from[n - 1] \cup UNION {Behind(a) : a \in from[n - 1] \ {Null}}
  IN  from[Cardinality(Objects)] \ {Null}

Held == UNION {thread[t].locals : t \in Threads} \cup queue \cup Chain(external)
        \cup {referent[f].to : f \in heap.roots}

\* Once a soft or weak reference has been seen cleared by the collector, no
\* thread ever gets its referent through any soft or weak reference again,
\* unless that was found behind an object that a finalizer brought back: the
\* references of a collection are cleared at one moment, for every thread.
WeakNullIsFinal ==
  [][\A t \in Threads :
       LET d == thread[t].doing
           got == IF d.at = "blocking" THEN Blocking(d.f, d.o) ELSE d.o.to
       IN  /\ d.at \in {"barrier", "blocking"} /\ thread'[t].doing = Idle
           /\ Type(d.f) \in {"soft", "weak"} /\ heap.referent[d.f] \in seen.weakly
           => got \in {Null} \cup ReachableFrom(seen.finalized)]_vars

\* What a thread, the Finalizer, the pending list or a weak root can reach is
\* never freed: not even an object that only a reference led to when its
\* collection started, nor one behind a finalizable object.
NothingDangles == ReachableFrom(Held) \subseteq alive

\* After a collection the ReferenceHandler gets, or has got, exactly the
\* references that were made inactive by the collector, each of them once.
InactiveAreEnqueued ==
  stage = "idle" =>
    LET handed == Chain(external) \cup seen.enqueued IN
    /\ Chain(external) \cap seen.enqueued = {}
    /\ \A r \in References :
         IF Type(r) = "final" THEN r \in handed <=> r \in next
         ELSE /\ referent[r].to = Null /\ r \notin seen.cleared => r \in handed
              /\ r \in handed => referent[r].to = Null

\* A finalizer runs with the object it is for: FinalReferences are enqueued
\* only when resurrection is no longer blocked.
FinalizerGetsItsObject ==
  \A r \in queue \ queue' : \E t \in Threads : heap.referent[r] \in thread'[t].locals

\* Both, of every step: a reference that is made inactive is handed over, and
\* to some purpose.
ReferencesAreHanded == [][InactiveAreEnqueued' /\ FinalizerGetsItsObject]_vars
=============================================================================

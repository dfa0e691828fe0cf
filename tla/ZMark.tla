-------------------------------- MODULE ZMark --------------------------------
(***************************************************************************)
(* Concurrent marking of one generation (zMark.cpp, zMark.inline.hpp,      *)
(* zMarkStack, zMarkTerminate.inline.hpp) with the barriers of the       *)
(* mutator that feed it: the snapshot-at-the-beginning store barrier with  *)
(* its buffer (zStoreBarrierBuffer) and the barrier of a weak load,      *)
(* which resurrects.  GC workers drain and steal mark stacks, rebalance,   *)
(* flush and terminate; the coordinator runs ZMark::mark_follow and        *)
(* ZMark::end; the VM thread runs handshakes and its own flush.            *)
(*                                                                         *)
(* Threads are numbers: the workers by their id, then the mutator, then    *)
(* the VM thread.  Objects are numbers too, which stand for their address  *)
(* shifted by ZMarkStripeShift; an object has one strong field.  A field   *)
(* is "good" when its colour is store good for this cycle.                 *)
(***************************************************************************)
EXTENDS Integers, SequencesExt

CONSTANTS
  MaxWorkers,       \* threads in ZWorkers
  StripesMax,       \* ZMarkStripesMax
  StackSize,        \* entries in a ZMarkStack
  BufferLength,     \* ZStoreBarrierBuffer::_buffer_length
  FlushMax,         \* ZMarkProactiveFlushMax
  RebalancePeriod,  \* 32: entries between two calls of rebalance_work
  Instances         \* the situations in which marking starts: records of
                    \*   workers: the active workers
                    \*   fields: object -> what its strong field refers to
                    \*   roots: the objects marked and pushed by the root scan
                    \*   referent: what a weak reference refers to
                    \*   stores: bound, stores of the mutator
                    \*   disturbances: bound, spurious wake-ups and requests
                    \*                 to resize the workers, together

ASSUME MarkAssumption ==
  /\ MaxWorkers \in Nat \ {0}
  /\ StripesMax \in {1, 2, 4, 8, 16}
  /\ {StackSize, BufferLength, RebalancePeriod} \subseteq Nat \ {0}
  /\ FlushMax \in Nat
  /\ \A i \in Instances :
       /\ i.workers \in 1..MaxWorkers
       /\ IsFiniteSet(DOMAIN i.fields) /\ DOMAIN i.fields \subseteq Nat \ {0}
       /\ i.fields \in [DOMAIN i.fields -> DOMAIN i.fields \cup {0}]
       /\ i.roots \subseteq DOMAIN i.fields /\ i.referent \in DOMAIN i.fields
       /\ i.stores \in Nat /\ i.disturbances \in Nat

Null == 0
None == -1
Workers == 0..MaxWorkers - 1
Mutator == MaxWorkers
VM      == MaxWorkers + 1
Threads == 0..MaxWorkers + 1
Stripes == 0..StripesMax - 1

VARIABLES
  instance,    \* the situation of this marking
  heap,        \* object -> its field: what it refers to, and the colour
  weakGood,    \* the colour of the weak reference's referent field
  marked,      \* the mark bits
  live,        \* live objects counted on the pages
  cache,       \* worker -> live objects in its ZMarkCache
  stacks,      \* thread -> its installed stacks (ZMarkThreadLocalStacks)
  published, overflowed,  \* stripe -> the stacks on its lists, last first
  nstripes,    \* ZMarkStripeSet::_nstripes_mask + 1
  term,        \* ZMarkTerminate
  ctx,         \* worker -> ZMarkContext and the counter of drain()
  cur,         \* worker -> the entry it processes
  pc,          \* worker -> where it is in follow_work
  wake,        \* thread -> where it is in ZMarkTerminate::wake_up, or <<>>
  flush,       \* thread -> the thread whose stacks it flushes, or None
  flushOp,     \* ZMark::flush in progress: its caller, stage and result
  nproactive,  \* _work_nproactiveflush
  requested,   \* ZWorkers::_requested_nworkers
  phase,       \* where the coordinator is
  local, buffer, op,      \* the mutator: a register, store buffer, operation
  stores, disturbances    \* counters of the bounds

Roots == instance.roots
Referent == instance.referent

mutatorVars == <<local, buffer, op, stores>>
listVars    == <<published, overflowed>>
workVars    == <<ctx, cur, pc>>
vars == <<instance, heap, weakGood, marked, live, cache, stacks, listVars, nstripes, term,
          workVars, wake, flush, flushOp, nproactive, requested, phase,
          mutatorVars, disturbances>>

\* a ZMarkStackEntry, with room for the child its follow has loaded
Entry(o, mark, incLive) ==
  [obj |-> o, mark |-> mark, incLive |-> incLive, child |-> Null]
NoEntry   == Entry(Null, FALSE, FALSE)
NoContext == [stripe |-> 0, nstripes |-> 0, processed |-> 0]

(***************************************************************************)
(* Stripes.                                                                *)
(***************************************************************************)
\* the powers of two up to ZMarkStripesMax, which is sixteen in the code
StripeCounts == {1, 2, 4, 8, 16}

\* ZMark::calculate_nstripes: the workers rounded down to a power of two
CalculateNStripes(nworkers) == Max({n \in StripeCounts : n <= nworkers /\ n <= StripesMax})

\* ZMarkStripeSet::stripe_for_addr
StripeForAddr(o) == o % nstripes

\* ZMarkStripeSet::stripe_for_worker: the spillover workers are spread evenly
StripeForWorker(nworkers, n, w) ==
  LET spillover == (nworkers \div n) * n
  IN  IF w < spillover THEN w % n
      ELSE ((w - spillover) * n) \div (nworkers - spillover)

StripesAreEmpty == \A s \in Stripes : published[s] = <<>> /\ overflowed[s] = <<>>

(***************************************************************************)
(* Termination (ZMarkTerminate).  wake_up reads the counters without the   *)
(* lock, returns when everyone works or nobody does, and repeats its check *)
(* under the lock; reset does not take the lock.                           *)
(***************************************************************************)
Locked == \E t \in Threads : wake[t] # <<>> /\ wake[t][1] = "store"
Idle(t) == wake[t] = <<>> /\ flush[t] = None

Reset(nworkers) ==
  [term EXCEPT !.nworkers = nworkers, !.nworking = nworkers, !.nawakening = 0]

WakeLoad(t) ==
  /\ wake[t] = <<"load">>
  /\ wake' = [wake EXCEPT ![t] = <<"check", term.nworking>>]
  /\ UNCHANGED term /\ UNCHANGED workVars

WakeCheck(t) ==
  /\ wake[t] # <<>> /\ wake[t][1] = "check"
  /\ LET nworking == wake[t][2]
     IN  wake' = [wake EXCEPT ![t] =
           IF nworking + term.nawakening = term.nworkers \/ nworking = 0
           THEN <<>> ELSE <<"lock">>]
  /\ UNCHANGED term /\ UNCHANGED workVars

WakeLock(t) ==
  /\ wake[t] = <<"lock">> /\ ~Locked
  /\ wake' = [wake EXCEPT ![t] =
       IF term.nworking + term.nawakening = term.nworkers
       THEN <<>> ELSE <<"store">>]
  /\ UNCHANGED term /\ UNCHANGED workVars

\* _nawakening + 1, and notify wakes one waiter when there is one
WakeStore(t) ==
  /\ wake[t] = <<"store">>
  /\ wake' = [wake EXCEPT ![t] = <<>>]
  /\ term' = [term EXCEPT !.nawakening = @ + 1]
  /\ LET waiting == {w \in Workers : pc[w] = "waiting"}
     IN  IF waiting = {} THEN pc' = pc
         ELSE \E w \in waiting : pc' = [pc EXCEPT ![w] = "woken"]
  /\ UNCHANGED <<ctx, cur>>

WakeUp(t) ==
  /\ WakeLoad(t) \/ WakeCheck(t) \/ WakeLock(t) \/ WakeStore(t)
  /\ UNCHANGED <<heap, weakGood, marked, live, cache, stacks, listVars, nstripes,
                 flush, flushOp, nproactive, requested, phase, mutatorVars, disturbances>>

\* Mutant of NotifyAll: the last worker does not wake the others.
NotifiesNobody(w, next) == [pc EXCEPT ![w] = next]

\* notify_all, by the last worker that leaves or terminates
NotifyAll(w, next) ==
  [v \in Workers |-> IF v = w THEN next
                     ELSE IF pc[v] = "waiting" THEN "woken" ELSE pc[v]]

(***************************************************************************)
(* Mark stacks.  A full stack is published, and replaced by a new one.     *)
(***************************************************************************)
\* the stacks a thread has installed, with one more or without one
Install(mine, s, stack) ==
  [x \in DOMAIN mine \cup {s} |-> IF x = s THEN stack ELSE mine[x]]
Without(mine, s) == [x \in DOMAIN mine \ {s} |-> mine[x]]

PublishStack(s, stack, publish) ==
  IF publish
  THEN /\ published' = [published EXCEPT ![s] = <<stack>> \o @]
       /\ UNCHANGED overflowed
  ELSE /\ overflowed' = [overflowed EXCEPT ![s] = <<stack>> \o @]
       /\ UNCHANGED published

\* ZMarkThreadLocalStacks::push; publish_stack wakes a worker up
Push(t, entry, publish) ==
  LET s    == StripeForAddr(entry.obj)
      mine == stacks[t]
  IN  IF s \in DOMAIN mine /\ Len(mine[s]) = StackSize
      THEN /\ stacks' = [stacks EXCEPT ![t] = Install(@, s, <<entry>>)]
           /\ PublishStack(s, mine[s], publish)
           /\ wake' = [wake EXCEPT ![t] = <<"load">>]
      ELSE /\ stacks' = [stacks EXCEPT ![t] =
                Install(@, s, Append(IF s \in DOMAIN mine THEN mine[s] ELSE <<>>, entry))]
           /\ UNCHANGED listVars /\ UNCHANGED wake

\* ZMark::mark_object for a thread that is not a GC thread: it leaves the
\* marking of an unmarked object to the worker that pops the entry
MarkObject(t, o) ==
  IF o = Null \/ o \in marked
  THEN UNCHANGED stacks /\ UNCHANGED listVars /\ UNCHANGED wake
  ELSE Push(t, Entry(o, TRUE, FALSE), TRUE)

\* ZMarkStripe::steal_stack: an overflowed stack before a published one
CanSteal(s) == overflowed[s] # <<>> \/ published[s] # <<>>
Stealable(s) == IF overflowed[s] # <<>> THEN Head(overflowed[s]) ELSE Head(published[s])
StealStack(s) ==
  IF overflowed[s] # <<>>
  THEN overflowed' = [overflowed EXCEPT ![s] = Tail(@)] /\ UNCHANGED published
  ELSE published' = [published EXCEPT ![s] = Tail(@)] /\ UNCHANGED overflowed

(***************************************************************************)
(* ZMark::flush_and_free(thread), executed by t: the store barrier buffer  *)
(* of a Java thread is marked through, into the stacks of the thread that  *)
(* executes, then every installed stack of the target is published.        *)
(***************************************************************************)
FlushBuffer(t) ==
  /\ flush[t] = Mutator /\ buffer # <<>>
  /\ MarkObject(t, Head(buffer))
  /\ buffer' = Tail(buffer)
  /\ UNCHANGED <<flush, flushOp>>

FlushStack(t) ==
  LET target == flush[t]
      s      == Min(DOMAIN stacks[target])
      stack  == stacks[target][s]
  IN  /\ target # None /\ ~(target = Mutator /\ buffer # <<>>)
      /\ DOMAIN stacks[target] # {}
      /\ stacks' = [stacks EXCEPT ![target] = Without(@, s)]
      /\ IF stack = <<>>
         THEN UNCHANGED listVars /\ UNCHANGED wake /\ UNCHANGED flushOp
         ELSE /\ PublishStack(s, stack, TRUE)
              /\ wake' = [wake EXCEPT ![t] = <<"load">>]
              /\ flushOp' = IF t \in Workers THEN flushOp
                            ELSE [flushOp EXCEPT !.flushed = TRUE]
      /\ UNCHANGED <<flush, buffer>>

FlushEnd(t) ==
  LET target == flush[t]
  IN  /\ target # None /\ ~(target = Mutator /\ buffer # <<>>)
      /\ DOMAIN stacks[target] = {}
      /\ flush' = [flush EXCEPT ![t] = None]
      /\ flushOp' = CASE target = Mutator -> [flushOp EXCEPT !.stage = "vm"]
                      [] target = VM      -> [flushOp EXCEPT !.stage = "result"]
                      [] OTHER            -> flushOp
      /\ UNCHANGED <<stacks, listVars, wake, buffer>>

FlushAndFree(t) ==
  /\ wake[t] = <<>>
  /\ FlushBuffer(t) \/ FlushStack(t) \/ FlushEnd(t)
  /\ UNCHANGED <<heap, weakGood, marked, live, cache, nstripes, term, workVars,
                 nproactive, requested, phase, local, op, stores, disturbances>>

(***************************************************************************)
(* ZMark::flush: a handshake with every Java thread, executed by the       *)
(* thread itself or by the VM thread while it is safe, then an operation   *)
(* of the VM thread that flushes its own stacks.                           *)
(***************************************************************************)
NoFlush == [by |-> None, stage |-> "none", flushed |-> FALSE]
StartFlush(by) == flushOp' = [by |-> by, stage |-> "handshake", flushed |-> FALSE]
FlushResult == flushOp.flushed \/ ~StripesAreEmpty

\* the mutator polls for handshakes and safepoints between its operations only
AtSafepoint == Idle(Mutator) /\ op = <<>> /\ flush[VM] # Mutator

Handshake(t) ==
  /\ flushOp.stage = "handshake" /\ AtSafepoint /\ Idle(t)
  /\ flush' = [flush EXCEPT ![t] = Mutator]
  /\ flushOp' = [flushOp EXCEPT !.stage = "handshaking"]
  /\ UNCHANGED <<heap, weakGood, marked, live, cache, stacks, listVars, nstripes, term,
                 workVars, wake, nproactive, requested, phase, mutatorVars, disturbances>>

VMFlush ==
  /\ flushOp.stage = "vm" /\ Idle(VM)
  /\ flush' = [flush EXCEPT ![VM] = VM]
  /\ flushOp' = [flushOp EXCEPT !.stage = "vmflush"]
  /\ UNCHANGED <<heap, weakGood, marked, live, cache, stacks, listVars, nstripes, term,
                 workVars, wake, nproactive, requested, phase, mutatorVars, disturbances>>

(***************************************************************************)
(* Workers (ZMark::follow_work).                                           *)
(***************************************************************************)
Goto(w, next) == pc' = [pc EXCEPT ![w] = next]
At(w, where) == pc[w] = where /\ Idle(w)

\* drain starts: the worker takes the stripe of its number
Drain(w) ==
  /\ At(w, "drain")
  /\ ctx' = [ctx EXCEPT ![w] =
       [stripe |-> StripeForWorker(term.nworkers, nstripes, w),
        nstripes |-> nstripes, processed |-> 0]]
  /\ Goto(w, "pop")
  /\ UNCHANGED <<heap, marked, cache, stacks, listVars, nstripes, term, cur, wake, flush,
                 flushOp, nproactive, disturbances>>

\* ZMarkThreadLocalStacks::pop: from the installed stack of the stripe, or
\* from a stack stolen from the stripe's lists, which is installed
Pop(w) ==
  LET s     == ctx[w].stripe
      mine  == stacks[w]
      own == IF s \in DOMAIN mine THEN mine[s] ELSE <<>>
      take(stack) == /\ cur' = [cur EXCEPT ![w] = Last(stack)]
                     /\ stacks' = [stacks EXCEPT ![w] = Install(mine, s, Front(stack))]
                     /\ Goto(w, "mark")
  IN  /\ At(w, "pop") \/ (At(w, "rebalanced") /\ requested = 0)
      /\ \/ own # <<>> /\ take(own) /\ UNCHANGED listVars
         \/ own = <<>> /\ CanSteal(s) /\ take(Stealable(s)) /\ StealStack(s)
         \/ /\ own = <<>> /\ ~CanSteal(s)
            /\ stacks' = [stacks EXCEPT ![w] = Without(@, s)]
            /\ Goto(w, "steal")
            /\ UNCHANGED <<listVars, cur>>
      /\ UNCHANGED <<heap, marked, cache, nstripes, term, ctx, wake, flush, flushOp,
                     nproactive, disturbances>>

\* mark_and_follow: only one thread gets to mark an object, and counts it
Mark(w) ==
  LET e == cur[w]
  IN  /\ At(w, "mark")
      /\ IF e.mark /\ e.obj \in marked
         THEN /\ Goto(w, "next")
              /\ cur' = [cur EXCEPT ![w] = NoEntry]
              /\ UNCHANGED <<marked, cache>>
         ELSE /\ marked' = marked \cup {e.obj}
              /\ cache' = [cache EXCEPT ![w] = @ + (IF e.mark \/ e.incLive THEN 1 ELSE 0)]
              /\ Goto(w, "follow")
              /\ UNCHANGED cur
      /\ UNCHANGED <<heap, stacks, listVars, nstripes, term, ctx, wake, flush,
                     flushOp, nproactive, disturbances>>

\* mark_barrier_on_young_oop_field: a field that is neither null nor store
\* good is marked through
Follow(w) ==
  LET field == heap[cur[w].obj]
  IN  /\ At(w, "follow")
      /\ IF field.to = Null \/ field.good
         THEN Goto(w, "next") /\ cur' = [cur EXCEPT ![w] = NoEntry]
         ELSE Goto(w, "child") /\ cur' = [cur EXCEPT ![w].child = field.to]
      /\ UNCHANGED <<heap, marked, cache, stacks, listVars, nstripes, term, ctx, wake, flush,
                     flushOp, nproactive, disturbances>>

\* mark_object for a GC thread marks before it pushes, so that the one that
\* marks pushes; the entry tells the popper to count the object
MarkChild(w) ==
  LET child == cur[w].child
  IN  /\ At(w, "child")
      /\ marked' = marked \cup {child}
      /\ IF child \in marked
         THEN UNCHANGED <<stacks, listVars, wake>>
         ELSE Push(w, Entry(child, FALSE, TRUE), FALSE)
      /\ Goto(w, "heal")
      /\ UNCHANGED <<heap, cache, nstripes, term, ctx, cur, flush, flushOp, nproactive,
                     disturbances>>

\* self_heal: the compare and swap fails when the mutator has stored, which
\* left a good pointer
Heal(w) ==
  /\ At(w, "heal")
  /\ heap' = [heap EXCEPT ![cur[w].obj].good = TRUE]
  /\ Goto(w, "next")
  /\ cur' = [cur EXCEPT ![w] = NoEntry]
  /\ UNCHANGED <<marked, cache, stacks, listVars, nstripes, term, ctx, wake, flush,
                 flushOp, nproactive, disturbances>>

\* every RebalancePeriod entries, the first of them included
Rebalance(w) ==
  LET due == ctx[w].processed = 0
      processed == (ctx[w].processed + 1) % RebalancePeriod
      \* a worker that sees the stripes unchanged may double them, when the
      \* stack memory has grown (clear_and_get_expanded_recently)
      choices == {nstripes} \cup
        (IF ctx[w].nstripes = nstripes /\ nstripes < CalculateNStripes(term.nworkers)
         THEN {2 * nstripes} ELSE {})
  IN  /\ At(w, "next")
      /\ \/ /\ ~due
            /\ ctx' = [ctx EXCEPT ![w].processed = processed]
            /\ Goto(w, "pop")
            /\ UNCHANGED <<nstripes, flush>>
         \/ /\ due
            /\ \E n \in choices :
                 LET stripe   == StripeForWorker(term.nworkers, n, w)
                     saturated == term.nworking + term.nawakening = term.nworkers
                 IN  /\ nstripes' = n
                     /\ ctx' = [ctx EXCEPT ![w] =
                          [stripe |-> stripe, nstripes |-> n, processed |-> processed]]
                     /\ flush' = IF stripe # ctx[w].stripe \/ ~saturated
                                 THEN [flush EXCEPT ![w] = w] ELSE flush
            /\ Goto(w, "rebalanced")
      /\ UNCHANGED <<heap, marked, cache, stacks, listVars, term, cur, wake, flushOp,
                     nproactive, disturbances>>

\* rebalance_work returns true when the workers must be resized: the worker
\* leaves (ZMarkTerminate::leave), with its stacks
Leave(w) ==
  /\ At(w, "rebalanced") /\ requested # 0 /\ ~Locked
  /\ term' = [term EXCEPT !.nworking = @ - 1]
  /\ pc' = IF term.nworking = 1 THEN NotifyAll(w, "end") ELSE [pc EXCEPT ![w] = "end"]
  /\ UNCHANGED <<heap, marked, cache, stacks, listVars, nstripes, ctx, cur, wake, flush,
                 flushOp, nproactive, disturbances>>

\* try_steal: the stacks this worker has installed on other stripes first,
\* then the lists of the other stripes, in the order of the stripes
Victims(w) == [i \in 1..StripesMax - 1 |-> (ctx[w].stripe + i) % StripesMax]
FirstVictim(w, S) == LET v == Victims(w) IN
  v[CHOOSE i \in DOMAIN v : v[i] \in S /\ \A j \in 1..i - 1 : v[j] \notin S]

TrySteal(w) ==
  LET s      == ctx[w].stripe
      mine   == DOMAIN stacks[w] \ {s}
      global == {v \in Stripes \ {s} : CanSteal(v)}
      install(stack, rest) == stacks' = [stacks EXCEPT ![w] = Install(rest, s, stack)]
  IN  /\ At(w, "steal")
      /\ \/ /\ mine # {}
            /\ LET v == FirstVictim(w, mine) IN install(stacks[w][v], Without(stacks[w], v))
            /\ Goto(w, "drain")
            /\ UNCHANGED listVars
         \/ /\ mine = {} /\ global # {}
            /\ LET v == FirstVictim(w, global)
               IN  install(Stealable(v), stacks[w]) /\ StealStack(v)
            /\ Goto(w, "drain")
         \/ /\ mine = {} /\ global = {}
            /\ Goto(w, IF w = 0 /\ nproactive < FlushMax THEN "proactive" ELSE "terminate")
            /\ UNCHANGED <<stacks, listVars>>
      /\ UNCHANGED <<heap, marked, cache, nstripes, term, ctx, cur, wake, flush, flushOp,
                     nproactive, disturbances>>

\* try_proactive_flush: worker 0 only, and FlushMax times per task
ProactiveFlush(w) ==
  /\ At(w, "proactive")
  /\ \/ /\ flushOp.stage = "none"
        /\ nproactive' = nproactive + 1
        /\ StartFlush(w)
        /\ UNCHANGED pc
     \/ /\ flushOp.stage = "result"
        /\ Goto(w, IF FlushResult THEN "drain" ELSE "terminate")
        /\ flushOp' = NoFlush
        /\ UNCHANGED nproactive
  /\ UNCHANGED <<heap, marked, cache, stacks, listVars, nstripes, term, ctx, cur, wake,
                 flush, disturbances>>

\* ZMarkTerminate::try_terminate, up to its wait: the last worker ends the
\* marking; another halves the stripes unless they have changed
TryTerminate(w) ==
  /\ At(w, "terminate") /\ ~Locked
  /\ term' = [term EXCEPT !.nworking = @ - 1]
  /\ IF term.nworking = 1
     THEN pc' = NotifyAll(w, "end") /\ UNCHANGED nstripes
     ELSE /\ Goto(w, "waiting")
          /\ nstripes' = IF ctx[w].nstripes = nstripes /\ nstripes > 1
                         THEN nstripes \div 2 ELSE nstripes
  /\ UNCHANGED <<heap, marked, cache, stacks, listVars, ctx, cur, wake, flush, flushOp,
                 nproactive, disturbances>>

SpuriousWakeUp(w) ==
  /\ At(w, "waiting") /\ disturbances < instance.disturbances
  /\ disturbances' = disturbances + 1
  /\ Goto(w, "woken")
  /\ UNCHANGED <<heap, weakGood, marked, live, cache, stacks, listVars, nstripes, term, ctx,
                 cur, wake, flush, flushOp, nproactive, requested, phase, mutatorVars>>

\* ... and after it
Woken(w) ==
  LET nawakening == IF term.nawakening > 0 THEN term.nawakening - 1 ELSE 0
  IN  /\ At(w, "woken") /\ ~Locked
      /\ IF term.nworking = 0
         THEN Goto(w, "end") /\ term' = [term EXCEPT !.nawakening = nawakening]
         ELSE /\ Goto(w, "drain")
              /\ term' = [term EXCEPT !.nawakening = nawakening, !.nworking = @ + 1]
      /\ UNCHANGED <<heap, marked, cache, stacks, listVars, nstripes, ctx, cur, wake, flush,
                     flushOp, nproactive, disturbances>>

\* the context is destructed, which evicts its cache, and ZMarkTask::work
\* publishes the stacks the worker has left
EndWork(w) ==
  /\ At(w, "end")
  /\ live' = live + cache[w]
  /\ cache' = [cache EXCEPT ![w] = 0]
  /\ flush' = [flush EXCEPT ![w] = w]
  /\ ctx' = [ctx EXCEPT ![w] = NoContext]
  /\ Goto(w, "idle")
  /\ UNCHANGED <<heap, marked, stacks, listVars, nstripes, term, cur, wake, flushOp,
                 nproactive, disturbances>>

Work(w) ==
  /\ \/ (\/ Drain(w) \/ Pop(w) \/ Mark(w) \/ Follow(w) \/ MarkChild(w) \/ Heal(w) \/ Rebalance(w)
         \/ Leave(w) \/ TrySteal(w) \/ ProactiveFlush(w) \/ TryTerminate(w)
         \/ Woken(w)) /\ UNCHANGED live
     \/ EndWork(w)
  /\ UNCHANGED <<weakGood, requested, phase, mutatorVars>>

(***************************************************************************)
(* The coordinator: ZMark::mark_follow, then ZMark::end at a safepoint.    *)
(* ZWorkers::run restarts the task when a resize was requested meanwhile.  *)
(***************************************************************************)
RunTask(nworkers) ==
  /\ term' = Reset(nworkers)
  /\ nstripes' = CalculateNStripes(nworkers)
  /\ pc' = [w \in Workers |-> IF w < nworkers THEN "drain" ELSE "idle"]
  /\ UNCHANGED <<ctx, cur>>

TaskIsDone == \A w \in Workers : At(w, "idle")

\* the task of prepare_work
StartTask ==
  /\ phase = "start"
  /\ RunTask(term.nworkers)
  /\ nproactive' = 0
  /\ phase' = "follow"
  /\ UNCHANGED <<stacks, published, requested, flushOp>>

\* resize_workers
RestartTask ==
  /\ phase = "follow" /\ TaskIsDone /\ requested # 0
  /\ RunTask(requested)
  /\ requested' = 0
  /\ UNCHANGED <<stacks, published, nproactive, phase, flushOp>>

\* try_terminate_flush
TerminateFlush ==
  /\ phase = "follow" /\ TaskIsDone /\ requested = 0
  /\ term' = [term EXCEPT !.resurrected = FALSE]
  /\ StartFlush(None)
  /\ phase' = "flush"
  /\ UNCHANGED <<stacks, published, nstripes, workVars, requested, nproactive>>

TerminateFlushResult ==
  /\ phase = "flush" /\ flushOp.stage = "result"
  /\ phase' = IF FlushResult \/ term.resurrected THEN "start" ELSE "end"
  /\ flushOp' = NoFlush
  /\ UNCHANGED <<stacks, published, nstripes, term, workVars, requested, nproactive>>

\* try_end, at a safepoint: the stacks of the non-Java threads are flushed;
\* whatever turns up makes marking continue
NonJavaThreads == Threads \ {Mutator}

MarkEnd ==
  LET pending(s) == {t \in NonJavaThreads : s \in DOMAIN stacks[t] /\ stacks[t][s] # <<>>}
      flushed == \E s \in Stripes : pending(s) # {}
  IN  /\ phase = "end" /\ AtSafepoint
      /\ IF term.resurrected
         THEN phase' = "start" /\ UNCHANGED <<stacks, published>>
         ELSE /\ phase' = IF flushed \/ ~StripesAreEmpty THEN "start" ELSE "done"
              /\ stacks' = [t \in Threads |-> IF t = Mutator THEN stacks[t] ELSE <<>>]
              /\ published' = [s \in Stripes |->
                   SetToSeq({stacks[t][s] : t \in pending(s)}) \o published[s]]
      /\ UNCHANGED <<nstripes, term, workVars, requested, flushOp, nproactive>>

Coordinate ==
  /\ StartTask \/ RestartTask \/ TerminateFlush \/ TerminateFlushResult \/ MarkEnd
  /\ UNCHANGED <<heap, weakGood, marked, live, cache, overflowed, wake, flush,
                 mutatorVars, disturbances>>

\* ZWorkers::request_resize_workers, by the director
RequestResize(n) ==
  /\ disturbances < instance.disturbances /\ phase = "follow" /\ n # term.nworkers
  /\ requested' = n /\ disturbances' = disturbances + 1
  /\ UNCHANGED <<heap, weakGood, marked, live, cache, stacks, listVars, nstripes, term,
                 workVars, wake, flush, flushOp, nproactive, phase, mutatorVars>>

(***************************************************************************)
(* The mutator.  A load heals the colour without marking; a store first    *)
(* runs the store barrier on the field's previous value.                   *)
(***************************************************************************)
Accessible == Roots \cup ({local} \ {Null})

Load(o) ==
  /\ AtSafepoint
  /\ local' = heap[o].to
  /\ UNCHANGED <<heap, weakGood, stacks, listVars, term, wake, buffer, op, stores>>

Store(o, v) ==
  /\ AtSafepoint /\ stores < instance.stores
  /\ stores' = stores + 1
  /\ IF heap[o].to = Null \/ heap[o].good
     THEN heap' = [heap EXCEPT ![o] = [to |-> v, good |-> TRUE]] /\ UNCHANGED op
     ELSE op' = <<"add", o, v, heap[o].to>> /\ UNCHANGED heap
  /\ UNCHANGED <<weakGood, stacks, listVars, term, wake, local, buffer>>

\* ZStoreBarrierBuffer::add flushes a full buffer first; then the store
StoreBarrier ==
  /\ Idle(Mutator) /\ op # <<>> /\ op[1] \in {"add", "drain"}
  /\ \/ /\ op[1] = "add" /\ Len(buffer) = BufferLength
        /\ op' = [op EXCEPT ![1] = "drain"]
        /\ UNCHANGED <<heap, stacks, listVars, wake, buffer>>
     \/ /\ op[1] = "drain" /\ buffer # <<>>
        /\ MarkObject(Mutator, Head(buffer))
        /\ buffer' = Tail(buffer)
        /\ UNCHANGED <<heap, op>>
     \/ /\ Len(buffer) < BufferLength /\ (op[1] = "drain" => buffer = <<>>)
        /\ buffer' = Append(buffer, op[4])
        /\ heap' = [heap EXCEPT ![op[2]] = [to |-> op[3], good |-> TRUE]]
        /\ op' = <<>>
        /\ UNCHANGED <<stacks, listVars, wake>>
  /\ UNCHANGED <<weakGood, term, local, stores>>

\* Mutant of WeakLoad: the termination is not told.
WeakLoadSilently ==
  /\ AtSafepoint
  /\ IF weakGood \/ Referent \in marked
     THEN local' = Referent /\ weakGood' = TRUE /\ UNCHANGED op
     ELSE op' = <<"resurrect">> /\ UNCHANGED <<local, weakGood>>
  /\ UNCHANGED <<heap, stacks, listVars, wake, buffer, stores, term>>

\* keep_alive_load_barrier: Reference.get resurrects its referent, and tells
\* the termination so before it pushes the object
WeakLoad ==
  /\ AtSafepoint
  /\ IF weakGood
     THEN local' = Referent /\ UNCHANGED <<op, term, weakGood>>
     ELSE IF Referent \in marked
     THEN local' = Referent /\ weakGood' = TRUE /\ UNCHANGED <<op, term>>
     ELSE /\ op' = <<"resurrect">>
          /\ term' = [term EXCEPT !.resurrected = TRUE]
          /\ UNCHANGED <<local, weakGood>>
  /\ UNCHANGED <<heap, stacks, listVars, wake, buffer, stores>>

Resurrect ==
  /\ Idle(Mutator) /\ op = <<"resurrect">>
  /\ Push(Mutator, Entry(Referent, TRUE, FALSE), TRUE)
  /\ weakGood' = TRUE /\ local' = Referent /\ op' = <<>>
  /\ UNCHANGED <<heap, term, buffer, stores>>

MutatorStep ==
  /\ phase # "done"
  /\ \/ \E o \in Accessible : Load(o) \/ \E v \in {Null, local} : Store(o, v)
     \/ WeakLoad
     \/ StoreBarrier
     \/ Resurrect
  /\ UNCHANGED <<marked, live, cache, nstripes, workVars, flush, flushOp, nproactive,
                 requested, phase, disturbances>>

(***************************************************************************)
(* Marking starts with the roots marked and their entries published.       *)
(***************************************************************************)
Init ==
  /\ instance \in Instances
  /\ heap = [o \in DOMAIN instance.fields |-> [to |-> instance.fields[o], good |-> FALSE]]
  /\ weakGood = FALSE
  /\ marked = Roots
  /\ live = 0 /\ cache = [w \in Workers |-> 0]
  /\ stacks = [t \in Threads |-> <<>>]
  /\ nstripes = CalculateNStripes(instance.workers)
  /\ published = [s \in Stripes |->
       SetToSeq({<<Entry(o, FALSE, TRUE)>> : o \in {o \in Roots : StripeForAddr(o) = s}})]
  /\ overflowed = [s \in Stripes |-> <<>>]
  /\ term = [nworkers |-> instance.workers, nworking |-> 0, nawakening |-> 0,
             resurrected |-> FALSE]
  /\ ctx = [w \in Workers |-> NoContext]
  /\ cur = [w \in Workers |-> NoEntry]
  /\ pc = [w \in Workers |-> "idle"]
  /\ wake = [t \in Threads |-> <<>>]
  /\ flush = [t \in Threads |-> None]
  /\ flushOp = NoFlush
  /\ nproactive = 0 /\ requested = 0
  /\ phase = "start"
  /\ local = Null /\ buffer = <<>> /\ op = <<>> /\ stores = 0 /\ disturbances = 0

Done == phase = "done" /\ UNCHANGED vars

Next ==
  /\ \/ \E t \in Threads : WakeUp(t) \/ FlushAndFree(t)
     \/ \E t \in {Mutator, VM} : Handshake(t)
     \/ VMFlush
     \/ \E w \in Workers : Work(w) \/ SpuriousWakeUp(w)
     \/ Coordinate
     \/ \E n \in 1..MaxWorkers : RequestResize(n)
     \/ MutatorStep
     \/ Done
  /\ UNCHANGED instance

\* Every thread that can take a step of its own eventually does; a handshake
\* is executed by the VM thread if the mutator does not.
WorkerStep(w) == WakeUp(w) \/ FlushAndFree(w) \/ Work(w)
VMStep == WakeUp(VM) \/ FlushAndFree(VM) \/ Handshake(VM) \/ VMFlush
OperationStep == WakeUp(Mutator) \/ FlushAndFree(Mutator) \/ (op # <<>> /\ MutatorStep)

Fairness ==
  /\ \A w \in Workers : WF_vars(WorkerStep(w) /\ UNCHANGED instance)
  /\ WF_vars(VMStep /\ UNCHANGED instance)
  /\ WF_vars(Coordinate /\ UNCHANGED instance)
  /\ WF_vars(OperationStep /\ UNCHANGED instance)

Spec == Init /\ [][Next]_vars /\ Fairness

(***************************************************************************)
(* Properties.                                                             *)
(***************************************************************************)
\* the objects reachable from S by the strong fields: those in every set that
\* contains S and what its objects refer to
ReachableFrom(S) ==
  {o \in DOMAIN heap :
     \A T \in SUBSET DOMAIN heap :
       S \subseteq T /\ (\A p \in T : heap[p].to \in T \cup {Null}) => o \in T}

\* When marking has ended, every object the mutator can still reach by its
\* roots and registers is marked, whatever it stored, overwrote or
\* resurrected while marking ran; and no mark stack holds work, although the
\* stacks of Java threads are not looked at in ZMark::end
\* (verify_all_stacks_empty).
MarkingIsComplete ==
  phase = "done" =>
    /\ ReachableFrom(Roots \cup ({local} \ {Null})) \subseteq marked
    /\ StripesAreEmpty
    /\ \A t \in Threads : DOMAIN stacks[t] = {}

EveryObjectIsCounted ==
  live = Cardinality(marked) /\ \A w \in Workers : cache[w] = 0

\* Marking ends when the mutator stops storing, however often the workers
\* go to sleep, are resized, or the termination is broken; and when it has
\* ended, which is for good, every marked object has been counted as live
\* exactly once, before or after the push.
MarkingEnds == <>[](phase = "done" /\ EveryObjectIsCounted)

(***************************************************************************)
(* The situations the run starts from: a mutator that stores and           *)
(* resurrects while two workers mark; one worker, with resizes and         *)
(* spurious wake-ups; and two roots whose children overflow a mark stack,  *)
(* with one worker and with two.                                           *)
(***************************************************************************)
Hidden    == <<2, 0, 0>>
TwoChains == <<2, 0, 4, 0>>
Situations ==
  {[workers |-> 2, fields |-> Hidden, roots |-> {1}, referent |-> 3,
    stores |-> 1, disturbances |-> 0],
   [workers |-> 1, fields |-> Hidden, roots |-> {1}, referent |-> 3,
    stores |-> 0, disturbances |-> 2],
   [workers |-> 1, fields |-> TwoChains, roots |-> {1, 3}, referent |-> 2,
    stores |-> 2, disturbances |-> 0],
   [workers |-> 2, fields |-> TwoChains, roots |-> {1, 3}, referent |-> 2,
    stores |-> 0, disturbances |-> 0]}
=============================================================================

------------------------------ MODULE ZDriver ------------------------------
(***************************************************************************)
(* Threads that stall because the heap is full, and the collections that   *)
(* are run for them: the page allocator's queue of stalled allocations,    *)
(* the message ports of the minor and the major driver, and the two driver *)
(* threads with the phases of a collection that other threads can tell     *)
(* apart.                                                                  *)
(*                                                                         *)
(* Sequence numbers are abstracted to what they are compared for: whether  *)
(* a collection has started since a request was made (seenYoung, seenOld), *)
(* and whether a message has been received since an entry was queued       *)
(* (seen).                                                                 *)
(***************************************************************************)
EXTENDS Integers, Sequences, FiniteSetsExt, SequencesExt

CONSTANTS
  Allocators,    \* threads that allocate pages
  Requesters,    \* threads that ask for a major collection and wait for it
  Sizes,         \* sizes of pages
  HeapSize,      \* _current_max_capacity
  SyncCauses,    \* causes requesters give, with ClearingCauses among them
  TimerCauses,   \* causes the director gives for a major collection
  ScavengeBeforeFullGC

ASSUME DriverAssumption ==
  /\ HeapSize \in Nat
  /\ Sizes \subseteq 1..HeapSize
  /\ Allocators \cap Requesters = {}
  /\ ScavengeBeforeFullGC \in BOOLEAN

\* Causes that imply clearing soft references.
ClearingCauses == {"z_allocation_stall", "metadata_GC_clear_soft_refs"}

Drivers == {"minor", "major"}

VARIABLES
  used,      \* _used
  stalled,   \* _stalled, with the thread each allocation belongs to
  alloc,     \* where each allocating thread is
  size,      \* the size of the page it wants or has just got
  result,    \* _stall_result of its allocation: "none", "page" or "oom"
  port,      \* _has_message, _message and _queue of each driver's port
  waiting,   \* the cause each requester waits for, or "none"
  driver,    \* where each driver is
  owner,     \* the driver that holds ZDriver::_lock, or "none"
  cause,     \* the request the major driver is serving
  clear,     \* the major collection clears soft references
  preclean,  \* the major collection collects the young generation twice
  earned,    \* history: stalled threads that a full major collection has begun for
  served     \* history: requesters that a collection of theirs has begun for

allocVars == <<used, stalled, alloc, size, result>>
driverVars == <<driver, owner, cause, clear, preclean>>
vars == <<allocVars, port, waiting, driverVars, earned, served>>

EmptyPort == [busy |-> FALSE, message |-> "none", queue |-> <<>>]

Init ==
  /\ used = 0
  /\ stalled = <<>>
  /\ alloc = [t \in Allocators |-> "run"]
  /\ size = [t \in Allocators |-> 0]
  /\ result = [t \in Allocators |-> "none"]
  /\ port = [d \in Drivers |-> EmptyPort]
  /\ waiting = [r \in Requesters |-> "none"]
  /\ driver = [d \in Drivers |-> "receive"]
  /\ owner = "none"
  /\ cause = "none"
  /\ clear = FALSE
  /\ preclean = FALSE
  /\ earned = {}
  /\ served = {}
-----------------------------------------------------------------------------
(* ZDriverPort.                                                            *)

\* send_async: dropped when there is a message already, served or not.
SendAsync(p, c) == IF p.busy THEN p ELSE [p EXCEPT !.busy = TRUE, !.message = c]

SendSync(p, r, c) ==
  [p EXCEPT !.queue = Append(@, [thread |-> r, cause |-> c, seen |-> FALSE])]

\* receive, of a port that has a message or a queue.
Receive(p) ==
  [busy    |-> TRUE,
   message |-> IF p.busy THEN p.message ELSE Head(p.queue).cause,
   queue   |-> [i \in DOMAIN p.queue |-> [p.queue[i] EXCEPT !.seen = TRUE]]]

\* Mutant of Answers: the sequence numbers are not compared.
AnswersAllDuplicates(p, e) == p.busy /\ e.cause = p.message

\* ack answers the message and its duplicates, but none queued since receive.
Answers(p, e) == p.busy /\ e.cause = p.message /\ e.seen

Ack(p) ==
  LET q == SelectSeq(p.queue, LAMBDA e : ~Answers(p, e))
  IN  IF ~p.busy THEN p
      ELSE IF q = <<>> THEN EmptyPort
      ELSE [busy |-> TRUE, message |-> Head(q).cause, queue |-> q]
-----------------------------------------------------------------------------
(* The page allocator, and its queue of stalled allocations.               *)

IsAllocAllowed(n, u) == u + n <= HeapSize

TotalSize(q) == FoldLeft(LAMBDA sum, a : sum + a.size, 0, q)
ThreadsOf(q) == {q[i].thread : i \in DOMAIN q}

\* How many allocations satisfy_stalled satisfies when u is used: it stops at
\* the first that does not fit.
Satisfied(u) ==
  Max({0} \cup {i \in 1..Len(stalled) : IsAllocAllowed(TotalSize(SubSeq(stalled, 1, i)), u)})

\* Memory is given back, and stalled allocations are satisfied.
FreePage(n) ==
  LET u == used - n
      k == Satisfied(u)
  IN  /\ used' = u + TotalSize(SubSeq(stalled, 1, k))
      /\ stalled' = SubSeq(stalled, k + 1, Len(stalled))
      /\ result' = [t \in Allocators |-> IF t \in ThreadsOf(SubSeq(stalled, 1, k))
                                         THEN "page" ELSE result[t]]

\* A pause needs every Java thread to be at a safepoint: none of them is
\* between the queue of stalled allocations and its wait, or has just got a page.
AtSafepoint == \A t \in Allocators : alloc[t] \in {"run", "wait"}

PauseLabels ==
  {"mark_start", "mark_start_preclean", "mark_start_roots", "old_relocate_start"}

\* A pause that waits for one thread stops the others.
PausePending == ~AtSafepoint /\ \E d \in Drivers : driver[d] \in PauseLabels

\* alloc_page_or_stall, up to the end of the section under the lock.
AllocPage(t) ==
  /\ alloc[t] = "run"
  /\ ~PausePending
  /\ \E n \in Sizes :
       /\ size' = [size EXCEPT ![t] = n]
       /\ IF IsAllocAllowed(n, used)
          THEN /\ used' = used + n
               /\ alloc' = [alloc EXCEPT ![t] = "allocated"]
               /\ UNCHANGED stalled
          ELSE /\ stalled' = Append(stalled, [thread |-> t, size |-> n,
                                              seenYoung |-> FALSE, seenOld |-> FALSE])
               /\ alloc' = [alloc EXCEPT ![t] = "request"]
               /\ UNCHANGED used
  /\ UNCHANGED <<result, port, waiting, driverVars, earned, served>>

\* alloc_page_stall asks for a minor collection.
RequestMinor(t) ==
  /\ alloc[t] = "request"
  /\ port' = [port EXCEPT !["minor"] = SendAsync(@, "z_allocation_stall")]
  /\ alloc' = [alloc EXCEPT ![t] = "wait"]
  /\ UNCHANGED <<used, stalled, size, result, waiting, driverVars, earned, served>>

\* The future is set: go on with the page, or throw OutOfMemoryError.
StallEnds(t) ==
  /\ alloc[t] = "wait"
  /\ result[t] # "none"
  /\ alloc' = [alloc EXCEPT ![t] = IF result[t] = "page" THEN "allocated" ELSE "run"]
  /\ result' = [result EXCEPT ![t] = "none"]
  /\ size' = [size EXCEPT ![t] = IF result[t] = "page" THEN @ ELSE 0]
  /\ earned' = earned \ {t}
  /\ UNCHANGED <<used, stalled, port, waiting, driverVars, served>>

KeepPage(t) ==
  /\ alloc[t] = "allocated"
  /\ alloc' = [alloc EXCEPT ![t] = "run"]
  /\ size' = [size EXCEPT ![t] = 0]
  /\ UNCHANGED <<used, stalled, result, port, waiting, driverVars, earned, served>>

\* undo_alloc_page: another thread has installed its page first.
UndoPage(t) ==
  /\ alloc[t] = "allocated"
  /\ FreePage(size[t])
  /\ alloc' = [alloc EXCEPT ![t] = "run"]
  /\ size' = [size EXCEPT ![t] = 0]
  /\ UNCHANGED <<port, waiting, driverVars, earned, served>>

Allocator(t) == RequestMinor(t) \/ StallEnds(t) \/ KeepPage(t) \/ UndoPage(t)

\* restart_gc, for the allocations of queue q: the first of them needs a young
\* collection, or, if that did not help, a major one.
RestartGC(ports, q) ==
  IF q = <<>> THEN ports
  ELSE [ports EXCEPT ![IF q[1].seenYoung THEN "major" ELSE "minor"] =
          SendAsync(@, "z_allocation_stall")]

\* Mutant of OutOfMemory: it fails all of them.
OutOfMemoryForAll == Len(stalled)

\* How many allocations notify_out_of_memory fails: those enqueued before the
\* last major collection started.
OutOfMemory ==
  Max({i \in 0..Len(stalled) : \A j \in 1..i : stalled[j].seenOld})

IsAllocStallingForOld ==
  stalled # <<>> /\ Head(stalled).seenYoung /\ ~Head(stalled).seenOld
-----------------------------------------------------------------------------
(* Requests for a major collection.                                        *)

\* A thread that asks for a collection waits until it is done.
RequestMajor(r) ==
  /\ waiting[r] = "none"
  /\ \E c \in SyncCauses :
       /\ waiting' = [waiting EXCEPT ![r] = c]
       /\ port' = [port EXCEPT !["major"] = SendSync(@, r, c)]
  /\ served' = served \ {r}
  /\ UNCHANGED <<allocVars, driverVars, earned>>

\* The director's rules ask for collections at any time.  They give the minor
\* driver other causes, which it treats alike.
Timer ==
  /\ \E c \in TimerCauses, d \in Drivers : port' = [port EXCEPT ![d] = SendAsync(@, c)]
  /\ UNCHANGED <<allocVars, waiting, driverVars, earned, served>>
-----------------------------------------------------------------------------
(* What both drivers do.                                                   *)

Goto(d, label) == driver' = [driver EXCEPT ![d] = label]

ReceiveRequest(d) ==
  /\ driver[d] = "receive"
  /\ port[d].busy \/ port[d].queue # <<>>
  /\ port' = [port EXCEPT ![d] = Receive(@)]
  /\ cause' = IF d = "major" THEN port'[d].message ELSE cause
  /\ Goto(d, "start")
  /\ UNCHANGED <<allocVars, waiting, owner, clear, preclean, earned, served>>

\* Mark start of a young collection, and of the old generation's if old.
MarkStart(old) ==
  /\ AtSafepoint
  /\ stalled' = [i \in DOMAIN stalled |->
                   [stalled[i] EXCEPT !.seenYoung = TRUE, !.seenOld = @ \/ old]]

\* Pages are freed while a generation's relocation set is selected and
\* relocated: any of them but those just allocated.
FreeingLabels == {"young", "young_preclean", "young_roots", "old_mark", "old_relocate"}

CollectionFrees(d) ==
  /\ driver[d] \in FreeingLabels
  /\ LET allocated == MapThenSumSet(LAMBDA t : size[t],
                                    {t \in Allocators : alloc[t] = "allocated" \/ result[t] = "page"})
     IN  \E n \in 1..(used - allocated) : FreePage(n)
  /\ UNCHANGED <<alloc, size, port, waiting, driverVars, earned, served>>

\* Relocation allocates pages too, and does without when there is no memory.
RelocationAllocates(d) ==
  /\ driver[d] \in FreeingLabels \ {"old_mark"}
  /\ \E n \in Sizes : IsAllocAllowed(n, used) /\ used' = used + n
  /\ UNCHANGED <<stalled, alloc, size, result, port, waiting, driverVars, earned, served>>

\* The lock is held by the driver itself.
AckRequest(d, next) ==
  LET answered == {r \in Requesters : \E i \in DOMAIN port[d].queue :
                     port[d].queue[i].thread = r /\ Answers(port[d], port[d].queue[i])}
  IN  /\ port' = [port EXCEPT ![d] = Ack(@)]
      /\ waiting' = [r \in Requesters |-> IF r \in answered THEN "none" ELSE waiting[r]]
      /\ Goto(d, next)
      /\ UNCHANGED <<allocVars, owner, cause, clear, preclean, earned, served>>

HandleForYoung == port' = RestartGC(port, stalled)
-----------------------------------------------------------------------------
(* ZDriverMinor::run_thread.                                               *)

MinorStart ==
  /\ driver["minor"] = "start"
  /\ owner = "none"
  /\ owner' = "minor"
  /\ Goto("minor", "mark_start")
  /\ UNCHANGED <<allocVars, port, waiting, cause, clear, preclean, earned, served>>

MinorMarkStart ==
  /\ driver["minor"] = "mark_start"
  /\ MarkStart(FALSE)
  /\ Goto("minor", "young")
  /\ UNCHANGED <<used, alloc, size, result, port, waiting, owner, cause, clear, preclean,
                 earned, served>>

MinorEnd ==
  /\ driver["minor"] = "young"
  /\ Goto("minor", "ack")
  /\ UNCHANGED <<allocVars, port, waiting, owner, cause, clear, preclean, earned, served>>

MinorAck ==
  /\ driver["minor"] = "ack"
  /\ AckRequest("minor", "handle_stalls")

MinorHandleStalls ==
  /\ driver["minor"] = "handle_stalls"
  /\ HandleForYoung
  /\ owner' = "none"
  /\ Goto("minor", "receive")
  /\ UNCHANGED <<allocVars, waiting, cause, clear, preclean, earned, served>>

Minor ==
  \/ ReceiveRequest("minor") \/ MinorStart \/ MinorMarkStart \/ MinorEnd
  \/ MinorAck \/ MinorHandleStalls
-----------------------------------------------------------------------------
(* ZDriverMajor::run_thread.                                               *)

\* should_clear_soft_references, under the lock.
MajorStart ==
  /\ driver["major"] = "start"
  /\ owner = "none"
  /\ owner' = "major"
  /\ clear' = (cause \in ClearingCauses \/ IsAllocStallingForOld)
  /\ Goto("major", "preclean")
  /\ UNCHANGED <<allocVars, port, waiting, cause, preclean, earned, served>>

\* should_preclean_young; every cause but the director's implies it.
ShouldPreclean ==
  \/ cause \notin TimerCauses
  \/ IsAllocStallingForOld
  \/ ScavengeBeforeFullGC

MajorPreclean ==
  /\ driver["major"] = "preclean"
  /\ preclean' = ShouldPreclean
  /\ Goto("major", IF ShouldPreclean THEN "mark_start_preclean" ELSE "mark_start_roots")
  /\ UNCHANGED <<allocVars, port, waiting, owner, cause, clear, earned, served>>

MajorMarkStartPreclean ==
  /\ driver["major"] = "mark_start_preclean"
  /\ MarkStart(FALSE)
  /\ Goto("major", "young_preclean")
  /\ UNCHANGED <<used, alloc, size, result, port, waiting, owner, cause, clear, preclean,
                 earned, served>>

MajorPrecleanEnd ==
  /\ driver["major"] = "young_preclean"
  /\ Goto("major", "mark_start_roots")
  /\ UNCHANGED <<allocVars, port, waiting, owner, cause, clear, preclean, earned, served>>

\* VM_ZMarkStartYoungAndOld.
MajorMarkStartRoots ==
  /\ driver["major"] = "mark_start_roots"
  /\ MarkStart(TRUE)
  /\ earned' = earned \cup (IF clear /\ preclean THEN ThreadsOf(stalled) ELSE {})
  /\ served' = served \cup {r \in Requesters : waiting[r] \in ClearingCauses => clear}
  /\ Goto("major", "young_roots")
  /\ UNCHANGED <<used, alloc, size, result, port, waiting, owner, cause, clear, preclean>>

\* The end of the young collection; the old one goes on without the lock.
MajorHandleYoung ==
  /\ driver["major"] = "young_roots"
  /\ HandleForYoung
  /\ owner' = "none"
  /\ Goto("major", "old_mark")
  /\ UNCHANGED <<allocVars, waiting, cause, clear, preclean, earned, served>>

\* Young roots are remapped and relocation starts under the lock.
MajorRelocateStart ==
  /\ driver["major"] = "old_mark"
  /\ owner = "none"
  /\ owner' = "major"
  /\ Goto("major", "old_relocate_start")
  /\ UNCHANGED <<allocVars, port, waiting, cause, clear, preclean, earned, served>>

MajorRelocate ==
  /\ driver["major"] = "old_relocate_start"
  /\ AtSafepoint
  /\ owner' = "none"
  /\ Goto("major", "old_relocate")
  /\ UNCHANGED <<allocVars, port, waiting, cause, clear, preclean, earned, served>>

MajorEnd ==
  /\ driver["major"] = "old_relocate"
  /\ owner = "none"
  /\ owner' = "major"
  /\ Goto("major", "ack")
  /\ UNCHANGED <<allocVars, port, waiting, cause, clear, preclean, earned, served>>

MajorAck ==
  /\ driver["major"] = "ack"
  /\ AckRequest("major", "handle_stalls")

\* handle_alloc_stalling_for_old.
MajorHandleStalls ==
  /\ driver["major"] = "handle_stalls"
  /\ LET k == IF clear THEN OutOfMemory ELSE 0
     IN  /\ stalled' = SubSeq(stalled, k + 1, Len(stalled))
         /\ result' = [t \in Allocators |-> IF t \in ThreadsOf(SubSeq(stalled, 1, k))
                                            THEN "oom" ELSE result[t]]
         /\ port' = RestartGC(port, stalled')
  /\ owner' = "none"
  /\ cause' = "none"
  /\ clear' = FALSE
  /\ preclean' = FALSE
  /\ Goto("major", "receive")
  /\ UNCHANGED <<used, alloc, size, waiting, earned, served>>

Major ==
  \/ ReceiveRequest("major") \/ MajorStart \/ MajorPreclean
  \/ MajorMarkStartPreclean \/ MajorPrecleanEnd \/ MajorMarkStartRoots
  \/ MajorHandleYoung \/ MajorRelocateStart \/ MajorRelocate \/ MajorEnd
  \/ MajorAck \/ MajorHandleStalls
-----------------------------------------------------------------------------
Next ==
  \/ \E t \in Allocators : AllocPage(t) \/ Allocator(t)
  \/ \E r \in Requesters : RequestMajor(r)
  \/ Timer
  \/ \E d \in Drivers : CollectionFrees(d) \/ RelocationAllocates(d)
  \/ Minor \/ Major

\* Collections go on and end, and threads that have an answer go on; nobody
\* has to allocate or to ask, and a collection need not free anything.  A driver
\* gets the lock some time if it is free again and again, and a pause comes about
\* if all threads are at a safepoint again and again.
Fairness ==
  /\ \A t \in Allocators : WF_vars(Allocator(t))
  /\ SF_vars(Minor) /\ SF_vars(Major)

Spec == Init /\ [][Next]_vars /\ Fairness
-----------------------------------------------------------------------------
AllocLabels == {"run", "request", "wait", "allocated"}

TypeOK ==
  /\ used \in 0..HeapSize
  /\ alloc \in [Allocators -> AllocLabels]
  /\ ThreadsOf(stalled) \subseteq Allocators
  /\ size \in [Allocators -> Sizes \cup {0}]
  /\ result \in [Allocators -> {"none", "page", "oom"}]
  /\ waiting \in [Requesters -> SyncCauses \cup {"none"}]
  /\ owner \in Drivers \cup {"none"}
  /\ clear \in BOOLEAN /\ preclean \in BOOLEAN

\* Nobody is told that the heap is exhausted before the whole of it has been
\* collected for that thread: a major collection has started since it stalled,
\* that cleared soft references, and collected the young generation first
\* (notify_out_of_memory, and the comment at the end of should_preclean_young).
OutOfMemoryIsEarned ==
  \A t \in Allocators : result[t] = "oom" => t \in earned

\* A requester is answered by a collection that marked after the request was
\* made, and that cleared soft references if that is what was asked for.
RequestsAreServed ==
  [][\A r \in Requesters : waiting[r] # "none" /\ waiting'[r] = "none" => r \in served]_vars

\* A stalled allocation gets its page or fails.  It need not, if requests that
\* do not clear soft references always find the major driver's port taken.
StallsEnd == \A t \in Allocators : alloc[t] = "wait" ~> alloc[t] # "wait"

OnlyStallRequests ==
  \A d \in Drivers :
    port[d].queue = <<>> /\ port[d].message \in {"none", "z_allocation_stall"}

\* It does when the requests for collections of other causes cease: the
\* handle_alloc_stalling functions start what is needed by the first in the queue.
StallsEndIfUndisturbed == <>[]OnlyStallRequests => StallsEnd

\* Whoever waits for a collection is answered by one that is good enough: both
\* of the above.
WaitersAreServed == RequestsAreServed /\ StallsEndIfUndisturbed
=============================================================================

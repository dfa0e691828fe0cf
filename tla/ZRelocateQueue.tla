--------------------------- MODULE ZRelocateQueue ---------------------------
(***************************************************************************)
(* ZRelocateQueue and the threads around it: the GC workers running        *)
(* ZRelocateTask::work, the threads that ask for a page in add_and_wait,   *)
(* the VM thread that synchronizes and desynchronizes the queue around a   *)
(* safepoint, and ZWorkers::run, which starts the task, and starts it      *)
(* again when the number of workers is changed under way.                  *)
(*                                                                         *)
(* A section under _lock is one step, up to its wait() if it has one: the  *)
(* only state of it that others change without the lock are _done and      *)
(* _claimed, which are set once, and a thread that sets either reads       *)
(* nothing of the section before it has taken the lock itself.             *)
(*                                                                         *)
(* The forwarding itself is abstracted (ZForwarding models it) to the      *)
(* three moments the queue can tell apart: claimed, released (retain_page  *)
(* fails from now on, so nobody comes to wait any more) and done.          *)
(***************************************************************************)
EXTENDS Integers, FiniteSets

CONSTANTS Workers,      \* GC worker threads of the generation
          Mutators,     \* threads that may have to wait for a page
          Forwardings,  \* the relocation set
          Resizes,      \* the numbers of workers the director may ask for
          NoForwarding

\* The VM thread, as a member of the set of waiting threads.
VMThread == "VM thread"

QueueAssumption ==
  /\ IsFiniteSet(Workers) /\ Workers # {}
  /\ Workers \cap Mutators = {}
  /\ VMThread \notin Workers \cup Mutators
  /\ Resizes \subseteq 1..Cardinality(Workers)
  /\ NoForwarding \notin Forwardings

QueueThreads == Workers \cup Mutators

VARIABLES
  queue,           \* _queue: forwardings somebody waits for, in any order
  nworkers,        \* _nworkers: workers in the task
  nsynchronized,   \* _nsynchronized: workers stopped for a safepoint
  synchronize,     \* _synchronize: a safepoint wants the workers to stop
  needsAttention,  \* _needs_attention
  isActive,        \* _is_active
  waiting,         \* threads inside _lock.wait()
  claimed,         \* forwardings whose _claimed is set
  released,        \* forwardings whose _ref_count has reached 0
  done,            \* forwardings whose _done is set
  unvisited,       \* forwardings _iter has not handed out yet
  pc,              \* where each thread is
  forwarding,      \* the forwarding each thread is working on or waiting for
  resume,          \* where a worker goes on when its forwarding is done
  active,          \* active_workers() of ZWorkers
  resizeRequest,   \* _requested_nworkers of ZWorkers, 0 for none
  vmThread         \* where the VM thread is

queueVars == <<queue, nworkers, nsynchronized, synchronize, needsAttention, waiting>>
pageVars  == <<claimed, released, done, unvisited>>
localVars == <<forwarding, resume>>
outerVars == <<isActive, active, resizeRequest, vmThread>>

vars == <<queueVars, pageVars, localVars, outerVars, pc>>

\* ZRelocate::start has activated the queue, in the safepoint that begins the
\* relocation phase; the task is about to be started.
Init ==
  /\ queue = {}
  /\ nworkers = Cardinality(Workers)
  /\ nsynchronized = 0
  /\ synchronize = TRUE
  /\ needsAttention = 1
  /\ isActive = TRUE
  /\ waiting = {}
  /\ claimed = {} /\ released = {} /\ done = {}
  /\ unvisited = Forwardings
  /\ pc = [t \in QueueThreads |-> IF t \in Workers THEN "poll" ELSE "run"]
  /\ forwarding = [t \in QueueThreads |-> NoForwarding]
  /\ resume = [w \in Workers |-> "poll"]
  /\ active = Cardinality(Workers)
  /\ resizeRequest = 0
  /\ vmThread = "safepoint"

Goto(t, label) == pc' = [pc EXCEPT ![t] = label]
Take(t, f) == forwarding' = [forwarding EXCEPT ![t] = f]
-----------------------------------------------------------------------------
(* prune and prune_and_claim, inside a section under the lock.             *)

\* The forwardings prune leaves in the queue.
Pruned == queue \ done
PruneFinds == Pruned # queue

\* dec_needs_attention, when prune emptied the queue.
AttentionAfterPrune ==
  IF PruneFinds /\ Pruned = {} THEN needsAttention - 1 ELSE needsAttention

Unclaimed == Pruned \ claimed

\* prune_and_claim gives w one of the forwardings somebody waits for.
ClaimQueued(w) ==
  \E f \in Unclaimed :
    /\ claimed' = claimed \cup {f}
    /\ Take(w, f)
    /\ resume' = [resume EXCEPT ![w] = "poll"]
    /\ Goto(w, "relocate")
-----------------------------------------------------------------------------
(* synchronize_poll, called by a worker between two pages.                 *)

PollFast(w) ==
  /\ pc[w] = "poll"
  /\ Goto(w, IF needsAttention = 0 THEN "next" ELSE "poll_lock")
  /\ UNCHANGED <<queueVars, pageVars, localVars, outerVars>>

\* There is a page somebody waits for.
PollClaims(w) ==
  /\ pc[w] = "poll_lock"
  /\ ClaimQueued(w)
  /\ queue' = Pruned
  /\ needsAttention' = AttentionAfterPrune
  /\ waiting' = IF PruneFinds THEN {} ELSE waiting
  /\ UNCHANGED <<nworkers, nsynchronized, synchronize, released, done, unvisited, outerVars>>

\* There is none, and no safepoint either.
PollReturns(w) ==
  /\ pc[w] = "poll_lock"
  /\ Unclaimed = {}
  /\ ~synchronize
  /\ queue' = Pruned
  /\ needsAttention' = AttentionAfterPrune
  /\ waiting' = IF PruneFinds THEN {} ELSE waiting
  /\ Goto(w, "next")
  /\ UNCHANGED <<nworkers, nsynchronized, synchronize, pageVars, localVars, outerVars>>

\* Synchronize, and tell the VM thread if this was the last worker.
PollSynchronizes(w) ==
  /\ pc[w] = "poll_lock"
  /\ Unclaimed = {}
  /\ synchronize
  /\ queue' = Pruned
  /\ needsAttention' = AttentionAfterPrune
  /\ nsynchronized' = nsynchronized + 1
  /\ waiting' = {w} \cup IF PruneFinds \/ nsynchronized' = nworkers THEN {} ELSE waiting
  /\ Goto(w, "synchronized")
  /\ UNCHANGED <<nworkers, synchronize, pageVars, localVars, outerVars>>

\* Woken up while synchronized, for a page: desynchronize and relocate it.
WokenClaims(w) ==
  /\ pc[w] = "synchronized" /\ w \notin waiting
  /\ ClaimQueued(w)
  /\ queue' = Pruned
  /\ needsAttention' = AttentionAfterPrune
  /\ waiting' = IF PruneFinds THEN {} ELSE waiting
  /\ nsynchronized' = nsynchronized - 1
  /\ UNCHANGED <<nworkers, synchronize, released, done, unvisited, outerVars>>

\* Woken up because the safepoint is over.
WokenReturns(w) ==
  /\ pc[w] = "synchronized" /\ w \notin waiting
  /\ Unclaimed = {}
  /\ ~synchronize
  /\ queue' = Pruned
  /\ needsAttention' = AttentionAfterPrune
  /\ waiting' = IF PruneFinds THEN {} ELSE waiting
  /\ nsynchronized' = nsynchronized - 1
  /\ Goto(w, "next")
  /\ UNCHANGED <<nworkers, synchronize, pageVars, localVars, outerVars>>

\* Woken up for nothing this worker can do: wait again.
WokenWaits(w) ==
  /\ pc[w] = "synchronized" /\ w \notin waiting
  /\ Unclaimed = {}
  /\ synchronize
  /\ queue' = Pruned
  /\ needsAttention' = AttentionAfterPrune
  /\ waiting' = {w} \cup IF PruneFinds THEN {} ELSE waiting
  /\ UNCHANGED <<nworkers, nsynchronized, synchronize, pageVars, localVars, outerVars, pc>>
-----------------------------------------------------------------------------
(* The rest of ZRelocateTask::work.                                        *)

\* do_forwarding, up to the worker's release and detach of the page.
ReleasePage(w) ==
  /\ pc[w] = "relocate"
  /\ released' = released \cup {forwarding[w]}
  /\ Goto(w, "mark_done")
  /\ UNCHANGED <<queueVars, localVars, outerVars, claimed, done, unvisited>>

\* The last thing done to the page; the lock is not taken and nobody is told.
MarkDone(w) ==
  /\ pc[w] = "mark_done"
  /\ done' = done \cup {forwarding[w]}
  /\ Take(w, NoForwarding)
  /\ Goto(w, resume[w])
  /\ UNCHANGED <<queueVars, outerVars, claimed, released, unvisited, resume>>

\* _iter.next
NextForwarding(w) ==
  /\ pc[w] = "next"
  /\ \E f \in unvisited :
       /\ unvisited' = unvisited \ {f}
       /\ Take(w, f)
  /\ Goto(w, "claim")
  /\ UNCHANGED <<queueVars, outerVars, claimed, released, done, resume>>

NoMoreWork(w) ==
  /\ pc[w] = "next"
  /\ unvisited = {}
  /\ Goto(w, "leave")
  /\ UNCHANGED <<queueVars, pageVars, localVars, outerVars>>

\* Mutant: a request to resize is looked for before the page is claimed.
ClaimVisitedOrLeave(w) ==
  /\ pc[w] = "claim"
  /\ IF forwarding[w] \in claimed \/ resizeRequest # 0
     THEN /\ Take(w, NoForwarding)
          /\ Goto(w, "resize")
          /\ UNCHANGED <<claimed, resume>>
     ELSE /\ claimed' = claimed \cup {forwarding[w]}
          /\ resume' = [resume EXCEPT ![w] = "resize"]
          /\ Goto(w, "relocate")
          /\ UNCHANGED forwarding
  /\ UNCHANGED <<queueVars, outerVars, released, done, unvisited>>

\* claim_and_do_forwarding: another worker may have got it from the queue.
ClaimVisited(w) ==
  /\ pc[w] = "claim"
  /\ IF forwarding[w] \in claimed
     THEN /\ Take(w, NoForwarding)
          /\ Goto(w, "resize")
          /\ UNCHANGED <<claimed, resume>>
     ELSE /\ claimed' = claimed \cup {forwarding[w]}
          /\ resume' = [resume EXCEPT ![w] = "resize"]
          /\ Goto(w, "relocate")
          /\ UNCHANGED forwarding
  /\ UNCHANGED <<queueVars, outerVars, released, done, unvisited>>

\* should_worker_resize
CheckResize(w) ==
  /\ pc[w] = "resize"
  /\ Goto(w, IF resizeRequest # 0 THEN "leave" ELSE "poll")
  /\ UNCHANGED <<queueVars, pageVars, localVars, outerVars>>

\* Mutant: the last worker does not tell the VM thread.
LeaveUnnoticed(w) ==
  /\ pc[w] = "leave"
  /\ nworkers' = nworkers - 1
  /\ queue' = Pruned
  /\ needsAttention' = AttentionAfterPrune
  /\ waiting' = IF PruneFinds THEN {} ELSE waiting
  /\ Goto(w, "parked")
  /\ UNCHANGED <<nsynchronized, synchronize, pageVars, localVars, outerVars>>

Leave(w) ==
  /\ pc[w] = "leave"
  /\ nworkers' = nworkers - 1
  /\ queue' = Pruned
  /\ needsAttention' = AttentionAfterPrune
  /\ waiting' = IF PruneFinds \/ (synchronize /\ nworkers' = nsynchronized) THEN {} ELSE waiting
  /\ Goto(w, "parked")
  /\ UNCHANGED <<nsynchronized, synchronize, pageVars, localVars, outerVars>>

Worker(w) ==
  \/ PollFast(w) \/ PollClaims(w) \/ PollReturns(w) \/ PollSynchronizes(w)
  \/ WokenClaims(w) \/ WokenReturns(w) \/ WokenWaits(w)
  \/ ReleasePage(w) \/ MarkDone(w)
  \/ NextForwarding(w) \/ NoMoreWork(w) \/ ClaimVisited(w)
  \/ CheckResize(w) \/ Leave(w)
-----------------------------------------------------------------------------
(* ZWorkers::run of the restartable task, and its destructor.              *)

AllParked == isActive /\ \A w \in Workers : pc[w] = "parked"

\* The director asks for another number of workers (request_resize_workers).
RequestResize(n) ==
  /\ isActive
  /\ n \notin {resizeRequest, active}
  /\ resizeRequest' = n
  /\ UNCHANGED <<queueVars, pageVars, localVars, isActive, active, vmThread, pc>>

\* resize_workers, and the task starts again on n workers.
Restart ==
  /\ AllParked
  /\ resizeRequest # 0
  /\ active' = resizeRequest
  /\ nworkers' = resizeRequest
  /\ resizeRequest' = 0
  /\ \E W \in SUBSET Workers :
       /\ Cardinality(W) = resizeRequest
       /\ pc' = [t \in QueueThreads |-> IF t \in W THEN "poll" ELSE pc[t]]
  /\ UNCHANGED <<queue, nsynchronized, synchronize, needsAttention, waiting,
                 pageVars, localVars, isActive, vmThread>>

\* The task is over: deactivate.
Deactivate ==
  /\ AllParked
  /\ resizeRequest = 0
  /\ isActive' = FALSE
  /\ UNCHANGED <<queueVars, pageVars, localVars, active, resizeRequest, vmThread, pc>>
-----------------------------------------------------------------------------
(* add_and_wait, by a thread that could not relocate an object itself: it  *)
(* could not allocate, or an in-place relocation has claimed the page.     *)

Stall(m, f) ==
  /\ pc[m] = "run"
  /\ vmThread # "safepoint"
  /\ f \notin released
  /\ Take(m, f)
  /\ Goto(m, "add")
  /\ UNCHANGED <<queueVars, pageVars, outerVars, resume>>

AddReturns(m) ==
  /\ pc[m] = "add"
  /\ forwarding[m] \in done
  /\ Take(m, NoForwarding)
  /\ Goto(m, "run")
  /\ UNCHANGED <<queueVars, pageVars, outerVars, resume>>

AddWaits(m) ==
  /\ pc[m] = "add"
  /\ forwarding[m] \notin done
  /\ queue' = queue \cup {forwarding[m]}
  /\ IF queue = {}
     THEN needsAttention' = needsAttention + 1 /\ waiting' = {m}
     ELSE waiting' = waiting \cup {m} /\ UNCHANGED needsAttention
  /\ Goto(m, "wait")
  /\ UNCHANGED <<nworkers, nsynchronized, synchronize, pageVars, localVars, outerVars>>

WaitReturns(m) ==
  /\ pc[m] = "wait" /\ m \notin waiting
  /\ forwarding[m] \in done
  /\ Take(m, NoForwarding)
  /\ Goto(m, "run")
  /\ UNCHANGED <<queueVars, pageVars, outerVars, resume>>

WaitAgain(m) ==
  /\ pc[m] = "wait" /\ m \notin waiting
  /\ forwarding[m] \notin done
  /\ waiting' = waiting \cup {m}
  /\ UNCHANGED <<queue, nworkers, nsynchronized, synchronize, needsAttention,
                 pageVars, localVars, outerVars, pc>>

Mutator(m) == AddReturns(m) \/ AddWaits(m) \/ WaitReturns(m) \/ WaitAgain(m)
-----------------------------------------------------------------------------
(* The VM thread: synchronize, wait for the mutators, safepoint,           *)
(* desynchronize.                                                          *)

\* Enter synchronize, and wait unless the workers are synchronized already.
SynchronizeBegin ==
  /\ vmThread = "run"
  /\ synchronize' = TRUE
  /\ needsAttention' = needsAttention + 1
  /\ IF nworkers = nsynchronized
     THEN vmThread' = "stop" /\ UNCHANGED waiting
     ELSE vmThread' = "synchronize" /\ waiting' = waiting \cup {VMThread}
  /\ UNCHANGED <<queue, nworkers, nsynchronized, pageVars, localVars, isActive,
                 active, resizeRequest, pc>>

\* Mutant: if instead of while around the wait.
SynchronizeWokenOnce ==
  /\ vmThread = "synchronize" /\ VMThread \notin waiting
  /\ vmThread' = "stop"
  /\ UNCHANGED <<queueVars, pageVars, localVars, isActive, active, resizeRequest, pc>>

SynchronizeWoken ==
  /\ vmThread = "synchronize" /\ VMThread \notin waiting
  /\ IF nworkers = nsynchronized
     THEN vmThread' = "stop" /\ UNCHANGED waiting
     ELSE waiting' = waiting \cup {VMThread} /\ UNCHANGED vmThread
  /\ UNCHANGED <<queue, nworkers, nsynchronized, synchronize, needsAttention,
                 pageVars, localVars, isActive, active, resizeRequest, pc>>

\* All mutators have stopped; one that waits in add_and_wait cannot.
Safepoint ==
  /\ vmThread = "stop"
  /\ \A m \in Mutators : pc[m] = "run"
  /\ vmThread' = "safepoint"
  /\ UNCHANGED <<queueVars, pageVars, localVars, isActive, active, resizeRequest, pc>>

Desynchronize ==
  /\ vmThread = "safepoint"
  /\ synchronize' = FALSE
  /\ needsAttention' = needsAttention - 1
  /\ waiting' = {}
  /\ vmThread' = "run"
  /\ UNCHANGED <<queue, nworkers, nsynchronized, pageVars, localVars, isActive,
                 active, resizeRequest, pc>>
-----------------------------------------------------------------------------
\* A condition variable may wake up a thread without a notification.
SpuriousWakeup(t) ==
  /\ t \in waiting
  /\ waiting' = waiting \ {t}
  /\ UNCHANGED <<queue, nworkers, nsynchronized, synchronize, needsAttention,
                 pageVars, localVars, outerVars, pc>>

Next ==
  \/ \E w \in Workers : Worker(w)
  \/ \E m \in Mutators : Mutator(m) \/ \E f \in Forwardings : Stall(m, f)
  \/ \E n \in Resizes : RequestResize(n)
  \/ Restart \/ Deactivate
  \/ SynchronizeBegin \/ SynchronizeWoken \/ Safepoint \/ Desynchronize
  \/ \E t \in QueueThreads \cup {VMThread} : SpuriousWakeup(t)

\* The threads are scheduled and the lock is handed on.  Nobody has to stall,
\* to ask for a safepoint or to ask for other workers; a safepoint that is
\* asked for happens and ends.
Fairness ==
  /\ \A w \in Workers : WF_vars(Worker(w))
  /\ \A m \in Mutators : WF_vars(Mutator(m))
  /\ WF_vars(Restart) /\ WF_vars(Deactivate)
  /\ WF_vars(SynchronizeWoken) /\ WF_vars(Safepoint) /\ WF_vars(Desynchronize)

Spec == Init /\ [][Next]_vars /\ Fairness
-----------------------------------------------------------------------------
WorkerPCs == {"parked", "poll", "poll_lock", "synchronized", "relocate",
              "mark_done", "next", "claim", "resize", "leave"}
MutatorPCs == {"run", "add", "wait"}

TypeOK ==
  /\ queue \subseteq Forwardings
  /\ nworkers \in 0..Cardinality(Workers)
  /\ nsynchronized \in 0..Cardinality(Workers)
  /\ synchronize \in BOOLEAN
  /\ needsAttention \in 0..2
  /\ isActive \in BOOLEAN
  /\ waiting \subseteq QueueThreads \cup {VMThread}
  /\ claimed \subseteq Forwardings
  /\ released \subseteq Forwardings
  /\ done \subseteq Forwardings
  /\ unvisited \subseteq Forwardings
  /\ pc \in [QueueThreads -> WorkerPCs \cup MutatorPCs]
  /\ forwarding \in [QueueThreads -> Forwardings \cup {NoForwarding}]
  /\ resume \in [Workers -> {"poll", "resize"}]
  /\ active \in 1..Cardinality(Workers)
  /\ resizeRequest \in 0..Cardinality(Workers)
  /\ vmThread \in {"run", "synchronize", "stop", "safepoint"}

\* Workers between claim and mark_done are relocating objects.
Relocating(w) == pc[w] \in {"relocate", "mark_done"}

\* The queue stands in for the suspendible thread set: no worker relocates
\* while the VM is at a safepoint (the comment at zRelocate.cpp:1201-1207).
SafepointQuiescent == vmThread = "safepoint" => ~\E w \in Workers : Relocating(w)

\* clear's asserts: when the task is over nobody is left in the queue, and
\* every page of the relocation set has been relocated.
TaskCompletes == ~isActive => nworkers = 0 /\ queue = {} /\ done = Forwardings

\* A thread that waits for a page gets it, also while a safepoint waits for
\* that thread.
StalledResumes == \A m \in Mutators : pc[m] = "wait" ~> pc[m] = "run"

\* The VM thread gets its safepoint.
SafepointReached == vmThread = "synchronize" ~> vmThread = "safepoint"

=============================================================================

---------------------------- MODULE MCRelocation ----------------------------
(***************************************************************************)
(* One run for the data structures of relocation that share no state: the  *)
(* forwarding table of a page, the relocation queue, the selection and     *)
(* installation of the relocation set, the allocation of objects in shared *)
(* pages, and the JNI critical regions that the pauses block.  A behaviour *)
(* exercises one of them, `running`; the others stay as they are at first. *)
(***************************************************************************)
EXTENDS ZForwardingTable, TLC

\* Two threads' objects collide in the last slot of an eight-slot table, the
\* third object hashes to the slot their probes wrap around to.
CONSTANTS k1, k2, k3
MCKeys == {k1, k2, k3}
MCHash == k1 :> 7 @@ k2 :> 15 @@ k3 :> 0

-----------------------------------------------------------------------------
CONSTANTS Workers, Mutators, Forwardings, Resizes, NoForwarding

VARIABLES queue, nworkers, nsynchronized, synchronize, needsAttention, waiting, claimed,
          released, done, unvisited, queuePc, forwarding, resume, isActive, active,
          resizeRequest, vmThread
queueVars ==
  <<queue, nworkers, nsynchronized, synchronize, needsAttention, waiting,
    claimed, released, done, unvisited, queuePc, forwarding, resume,
    isActive, active, resizeRequest, vmThread>>

Q == INSTANCE ZRelocateQueue WITH pc <- queuePc

ASSUME QueueAssumption == Q!QueueAssumption

-----------------------------------------------------------------------------
\* Three small pages, of which two that are nearly empty fit into one, two
\* medium ones and a large one; objects are one unit.
CONSTANTS RelocationWorkers

VARIABLES phase, age, live, cursor, _live_pages, _not_selected_pages, _forwarding_entries,
          _empty_pages, freed, _tenuring_threshold, nextIndex, local, _top, _end,
          _forwardings, _forwarding_table, toAge, _flip_promoted_pages,
          _in_place_relocate_promoted_pages, _recyclable_pages, destroyed
setVars ==
  <<phase, age, live, cursor, _live_pages, _not_selected_pages,
    _forwarding_entries, _empty_pages, freed, _tenuring_threshold,
    nextIndex, local, _top, _end, _forwardings, _forwarding_table, toAge,
    _flip_promoted_pages, _in_place_relocate_promoted_pages,
    _recyclable_pages, destroyed>>

R == INSTANCE ZRelocationSet WITH
       Workers            <- RelocationWorkers,
       Pages              <- 1 .. 5,
       TypeOf             <- <<"small", "medium", "small", "medium", "large">>,
       PageSize           <- [small |-> 8, medium |-> 16],
       ObjectSizeLimit    <- [small |-> 1, medium |-> 2],
       NPartitions        <- 4,
       FragmentationLimit <- 25,
       LiveBytes          <- {0, 2, 5},
       Ages               <- 0 .. 1,
       PageAges           <- {<<0, 0, 1, 1, 0>>, <<1, 0, 0, 0, 1>>},
       RecycleLimit       <- 50,
       Bulk               <- 2

-----------------------------------------------------------------------------
\* Two threads; a small page has room for two small objects, a medium page
\* for one medium object, so that every page fills up.
CONSTANTS Allocators, Cpus, SmallPage, SmallObjects, MediumPage, MediumObjects, LargeObjects,
          MaxPages, MaxRetired

VARIABLES shared, _used, _undone, size, pageTop, undone, retired, objects, allocatorPc, call
objectVars ==
  <<shared, _used, _undone, size, pageTop, undone, retired, objects,
    allocatorPc, call>>

O == INSTANCE ZObjectAllocator WITH
       Threads <- Allocators, _top <- pageTop, pc <- allocatorPc

ASSUME AllocatorAssumption == O!AllocatorAssumption

-----------------------------------------------------------------------------
CONSTANTS JavaThreads, Drivers, MaxDepth

VARIABLES _count, criticalWaiting, seen, depth, criticalPc
criticalVars ==
  <<_count, criticalWaiting, seen, depth, criticalPc>>

J == INSTANCE ZJNICritical WITH waiting <- criticalWaiting, pc <- criticalPc

ASSUME CriticalAssumption == J!CriticalAssumption

-----------------------------------------------------------------------------
VARIABLE running

mcVars == <<vars, queueVars, setVars, objectVars, criticalVars, running>>

MCInit ==
  /\ running \in {"table", "queue", "set", "objects", "critical"}
  /\ Init /\ Q!Init /\ R!Init /\ O!Init /\ J!Init

OnlyRuns(part) ==
  /\ running = part
  /\ UNCHANGED running
  /\ IF part = "table" THEN TRUE ELSE UNCHANGED vars
  /\ IF part = "queue" THEN TRUE ELSE UNCHANGED queueVars
  /\ IF part = "set" THEN TRUE ELSE UNCHANGED setVars
  /\ IF part = "objects" THEN TRUE ELSE UNCHANGED objectVars
  /\ IF part = "critical" THEN TRUE ELSE UNCHANGED criticalVars

MCNext ==
  \/ OnlyRuns("table") /\ Next
  \/ OnlyRuns("queue") /\ Q!Next
  \/ OnlyRuns("set") /\ R!Next
  \/ OnlyRuns("objects") /\ O!Next
  \/ OnlyRuns("critical") /\ J!Next

\* The queue's fairness, while it runs.
MCFairness ==
  /\ \A w \in Workers : WF_queueVars(running = "queue" /\ Q!Worker(w))
  /\ \A m \in Mutators : WF_queueVars(running = "queue" /\ Q!Mutator(m))
  /\ WF_queueVars(running = "queue" /\ Q!Restart)
  /\ WF_queueVars(running = "queue" /\ Q!Deactivate)
  /\ WF_queueVars(running = "queue" /\ Q!SynchronizeWoken)
  /\ WF_queueVars(running = "queue" /\ Q!Safepoint)
  /\ WF_queueVars(running = "queue" /\ Q!Desynchronize)

MCSpec == MCInit /\ [][MCNext]_mcVars /\ MCFairness

-----------------------------------------------------------------------------
\* While the VM is at a safepoint no worker is relocating
\* (ZRelocateQueue::synchronize).
SafepointQuiescent == Q!SafepointQuiescent

\* When the task has ended every page of the relocation set is done and
\* nobody waits (ZRelocateTask).
TaskCompletes == Q!TaskCompletes

\* A safepoint that is asked for is reached, and a thread that waits for a
\* page goes on (ZRelocateQueue::synchronize, add_and_wait).
WaitsEnd == Q!SafepointReached /\ Q!StalledResumes

\* Every page is accounted for.  In the relocation set: every page that
\* marking found is relocated or aged, and the page objects that clones
\* replaced are destroyed once (ZFlipAgePagesTask, reset); the memory reserved
\* for forwardings is what they take, and only sets of pages that reclaim
\* memory are selected (ZRelocationSetInstallTask, select_inner).  In the
\* object allocator: used is the pages kept (undo_alloc_page, used).
EveryPageIsAccountedFor ==
  /\ running = "set" => R!EveryPageMovesOn /\ R!ForwardingsFit /\ R!SelectionReclaims
  /\ running = "objects" => O!PagesAreCounted

\* Objects are allocated once, in pages that are kept, and no page leaks
\* (alloc_object_in_shared_page).
ObjectsAreSafe ==
  running = "objects" => O!ObjectsAreSafe /\ O!PagesAreKept

\* A collection that has blocked the JNI critical regions is alone, and
\* nobody who waits for one misses the notification (ZJNICritical::block).
CriticalRegionsAreBlocked ==
  running = "critical" => J!BlockedIsExclusive /\ J!NoLostWakeup
=============================================================================

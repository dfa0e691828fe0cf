------------------------------ MODULE ZDirector ------------------------------
(***************************************************************************)
(* The director samples the heap and the collections that are running,     *)
(* decides whether a collection is to start and with how many workers, and *)
(* asks running collections to change their number of workers              *)
(* (zDirector.cpp, zWorkers.cpp).  Samples are taken one generation at a   *)
(* time, and the collections go on between a sample and its use.           *)
(*                                                                         *)
(* What the rules compute from times and sizes is abstract: a rule that is *)
(* enabled may or may not fire, and the efficiency of the generations is   *)
(* any ratio of two Efficiencies.                                          *)
(***************************************************************************)
EXTENDS Integers

CONSTANTS Concurrent,       \* ZHeuristics::nconcurrent_workers()
          ThreadFlags,      \* values given to flags of GC threads; 0 is not given
          Efficiencies,     \* what a generation yields for its work, as numbers
          WarmupCycles      \* 3 in the code

DirectorAssumption ==
  /\ Concurrent \in Nat \ {0}
  /\ ThreadFlags \subseteq Nat
  /\ Efficiencies \subseteq Nat
  /\ WarmupCycles \in Nat \ {0, 1}

VARIABLES flags,            \* the flags after select_max_gc_threads
          young, old,       \* ZWorkers of each generation
          minor, major,     \* the drivers and the request each serves
          stalled,          \* is_alloc_stalling()
          nwarmup_cycles,   \* _nwarmup_cycles of the old generation
          urgent,           \* memory ends before a young collection would
          pc, stats, choice \* the director: its step, its samples, its selection

directorVars == <<pc, stats, choice>>
driverVars == <<minor, major>>
vars == <<flags, young, old, minor, major, stalled, nwarmup_cycles, urgent,
          pc, stats, choice>>

Larger(a, b) == IF a > b THEN a ELSE b
Smaller(a, b) == IF a < b THEN a ELSE b
Clamp(n, lo, hi) == Smaller(hi, Larger(n, lo))

-----------------------------------------------------------------------------
(* Flags.                                                                  *)

\* ZArguments::select_max_gc_threads over the flags of the command line.
SelectMaxGCThreads(cmd) ==
  LET generation == IF cmd.conc = 0 THEN Concurrent ELSE cmd.conc
      conc == IF cmd.conc = 0
                THEN Larger(generation, Larger(cmd.young, cmd.old))
                ELSE cmd.conc
      youngThreads ==
        CASE cmd.young # 0 -> cmd.young
          [] cmd.young = 0 /\ cmd.dynamic -> generation
          [] OTHER -> Larger((generation * 9) \div 10, 1)
      oldThreads ==
        CASE cmd.old # 0 -> cmd.old
          [] cmd.old = 0 /\ cmd.dynamic -> generation
          [] OTHER -> Larger(conc - youngThreads, 1)
  IN  [ConcGCThreads |-> conc, ZYoungGCThreads |-> youngThreads,
       ZOldGCThreads |-> oldThreads, UseDynamicNumberOfGCThreads |-> cmd.dynamic]

\* The VM exits when a generation is given more threads than both may have.
Settings ==
  {f \in {SelectMaxGCThreads(cmd) :
            cmd \in [conc : ThreadFlags, young : ThreadFlags, old : ThreadFlags,
                     dynamic : BOOLEAN]} :
     f.ZYoungGCThreads <= f.ConcGCThreads /\ f.ZOldGCThreads <= f.ConcGCThreads}

-----------------------------------------------------------------------------
(* The workers of a generation.                                            *)

SetActiveWorkers(workers, n) == [workers EXCEPT !.active_workers = n]
SetActive(workers) == [workers EXCEPT !.is_active = TRUE, !.requested_nworkers = 0]
SetInactive(workers) == [workers EXCEPT !.is_active = FALSE]

RequestResizeWorkers(workers, n) ==
  IF n \in {workers.requested_nworkers, workers.active_workers}
    THEN workers
    ELSE [workers EXCEPT !.requested_nworkers = n]

\* A restartable task ends and is run again if a request came meanwhile.
NeedsRestart(workers) == workers.is_active /\ workers.requested_nworkers # 0
RestartTask(workers) ==
  [workers EXCEPT !.active_workers = workers.requested_nworkers,
                  !.requested_nworkers = 0]

\* sample_worker_resize_stats
Sample(workers) ==
  [is_active |-> workers.is_active,
   nworkers_current |-> IF workers.is_active THEN workers.active_workers ELSE 0]

-----------------------------------------------------------------------------
(* The drivers: the director's view of what runs.                          *)

NoRequest == [young |-> 0, old |-> 0, cause |-> "none"]
MinorIsBusy == minor.phase # "idle"
MajorIsBusy == major.phase # "idle"

\* send_async drops a request while another is served.
SendMinor(n) ==
  IF MinorIsBusy
    THEN UNCHANGED minor
    ELSE minor' = [phase |-> "sent", request |-> [NoRequest EXCEPT !.young = n]]
SendMajor(request) ==
  IF MajorIsBusy
    THEN UNCHANGED major
    ELSE major' = [phase |-> "sent", request |-> request]

\* The major driver gives the driver lock up while the old generation is
\* collected concurrently.
DriverLockIsFree ==
  /\ minor.phase # "young"
  /\ major.phase \in {"idle", "sent", "old", "relocate", "ending"}

MinorStart ==
  /\ minor.phase = "sent" /\ DriverLockIsFree
  /\ minor' = [minor EXCEPT !.phase = "young"]
  /\ young' = SetActive(SetActiveWorkers(young, minor.request.young))
  /\ UNCHANGED <<flags, old, major, stalled, nwarmup_cycles, urgent, directorVars>>

MinorEnd ==
  /\ minor.phase = "young"
  /\ minor' = [phase |-> "idle", request |-> NoRequest]
  /\ young' = SetInactive(young)
  /\ UNCHANGED <<flags, old, major, stalled, nwarmup_cycles, urgent, directorVars>>

MajorStart ==
  /\ major.phase = "sent" /\ DriverLockIsFree
  /\ major' = [major EXCEPT !.phase = "young"]
  /\ young' = SetActive(SetActiveWorkers(young, major.request.young))
  /\ old' = SetActiveWorkers(old, major.request.old)
  /\ UNCHANGED <<flags, minor, stalled, nwarmup_cycles, urgent, directorVars>>

\* The second young collection of a major one that precleans.
MajorRoots ==
  /\ major.phase = "young"
  /\ major' = [major EXCEPT !.phase = "roots"]
  /\ young' = SetActive(SetInactive(young))
  /\ UNCHANGED <<flags, old, minor, stalled, nwarmup_cycles, urgent, directorVars>>

MajorYoungEnd ==
  /\ major.phase \in {"young", "roots"}
  /\ major' = [major EXCEPT !.phase = "between"]
  /\ young' = SetInactive(young)
  /\ UNCHANGED <<flags, old, minor, stalled, nwarmup_cycles, urgent, directorVars>>

MajorOldStart ==
  /\ major.phase = "between"
  /\ major' = [major EXCEPT !.phase = "old"]
  /\ old' = SetActive(old)
  /\ UNCHANGED <<flags, young, minor, stalled, nwarmup_cycles, urgent, directorVars>>

\* ZGenerationOld::remap_young_roots runs with more workers, under the
\* driver lock, and returns to the number it found.
RemapStart ==
  /\ major.phase = "old" /\ minor.phase # "young"
  /\ major' = [major EXCEPT !.phase = "remap", !.request.old = old.active_workers]
  /\ old' = SetActiveWorkers(old, Clamp(young.active_workers + old.active_workers,
                                        1, flags.ZOldGCThreads))
  /\ UNCHANGED <<flags, young, minor, stalled, nwarmup_cycles, urgent, directorVars>>

RemapEnd ==
  /\ major.phase = "remap"
  /\ major' = [major EXCEPT !.phase = "relocate"]
  /\ old' = SetActiveWorkers(old, major.request.old)
  /\ UNCHANGED <<flags, young, minor, stalled, nwarmup_cycles, urgent, directorVars>>

MajorOldEnd ==
  /\ major.phase = "relocate"
  /\ major' = [major EXCEPT !.phase = "ending"]
  /\ old' = SetInactive(old)
  /\ nwarmup_cycles' = IF major.request.cause = "warmup"
                         THEN Smaller(nwarmup_cycles + 1, WarmupCycles)
                         ELSE nwarmup_cycles
  /\ UNCHANGED <<flags, young, minor, stalled, urgent, directorVars>>

\* The driver takes its lock again before it acknowledges the request.
MajorAck ==
  /\ major.phase = "ending" /\ minor.phase # "young"
  /\ major' = [phase |-> "idle", request |-> NoRequest]
  /\ UNCHANGED <<flags, young, old, minor, stalled, nwarmup_cycles, urgent, directorVars>>

Restart ==
  /\ \/ NeedsRestart(young) /\ young' = RestartTask(young) /\ UNCHANGED old
     \/ /\ NeedsRestart(old) /\ major.phase # "remap"
        /\ old' = RestartTask(old) /\ UNCHANGED young
  /\ UNCHANGED <<flags, driverVars, stalled, nwarmup_cycles, urgent, directorVars>>

Driver ==
  \/ MinorStart \/ MinorEnd
  \/ MajorStart \/ MajorRoots \/ MajorYoungEnd \/ MajorOldStart
  \/ RemapStart \/ RemapEnd \/ MajorOldEnd \/ MajorAck
  \/ Restart

-----------------------------------------------------------------------------
(* The application: allocation stalls ask for a minor collection with all  *)
(* workers; the driver receives a System.gc() when it is idle.             *)

AllocStall ==
  /\ ~stalled
  /\ stalled' = TRUE
  /\ SendMinor(flags.ZYoungGCThreads)
  /\ UNCHANGED <<flags, young, old, major, nwarmup_cycles, urgent, directorVars>>

StallEnds ==
  /\ stalled /\ stalled' = FALSE
  /\ UNCHANGED <<flags, young, old, driverVars, nwarmup_cycles, urgent, directorVars>>

Collect ==
  /\ ~MajorIsBusy
  /\ SendMajor([young |-> flags.ZYoungGCThreads, old |-> flags.ZOldGCThreads,
                cause |-> "java"])
  /\ UNCHANGED <<flags, young, old, minor, stalled, nwarmup_cycles, urgent, directorVars>>

AllocationRateChanges ==
  /\ urgent' = ~urgent
  /\ UNCHANGED <<flags, young, old, driverVars, stalled, nwarmup_cycles, directorVars>>

Application == AllocStall \/ StallEnds \/ Collect \/ AllocationRateChanges

-----------------------------------------------------------------------------
(* The rules.                                                              *)

IsWarm == nwarmup_cycles >= WarmupCycles
IsTimeTrustable == nwarmup_cycles > 0

\* The rules: the causes each can come up with.
RuleMinorTimer == {"timer"}
RuleMinorHighUsage == {"high_usage"}
RuleMinorAllocationRateStatic == IF IsTimeTrustable THEN {"allocation_rate"} ELSE {}
RuleMinorAllocationRateDynamic == IF IsTimeTrustable THEN {"allocation_rate"} ELSE {}
RuleMinorAllocationRate ==
  IF flags.UseDynamicNumberOfGCThreads
    THEN RuleMinorAllocationRateDynamic
    ELSE RuleMinorAllocationRateStatic
RuleMajorTimer == {"timer"}
RuleMajorWarmup == IF IsWarm THEN {} ELSE {"warmup"}
RuleMajorProactive == IF IsWarm THEN {"proactive"} ELSE {}
\* Whether the old generation's garbage can be found cheaper.
RuleMajorAllocationRate == IsTimeTrustable

\* The worker counts the dynamic allocation rate rules can ask for: all
\* workers until the director is warm.
SelectYoungGCWorkers == IF IsWarm THEN 1 .. flags.ZYoungGCThreads ELSE {flags.ZYoungGCThreads}

\* make_major_gc_decision: no rule needs to fire.
MajorCauses ==
  IF MajorIsBusy
    THEN {"none"}
    ELSE {"none"} \cup RuleMajorTimer \cup RuleMajorWarmup \cup RuleMajorProactive

\* make_minor_gc_decision: not while the first young collection of a major
\* one runs.
MinorCauses ==
  IF MinorIsBusy \/ (MajorIsBusy /\ ~stats.old.is_active)
    THEN {"none"}
    ELSE {"none"} \cup RuleMinorTimer \cup RuleMinorAllocationRate \cup RuleMinorHighUsage

\* Old to young efficiency <<p, q>>; with q = 0 it is not a finite number.
Ratios == Efficiencies \X Efficiencies

\* uint(n * r) for a ratio r: anything when r is not finite.
Times(n, r) == IF r[2] = 0 THEN {0, flags.ConcGCThreads} ELSE {(n * r[1]) \div r[2]}
\* uint(n * (1 - r / (1 + r)))
TimesYoungShare(n, r) ==
  IF r[2] = 0 THEN {0, flags.ConcGCThreads} ELSE {(n * r[2]) \div (r[1] + r[2])}

Selection(y, o) == [young |-> y, old |-> o]

\* Mutant of OldClamped: the old generation takes what the young one leaves.
OldRest(n) == Smaller(flags.ConcGCThreads - n, flags.ZOldGCThreads)
OldClamped(n) == Clamp(flags.ConcGCThreads - n, 1, flags.ZOldGCThreads)

\* What the ratio of the generations makes of the number of workers that a
\* young collection needs.
ByRatio(n, type) ==
  UNION {
    {LET clampedYoung == Clamp(y, 1, flags.ZYoungGCThreads)
         clampedOld == OldClamped(clampedYoung)
         ratioOld == Clamp(o, 1, flags.ZOldGCThreads)
     IN  CASE type = "normal" \/ ratioOld + n <= flags.ConcGCThreads ->
                Selection(n, ratioOld)
           [] type = "start_major" /\ ratioOld + n > flags.ConcGCThreads ->
                Selection(Larger(clampedOld, n), clampedOld)
           [] OTHER -> Selection(clampedYoung, clampedOld) :
       o \in Times(n, r), y \in TimesYoungShare(flags.ConcGCThreads, r)} : r \in Ratios}

\* Mutant of SelectWorkerThreads: a stall changes nothing.
SelectIgnoringStalls(n, type) == ByRatio(n, type)
SelectWorkerThreads(n, type) ==
  LET active_young == stats.young.nworkers_current
      active_old   == stats.old.nworkers_current
  IN  CASE stalled -> {Selection(flags.ZYoungGCThreads, flags.ZOldGCThreads)}
        [] ~stalled /\ active_young + active_old > flags.ConcGCThreads ->
             {Selection(active_young, active_old)}
        [] OTHER -> ByRatio(n, type)

NoChoice == Selection(0, 0)
Unsampled == [is_active |-> FALSE, nworkers_current |-> 0]
NoStats == [young |-> Unsampled, old |-> Unsampled]

InitialWorkers(type) ==
  IF flags.UseDynamicNumberOfGCThreads
    THEN UNION {SelectWorkerThreads(n, type) : n \in SelectYoungGCWorkers}
    ELSE {Selection(flags.ZYoungGCThreads, flags.ZOldGCThreads)}

-----------------------------------------------------------------------------
(* The director thread.                                                    *)

\* wait_for_tick, then sample_stats
SampleYoung ==
  /\ pc = "tick" /\ pc' = "sample"
  /\ stats' = [NoStats EXCEPT !.young = Sample(young)]
  /\ choice' = NoChoice
  /\ UNCHANGED <<flags, young, old, driverVars, stalled, nwarmup_cycles, urgent>>

SampleOld ==
  /\ pc = "sample" /\ pc' = "major"
  /\ stats' = [stats EXCEPT !.old = Sample(old)]
  /\ UNCHANGED <<flags, young, old, driverVars, stalled, nwarmup_cycles, urgent, choice>>

\* start_gc: a major collection if a rule asks for it
DecideMajor ==
  /\ pc = "major"
  /\ \E cause \in MajorCauses :
       IF cause = "none"
         THEN pc' = "minor" /\ UNCHANGED <<choice, stats, major>>
         ELSE \E s \in InitialWorkers("start_major") :
                /\ pc' = "tick" /\ choice' = s /\ stats' = NoStats
                /\ SendMajor([young |-> s.young, old |-> s.old, cause |-> cause])
  /\ UNCHANGED <<flags, young, old, minor, stalled, nwarmup_cycles, urgent>>

\* start_gc: a minor collection, which may be merged into a major one
DecideMinor ==
  /\ pc = "minor"
  /\ \E cause \in MinorCauses : pc' = IF cause = "none" THEN "adjust" ELSE "merge"
  /\ UNCHANGED <<flags, young, old, driverVars, stalled, nwarmup_cycles, urgent,
                 stats, choice>>

MergeIntoMajor ==
  /\ pc = "merge" /\ ~MajorIsBusy /\ RuleMajorAllocationRate
  /\ pc' = "tick" /\ stats' = NoStats
  /\ \E s \in InitialWorkers("start_major") :
       /\ choice' = s
       /\ SendMajor([young |-> s.young, old |-> s.old, cause |-> "allocation_rate"])
  /\ UNCHANGED <<flags, young, old, minor, stalled, nwarmup_cycles, urgent>>

SelectMinor ==
  /\ pc = "merge" /\ pc' = "start_minor"
  /\ choice' \in InitialWorkers(IF MajorIsBusy THEN "minor_during_old" ELSE "normal")
  /\ UNCHANGED <<flags, young, old, driverVars, stalled, nwarmup_cycles, urgent, stats>>

StartMinor ==
  /\ pc = "start_minor" /\ pc' = "tick" /\ stats' = NoStats /\ choice' = NoChoice
  /\ old' = IF /\ flags.UseDynamicNumberOfGCThreads /\ MajorIsBusy
               /\ stats.old.nworkers_current # choice.old
              THEN RequestResizeWorkers(old, choice.old)
              ELSE old
  /\ SendMinor(choice.young)
  /\ UNCHANGED <<flags, young, major, stalled, nwarmup_cycles, urgent>>

\* How many workers adjust_gc wants for a young collection that n are
\* enough for: an increase is doubled.
DesiredYoungWorkers(n) ==
  LET current == stats.young.nworkers_current
  IN  IF n > current
        THEN Smaller(current + (n - current) * 2, flags.ZYoungGCThreads)
        ELSE current

NoAdjustment ==
  /\ pc = "adjust"
  /\ \/ ~flags.UseDynamicNumberOfGCThreads
     \/ ~stats.young.is_active
     \/ ~IsTimeTrustable
     \/ ~urgent
  /\ pc' = "tick" /\ stats' = NoStats
  /\ UNCHANGED <<flags, young, old, driverVars, stalled, nwarmup_cycles, urgent, choice>>

AdjustSelect ==
  /\ pc = "adjust"
  /\ flags.UseDynamicNumberOfGCThreads /\ stats.young.is_active
  /\ IsTimeTrustable /\ urgent
  /\ pc' = "adjust_old"
  /\ \E n \in SelectYoungGCWorkers :
       choice' \in SelectWorkerThreads(DesiredYoungWorkers(n),
                     IF stats.old.is_active THEN "minor_during_old" ELSE "normal")
  /\ UNCHANGED <<flags, young, old, driverVars, stalled, nwarmup_cycles, urgent, stats>>

AdjustOld ==
  /\ pc = "adjust_old" /\ pc' = "adjust_young"
  /\ old' = IF stats.old.is_active /\ stats.old.nworkers_current # choice.old
              THEN RequestResizeWorkers(old, choice.old)
              ELSE old
  /\ UNCHANGED <<flags, young, driverVars, stalled, nwarmup_cycles, urgent, stats, choice>>

AdjustYoung ==
  /\ pc = "adjust_young" /\ pc' = "tick" /\ stats' = NoStats /\ choice' = NoChoice
  /\ young' = IF stats.young.nworkers_current # choice.young
                THEN RequestResizeWorkers(young, choice.young)
                ELSE young
  /\ UNCHANGED <<flags, old, driverVars, stalled, nwarmup_cycles, urgent>>

Director ==
  \/ SampleYoung \/ SampleOld
  \/ DecideMajor \/ DecideMinor \/ MergeIntoMajor \/ SelectMinor \/ StartMinor
  \/ NoAdjustment \/ AdjustSelect \/ AdjustOld \/ AdjustYoung

-----------------------------------------------------------------------------
Workers(n) == [is_active |-> FALSE, active_workers |-> n, requested_nworkers |-> 0]

Init ==
  /\ flags \in Settings
  /\ young = Workers(flags.ZYoungGCThreads) /\ old = Workers(flags.ZOldGCThreads)
  /\ minor = [phase |-> "idle", request |-> NoRequest]
  /\ major = [phase |-> "idle", request |-> NoRequest]
  /\ stalled = FALSE /\ urgent = FALSE
  /\ nwarmup_cycles = 0
  /\ pc = "tick"
  /\ stats = NoStats
  /\ choice = NoChoice

Next == Director \/ Driver \/ Application

Spec == Init /\ [][Next]_vars /\ WF_vars(Director) /\ WF_vars(Restart)

-----------------------------------------------------------------------------
(* Properties.                                                             *)

(* Whatever was sampled when and whatever changed since, no generation     *)
(* runs, or is asked to run, without a worker or with more than it has.    *)
(* The claim is made for a young generation that has at least as many      *)
(* threads as the old one, because start_major_gc raises the young workers *)
(* to the number of old ones without a limit.                              *)
WithinLimits(workers, limit) ==
  /\ workers.active_workers \in 1 .. limit
  /\ workers.requested_nworkers \in 0 .. limit
WorkersWithinLimits ==
  flags.ZOldGCThreads <= flags.ZYoungGCThreads =>
    /\ WithinLimits(young, flags.ZYoungGCThreads)
    /\ WithinLimits(old, flags.ZOldGCThreads)

(* A young collection that runs while threads are stalled and memory ends  *)
(* too soon gets all workers, unless one of that ceases to be so.          *)
StalledBoostsYoung ==
  (/\ flags.UseDynamicNumberOfGCThreads /\ IsTimeTrustable
   /\ stalled /\ urgent /\ young.is_active) ~>
  (\/ young.active_workers = flags.ZYoungGCThreads
   \/ ~stalled \/ ~urgent \/ ~young.is_active)

=============================================================================

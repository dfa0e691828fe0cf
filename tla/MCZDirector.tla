----------------------------- MODULE MCZDirector -----------------------------
(* The TLC run of ZDirector.  The module is an instance, so that its names   *)
(* are free for a module that reasons about the drivers as well.             *)
EXTENDS Integers

CONSTANTS Concurrent, ThreadFlags, Efficiencies, WarmupCycles
VARIABLES flags, young, old, minor, major, allocStalling, nwarmup_cycles, urgent, pc,
          stats, choice

D == INSTANCE ZDirector WITH stalled <- allocStalling

ASSUME WorkersAssumption == D!DirectorAssumption

DirectorSpec == D!Spec

\* The properties of ZDirector, where they are explained.
WorkersWithinLimits == D!WorkersWithinLimits
StalledBoostsYoung == D!StalledBoostsYoung
=============================================================================

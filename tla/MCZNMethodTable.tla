-------------------------- MODULE MCZNMethodTable --------------------------
(* Part of the TLC run MCHeap: the table of compiled methods.  The module    *)
(* is an instance, so that its names are free for a module that reasons      *)
(* about another one as well.                                                *)
EXTENDS Integers

CONSTANTS NMethods, Hash, MinTableSize, PartitionSize, Mutators, Unlinkers, Markers,
          MaxRegistrations, MaxRefills, MaxCycles

VARIABLES tables, _table, _nregistered, _nunregistered, _deferred, iterations, workers,
          _failed, status, armed, dead, old, roots, joined, calling, unshaken,
          registrations, refills, cycles
methodVars ==
  <<tables, _table, _nregistered, _nunregistered, _deferred, iterations, workers, _failed,
    status, armed, dead, old, roots, joined, calling, unshaken, registrations, refills, cycles>>

N == INSTANCE ZNMethodTable

ASSUME MethodsAssumption == N!MethodsAssumption

\* The table of methods stays searchable while it is changed and rebuilt;
\* nobody has a method in hand that has been freed, or reads a table that has
\* been deleted; and every method with a dead oop is unlinked, and disarmed by
\* nobody (ZNMethodTable, ZNMethodUnlinkClosure).
CodeIsSafe == N!TableIsExact /\ N!NothingFreedIsSeen /\ N!UnloadingIsFinal
=============================================================================

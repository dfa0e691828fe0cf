------------------------- MODULE MCZRelocatedRemset -------------------------
(* The TLC run of ZRelocatedRemset.  The module is an instance, so that its  *)
(* names are free for a module that reasons about another one as well.       *)
EXTENDS Integers

CONSTANTS LiveObjects, Remset, MaxYoungCycles
VARIABLES seqnum, marking, current, previous, foundOld, foundOldPrev, slot,
          forwardedTo, state, fields, publishSeq, inPlace, oc, remaining, yc,
          ycPage, ycHolds, containing, toScan, unscanned

R == INSTANCE ZRelocatedRemset WITH Objects <- LiveObjects

ASSUME RelocatedRemsetAssumption == R!RemsetAssumption

RelocatedRemsetSpec == R!Spec

\* The properties of ZRelocatedRemset, where they are explained.
EveryFieldScanned == R!EveryFieldScanned
ScansAreCurrent == R!ScansAreCurrent
MarkingEnds == R!MarkingEnds
=============================================================================

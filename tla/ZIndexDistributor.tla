-------------------------- MODULE ZIndexDistributor --------------------------
(***************************************************************************)
(* How workers share out the indices of a large table                      *)
(* (zIndexDistributor.inline.hpp).  Every segment of indices has a claim   *)
(* variable that workers increment.  In the claim tree a worker first      *)
(* claims its way down from the root, then goes through all segments level *)
(* by level and claims what is left in them; in the striped distributor it *)
(* claims stripes, then steals from every stripe.                          *)
(*                                                                         *)
(* A worker is a stack of loops: "claim" loops over a segment's claim      *)
(* variable, "steal" goes through the segments below one.  A segment is    *)
(* named by the indices that lead to it.                                   *)
(***************************************************************************)
EXTENDS Integers, Sequences

CONSTANTS Workers,
          Strategies,    \* ZIndexDistributorStrategy: 0 tree, 1 striped
          ClaimLevels,   \* levels of segments; 3 in the code
          Multiplier,    \* segments below a segment; 16 in the code
          SegmentSize    \* indices in a segment of the last level

VARIABLES strategy,
          claims,        \* the claim variables that have been used
          stack,         \* the loops each worker is in, innermost first
          visits         \* how often function was called with each index

vars == <<strategy, claims, stack, visits>>

\* The segments of level l, and the indices of the table.
SegmentsOn(l) == [1 .. l -> 0 .. Multiplier - 1]
\* The striped distributor has one level of segments.
LastLevel == IF strategy = 0 THEN ClaimLevels ELSE 1
Indices == {Append(s, i) : s \in SegmentsOn(LastLevel), i \in 0 .. SegmentSize - 1}

\* level_segment_size of the level below segment s.
LevelSegmentSize(s) == IF Len(s) = LastLevel THEN SegmentSize ELSE Multiplier

ClaimLoop(s) == [kind |-> "claim", segment |-> s, at |-> 0]
StealLoop(s) == [kind |-> "steal", segment |-> s, at |-> 0]

\* do_indices of either distributor.
DoIndices == <<ClaimLoop(<<>>), StealLoop(<<>>)>>

Init ==
  /\ strategy \in Strategies
  /\ claims = [s \in UNION {SegmentsOn(l) : l \in 0 .. LastLevel} |-> 0]
  /\ stack = [w \in Workers |-> DoIndices]
  /\ visits = [i \in Indices |-> 0]

Top(w) == Head(stack[w])
Leave(w) == stack' = [stack EXCEPT ![w] = Tail(@)]
Call(w, loops) == stack' = [stack EXCEPT ![w] = loops \o @]

Running(w, kind) == stack[w] # <<>> /\ Top(w).kind = kind

\* claim_and_do: fetch_then_add the claim variable of the segment; claim in
\* the segment below it, or call function with the index.
ClaimAndDo(w) ==
  /\ Running(w, "claim")
  /\ LET s == Top(w).segment
         value == claims[s]
     IN  /\ claims' = [claims EXCEPT ![s] = @ + 1]
         /\ IF value >= LevelSegmentSize(s)
              THEN Leave(w) /\ UNCHANGED visits
            ELSE IF Len(s) = LastLevel
              THEN /\ visits' = [visits EXCEPT ![Append(s, value)] = @ + 1]
                   /\ UNCHANGED stack
              ELSE Call(w, <<ClaimLoop(Append(s, value))>>) /\ UNCHANGED visits
  /\ UNCHANGED strategy

\* A defect: the last segment is not stolen from.
StealButLast(w) ==
  /\ Running(w, "steal")
  /\ LET next == Append(Top(w).segment, Top(w).at)
         below == <<ClaimLoop(next)>> \o
                    IF Len(next) < LastLevel THEN <<StealLoop(next)>> ELSE <<>>
     IN  IF Top(w).at + 1 < Multiplier
           THEN stack' = [stack EXCEPT ![w] =
                            below \o <<[Head(@) EXCEPT !.at = @ + 1]>> \o Tail(@)]
           ELSE Leave(w)
  /\ UNCHANGED <<strategy, claims, visits>>

\* One round of the loop of steal_and_do over the segments below one: claim in
\* the next segment, then steal below it.
StealAndDo(w) ==
  /\ Running(w, "steal")
  /\ LET next == Append(Top(w).segment, Top(w).at)
         below == <<ClaimLoop(next)>> \o
                    IF Len(next) < LastLevel THEN <<StealLoop(next)>> ELSE <<>>
     IN  IF Top(w).at < Multiplier
           THEN stack' = [stack EXCEPT ![w] =
                            below \o <<[Head(@) EXCEPT !.at = @ + 1]>> \o Tail(@)]
           ELSE Leave(w)
  /\ UNCHANGED <<strategy, claims, visits>>

Next == \E w \in Workers : ClaimAndDo(w) \/ StealAndDo(w)

-----------------------------------------------------------------------------
\* No index is handed to two workers, and a worker that is through has seen
\* every index taken: the table is done when all workers are
\* (ZPageTableParallelIterator).
EveryIndexOnce ==
  /\ \A i \in Indices : visits[i] <= 1
  /\ \A w \in Workers : stack[w] = <<>> => \A i \in Indices : visits[i] = 1
=============================================================================

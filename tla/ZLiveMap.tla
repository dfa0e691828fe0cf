------------------------------ MODULE ZLiveMap ------------------------------
(***************************************************************************)
(* The mark bits of a page (zLiveMap.cpp, zLiveMap.inline.hpp,             *)
(* zBitMap.inline.hpp).  They are not cleared when a collection starts:    *)
(* the first thread to mark an object in the page finds the map's sequence *)
(* number stale and resets the counts and the segments' bits, the first to *)
(* mark one in a segment claims the segment and clears its marks, and the  *)
(* others wait for them.                                                   *)
(*                                                                         *)
(* Of a pair of bits the first says that an object is marked, the second   *)
(* that it is marked strongly.  A segment is one word of the bitmap.       *)
(***************************************************************************)
EXTENDS Integers, FiniteSets

CONSTANTS Threads,
          Segments,      \* nsegments
          SegmentSize,   \* objects in a segment
          Objects,       \* indices of objects that threads mark
          StaleBits,     \* what the bitmap, which is not cleared, may hold at first
          MaxSeqnum      \* bound on collections

Initializing == -1
Indices == 0 .. Segments * SegmentSize - 1
None == -1

MapAssumption ==
  /\ IsFiniteSet(Threads)
  /\ Segments \in Nat /\ SegmentSize \in Nat \ {0}
  /\ Objects \subseteq Indices
  /\ StaleBits \subseteq SUBSET {"marked", "strong"}

NotSeen == [seqnum |-> None, word |-> <<>>]

VARIABLES
  seqnum,          \* of the generation
  _seqnum,         \* of the map
  _live_objects,
  live, claimed,   \* _segment_live_bits, _segment_claim_bits
  bitmap,
  pc,
  arg,             \* index and finalizable of each thread's call of set
  seen,            \* the sequence number or the word a thread has loaded
  called, done     \* pairs <<index, finalizable>> set in this cycle

segmentVars == <<live, claimed>>
mapVars == <<_seqnum, _live_objects, segmentVars, bitmap>>
markVars == <<seqnum, called, done>>
vars == <<markVars, mapVars, pc, arg, seen>>

Init ==
  /\ seqnum = 1
  /\ _seqnum = 0 /\ _live_objects = 0
  /\ live = {} /\ claimed = {}
  /\ bitmap \in [Indices -> StaleBits]
  /\ pc = [t \in Threads |-> "idle"]
  /\ arg = [t \in Threads |-> <<None, FALSE>>]
  /\ seen = [t \in Threads |-> NotSeen]
  /\ called = {} /\ done = {}

Goto(t, label) == pc' = [pc EXCEPT ![t] = label]

IndexToSegment(i) == i \div SegmentSize
SegmentRange(s) == s * SegmentSize .. (s + 1) * SegmentSize - 1
Segment(t) == IndexToSegment(arg[t][1])
Word(s) == [i \in SegmentRange(s) |-> bitmap[i]]

IsMarked == _seqnum = seqnum
Get(i) == IsMarked /\ IndexToSegment(i) \in live /\ "marked" \in bitmap[i]

\* The objects iterate visits.
Iterated == {i \in Indices : Get(i)}

Highest(S) == CHOOSE i \in S : \A j \in S : i >= j

\* What find_base_bit_in_segment searches of a segment: its bits up to the index.
BitsUpTo(s, index) == {i \in SegmentRange(s) : i <= index /\ bitmap[i] # {}}

\* A defect: the marks of a segment that nobody cleared are searched.
FindAnyBit(index) ==
  LET found == {s \in 0 .. IndexToSegment(index) : BitsUpTo(s, index) # {}}
  IN  IF found = {} THEN None ELSE Highest(BitsUpTo(Highest(found), index))

\* find_base_bit: in the index's segment up to the index, then in the live
\* segments before it, last to first; the first segment that has a bit ends
\* the search.
FindBaseBit(index) ==
  LET found == {s \in live : s <= IndexToSegment(index) /\ BitsUpTo(s, index) # {}}
  IN  IF found = {} THEN None ELSE Highest(BitsUpTo(Highest(found), index))

-----------------------------------------------------------------------------
\* set: is_marked
Set(t) ==
  /\ pc[t] = "idle"
  /\ \E i \in Objects, finalizable \in BOOLEAN :
       /\ arg' = [arg EXCEPT ![t] = <<i, finalizable>>]
       /\ called' = called \cup {<<i, finalizable>>}
  /\ Goto(t, IF IsMarked THEN "segment" ELSE "reset")
  /\ UNCHANGED <<seqnum, done, mapVars, seen>>

\* reset: one thread moves the sequence number to initializing, the others
\* load it until it is current.
ResetLoad(t) ==
  /\ pc[t] = "reset"
  /\ _seqnum # Initializing
  /\ seen' = [seen EXCEPT ![t].seqnum = _seqnum]
  /\ Goto(t, IF IsMarked THEN "segment" ELSE "reset_cas")
  /\ UNCHANGED <<markVars, mapVars, arg>>
ResetCas(t) ==
  /\ pc[t] = "reset_cas"
  /\ seen' = [seen EXCEPT ![t] = NotSeen]
  /\ IF _seqnum = seen[t].seqnum
       THEN _seqnum' = Initializing /\ Goto(t, "reset_map")
       ELSE UNCHANGED _seqnum /\ Goto(t, "reset")
  /\ UNCHANGED <<markVars, _live_objects, segmentVars, bitmap, arg>>
\* The one that moved it resets what the sequence number guards, and then
\* publishes the new one.
ResetMarkingInformation(t) ==
  /\ pc[t] = "reset_map"
  /\ _live_objects' = 0
  /\ live' = {} /\ claimed' = {}
  /\ Goto(t, "reset_seqnum")
  /\ UNCHANGED <<markVars, _seqnum, bitmap, arg, seen>>
ResetSeqnum(t) ==
  /\ pc[t] = "reset_seqnum"
  /\ _seqnum' = seqnum
  /\ Goto(t, "segment")
  /\ UNCHANGED <<markVars, _live_objects, segmentVars, bitmap, arg, seen>>

\* is_segment_live, and reset_segment: claim the segment,
IsSegmentLive(t) ==
  /\ pc[t] = "segment"
  /\ Goto(t, IF Segment(t) \in live THEN "set" ELSE "claim")
  /\ UNCHANGED <<markVars, mapVars, arg, seen>>
ClaimSegment(t) ==
  /\ pc[t] = "claim"
  /\ claimed' = claimed \cup {Segment(t)}
  /\ Goto(t, IF Segment(t) \in claimed THEN "wait" ELSE "clear")
  /\ UNCHANGED <<markVars, _seqnum, _live_objects, live, bitmap, arg, seen>>
\* wait for another thread that has claimed it,
WaitForSegment(t) ==
  /\ pc[t] = "wait"
  /\ Segment(t) \in live
  /\ Goto(t, "set")
  /\ UNCHANGED <<markVars, mapVars, arg, seen>>
ClearBits(t) ==
  bitmap' = [i \in Indices |-> IF IndexToSegment(i) = Segment(t) THEN {} ELSE bitmap[i]]
\* A defect: the segment is live before its marks are cleared.
LiveBeforeCleared(t) ==
  \/ /\ pc[t] = "clear"
     /\ Goto(t, "set_live")
     /\ live' = live \cup {Segment(t)}
     /\ UNCHANGED <<markVars, _seqnum, _live_objects, claimed, bitmap, arg, seen>>
  \/ /\ pc[t] = "set_live"
     /\ ClearBits(t)
     /\ Goto(t, "set")
     /\ UNCHANGED <<markVars, _seqnum, _live_objects, segmentVars, arg, seen>>
\* or clear it and set its live bit.
ClearSegment(t) ==
  \/ /\ pc[t] = "clear"
     /\ ClearBits(t)
     /\ Goto(t, "set_live")
     /\ UNCHANGED <<markVars, _seqnum, _live_objects, segmentVars, arg, seen>>
  \/ /\ pc[t] = "set_live"
     /\ live' = live \cup {Segment(t)}
     /\ Goto(t, "set")
     /\ UNCHANGED <<markVars, _seqnum, _live_objects, claimed, bitmap, arg, seen>>

\* set returns; inc_live only follows for the object's first mark.
Return(t, incLive) ==
  /\ Goto(t, IF incLive THEN "inc_live" ELSE "idle")
  /\ seen' = [seen EXCEPT ![t] = NotSeen]
  /\ done' = done \cup {arg[t]}
  /\ arg' = IF incLive THEN arg ELSE [arg EXCEPT ![t] = <<None, FALSE>>]

\* par_set_bit_pair_finalizable
SetFinalizable(t) ==
  /\ pc[t] = "set"
  /\ LET i == arg[t][1] IN
     /\ arg[t][2]
     /\ bitmap' = [bitmap EXCEPT ![i] = @ \cup {"marked"}]
     /\ Return(t, "marked" \notin bitmap[i])
  /\ UNCHANGED <<seqnum, called, _seqnum, _live_objects, segmentVars>>

\* par_set_bit_pair_strong: load the word,
LoadWord(t) ==
  /\ pc[t] = "set"
  /\ ~arg[t][2]
  /\ IF bitmap[arg[t][1]] = {"marked", "strong"}
       THEN Return(t, FALSE)
       ELSE /\ seen' = [seen EXCEPT ![t].word = Word(Segment(t))]
            /\ Goto(t, "set_cas")
            /\ UNCHANGED <<arg, done>>
  /\ UNCHANGED <<seqnum, called, mapVars>>
\* A defect: an object is counted again when it is marked strongly.
CountStrong(t) ==
  /\ pc[t] = "set_cas"
  /\ LET i == arg[t][1] IN
     IF seen[t].word = Word(Segment(t))
       THEN /\ bitmap' = [bitmap EXCEPT ![i] = {"marked", "strong"}]
            /\ Return(t, "strong" \notin seen[t].word[i])
       ELSE /\ Goto(t, "set")
            /\ seen' = [seen EXCEPT ![t] = NotSeen]
            /\ UNCHANGED <<bitmap, arg, done>>
  /\ UNCHANGED <<seqnum, called, _seqnum, _live_objects, segmentVars>>
\* and swap it.
SetStrong(t) ==
  /\ pc[t] = "set_cas"
  /\ LET i == arg[t][1] IN
     IF seen[t].word = Word(Segment(t))
       THEN /\ bitmap' = [bitmap EXCEPT ![i] = {"marked", "strong"}]
            /\ Return(t, "marked" \notin seen[t].word[i])
       ELSE /\ Goto(t, "set")
            /\ seen' = [seen EXCEPT ![t] = NotSeen]
            /\ UNCHANGED <<bitmap, arg, done>>
  /\ UNCHANGED <<seqnum, called, _seqnum, _live_objects, segmentVars>>

IncLive(t) ==
  /\ pc[t] = "inc_live"
  /\ _live_objects' = _live_objects + 1
  /\ Goto(t, "idle")
  /\ arg' = [arg EXCEPT ![t] = <<None, FALSE>>]
  /\ UNCHANGED <<markVars, _seqnum, segmentVars, bitmap, seen>>

Quiescent == \A t \in Threads : pc[t] = "idle"

\* The next collection's marking starts.
MarkStart ==
  /\ Quiescent
  /\ seqnum < MaxSeqnum
  /\ seqnum' = seqnum + 1
  /\ called' = {} /\ done' = {}
  /\ UNCHANGED <<mapVars, pc, arg, seen>>

\* reset of the page: nothing in it is marked.
ResetMap ==
  /\ Quiescent
  /\ _seqnum # 0
  /\ _seqnum' = 0
  /\ called' = {} /\ done' = {}
  /\ UNCHANGED <<seqnum, _live_objects, segmentVars, bitmap, pc, arg, seen>>

Step(t) ==
  \/ Set(t) \/ ResetLoad(t) \/ ResetCas(t) \/ ResetMarkingInformation(t)
  \/ ResetSeqnum(t) \/ IsSegmentLive(t) \/ ClaimSegment(t)
  \/ WaitForSegment(t) \/ ClearSegment(t) \/ SetFinalizable(t) \/ LoadWord(t)
  \/ SetStrong(t) \/ IncLive(t)

Next == (\E t \in Threads : Step(t)) \/ MarkStart \/ ResetMap

Spec == Init /\ [][Next]_vars

-----------------------------------------------------------------------------
\* What a collection marked is marked, strongly if it was, and nothing else:
\* neither a mark of an earlier collection nor what an uncleared bitmap held
\* shows through, and no reset loses a mark.
MarksAreExact ==
  \A i \in Indices :
    /\ Get(i) => \E f \in BOOLEAN : <<i, f>> \in called
    /\ Get(i) /\ "strong" \in bitmap[i] => <<i, FALSE>> \in called
    /\ <<i, TRUE>> \in done => Get(i)
    /\ <<i, FALSE>> \in done => Get(i) /\ "strong" \in bitmap[i]

\* When no thread marks, the page's live count is that of its marked objects,
\* although each may be marked finalizable and strongly by several threads.
LiveCountIsExact == Quiescent /\ IsMarked => _live_objects = Cardinality(Iterated)

\* The search for the object before a field finds the nearest marked one.
BaseIsNearest ==
  Quiescent /\ IsMarked =>
    \A index \in Indices :
      LET before == {i \in Iterated : i <= index} IN
      FindBaseBit(index) =
        IF before = {} THEN None ELSE Highest(before)
=============================================================================

-------------------------- MODULE ZLiveMap_proofs --------------------------
(***************************************************************************)
(* Proofs about two of the structures MCHeap runs.                         *)
(* ZLiveMap, for any number of threads, segments and objects: however the  *)
(* threads that find the map stale and its segments uncleared interleave,  *)
(* the marks of a collection are exactly those that were set in it, and    *)
(* the live count counts them.                                             *)
(* ZNMethodTable, for any methods, hash, sizes and workers: the table      *)
(* stays exact, nothing freed is seen, and unloading is final.             *)
(***************************************************************************)
EXTENDS ZLiveMap, MCZNMethodTable, FiniteSetTheorems, WellFoundedInduction, TLAPS

Bits == {"marked", "strong"}
AllSegments == 0 .. Segments - 1
Words == {<<>>} \cup UNION {[SegmentRange(s) -> SUBSET Bits] : s \in AllSegments}
PCs == {"idle", "reset", "reset_cas", "reset_map", "reset_seqnum", "segment", "claim", "wait",
        "clear", "set_live", "set", "set_cas", "inc_live"}

TypeOK ==
  /\ seqnum \in Nat \ {0}
  /\ _seqnum \in {Initializing} \cup 0 .. seqnum
  /\ _live_objects \in Nat
  /\ live \subseteq AllSegments /\ claimed \subseteq AllSegments
  /\ bitmap \in [Indices -> SUBSET Bits]
  /\ pc \in [Threads -> PCs]
  /\ arg \in [Threads -> (Indices \cup {None}) \X BOOLEAN]
  /\ seen \in [Threads -> [seqnum : Int, word : Words]]
  /\ called \subseteq Objects \X BOOLEAN
  /\ done \subseteq called

\* A thread in set has called it; from the moment it knows the map to be
\* current it stays so.
CallsInv ==
  \A t \in Threads :
    /\ pc[t] # "idle" => arg[t] \in called
    /\ pc[t] \in {"segment", "claim", "wait", "clear", "set_live", "set", "set_cas", "inc_live"} =>
         IsMarked
    /\ pc[t] = "set_cas" => ~arg[t][2]

\* One thread resets the map, and nobody marks meanwhile.
ResetInv ==
  /\ \A t \in Threads : pc[t] = "reset_cas" =>
       seen[t].seqnum # Initializing /\ seen[t].seqnum # seqnum
  /\ _seqnum = Initializing <=> \E t \in Threads : pc[t] \in {"reset_map", "reset_seqnum"}
  /\ \A t, u \in Threads :
       pc[t] \in {"reset_map", "reset_seqnum"} /\ pc[u] \in {"reset_map", "reset_seqnum"} => t = u
  /\ \A t \in Threads : pc[t] = "reset_seqnum" =>
       _live_objects = 0 /\ live = {} /\ claimed = {}

\* One thread clears a segment, before it is live.
SegmentsInv ==
  /\ live \subseteq claimed
  /\ \A t \in Threads : pc[t] \in {"clear", "set_live"} => Segment(t) \in claimed \ live
  /\ \A t, u \in Threads :
       /\ pc[t] \in {"clear", "set_live"} /\ pc[u] \in {"clear", "set_live"}
       /\ Segment(t) = Segment(u)
       => t = u
  /\ \A t \in Threads : pc[t] = "set_live" =>
       \A i \in Indices : IndexToSegment(i) = Segment(t) => bitmap[i] = {}
  /\ \A t \in Threads : pc[t] \in {"set", "set_cas"} => Segment(t) \in live

\* The bits of live segments are what was set.
MarksInv ==
  /\ IsMarked => \A i \in Indices : IndexToSegment(i) \in live =>
       /\ "marked" \in bitmap[i] => \E f \in BOOLEAN : <<i, f>> \in called
       /\ "strong" \in bitmap[i] => "marked" \in bitmap[i] /\ <<i, FALSE>> \in called
  /\ \A i \in Indices :
       /\ <<i, TRUE>> \in done => Get(i)
       /\ <<i, FALSE>> \in done => Get(i) /\ "strong" \in bitmap[i]

Counting == {t \in Threads : pc[t] = "inc_live"}

\* Each marked object is counted, or a thread is about to count it.
CountInv == IsMarked => _live_objects + Cardinality(Counting) = Cardinality(Iterated)

IInv == TypeOK /\ CallsInv /\ ResetInv /\ SegmentsInv /\ MarksInv /\ CountInv
-----------------------------------------------------------------------------
LEMMA Division ==
  ASSUME MapAssumption
  PROVE  /\ \A i \in Indices : IndexToSegment(i) \in AllSegments /\ i \in SegmentRange(IndexToSegment(i))
         /\ \A s \in AllSegments : SegmentRange(s) \subseteq Indices
<1> USE DEF MapAssumption, Indices, AllSegments, IndexToSegment, SegmentRange
<1>1. ASSUME NEW i \in Indices
      PROVE  IndexToSegment(i) \in AllSegments /\ i \in SegmentRange(IndexToSegment(i))
  <2>1. i \in Nat /\ i <= Segments * SegmentSize - 1
    OBVIOUS
  <2>2. i \div SegmentSize \in 0 .. Segments - 1
    BY <2>1
  <2>3. (i \div SegmentSize) * SegmentSize <= i /\ i <= ((i \div SegmentSize) + 1) * SegmentSize - 1
    BY <2>1
  <2> QED BY <2>1, <2>2, <2>3
<1>2. ASSUME NEW s \in AllSegments PROVE SegmentRange(s) \subseteq Indices
  <2>1. (s + 1) * SegmentSize <= Segments * SegmentSize /\ s * SegmentSize \in Nat
    OBVIOUS
  <2> QED BY <2>1
<1> QED BY <1>1, <1>2

LEMMA FiniteMarks ==
  ASSUME MapAssumption
  PROVE  /\ IsFiniteSet(Iterated) /\ Cardinality(Iterated) \in Nat
         /\ IsFiniteSet(Counting) /\ Cardinality(Counting) \in Nat
<1>1. IsFiniteSet(Indices)
  BY FS_Interval DEF Indices, MapAssumption
<1>2. Iterated \subseteq Indices /\ Counting \subseteq Threads
  BY DEF Iterated, Counting
<1> QED BY <1>1, <1>2, FS_Subset, FS_CardinalityType DEF MapAssumption

\* What a thread in set knows of its argument.
LEMMA ArgTyped ==
  ASSUME MapAssumption, TypeOK, CallsInv, NEW t \in Threads, pc[t] # "idle"
  PROVE  /\ arg[t] \in called /\ arg[t] = <<arg[t][1], arg[t][2]>>
         /\ arg[t][1] \in Indices /\ arg[t][2] \in BOOLEAN
         /\ Segment(t) \in AllSegments /\ IndexToSegment(arg[t][1]) = Segment(t)
         /\ arg[t][1] \in SegmentRange(Segment(t))
<1>1. arg[t] \in called /\ arg[t] \in Objects \X BOOLEAN
  BY DEF CallsInv, TypeOK
<1>2. arg[t][1] \in Indices /\ arg[t][2] \in BOOLEAN /\ arg[t] = <<arg[t][1], arg[t][2]>>
  BY <1>1 DEF MapAssumption
<1> QED BY <1>1, <1>2, Division DEF Segment

LEMMA WordTyped ==
  ASSUME MapAssumption, TypeOK, NEW s \in AllSegments
  PROVE  Word(s) \in Words /\ \A i \in SegmentRange(s) : Word(s)[i] = bitmap[i]
<1>1. Word(s) \in [SegmentRange(s) -> SUBSET Bits]
  BY Division DEF Word, TypeOK
<1> QED BY <1>1 DEF Words, Word

LEMMA NotSeenTyped == NotSeen \in [seqnum : Int, word : Words]
BY DEF NotSeen, None, Words

LEMMA NoneIsMarked ==
  ASSUME MapAssumption, IInv, ~IsMarked
  PROVE  /\ done = {}
         /\ \A t \in Threads : pc[t] \in {"idle", "reset", "reset_cas", "reset_map", "reset_seqnum"}
<1>1. done = {}
  <2> SUFFICES ASSUME NEW d \in done PROVE FALSE
    OBVIOUS
  <2>1. PICK i \in Objects, f \in BOOLEAN : d = <<i, f>>
    BY DEF IInv, TypeOK
  <2>2. i \in Indices /\ (f = TRUE \/ f = FALSE)
    BY DEF MapAssumption
  <2> QED BY <2>1, <2>2 DEF IInv, MarksInv, Get
<1>2. \A t \in Threads : pc[t] \in {"idle", "reset", "reset_cas", "reset_map", "reset_seqnum"}
  BY DEF IInv, TypeOK, PCs, CallsInv
<1> QED BY <1>1, <1>2
-----------------------------------------------------------------------------
LEMMA SetStep ==
  ASSUME MapAssumption, IInv, NEW t \in Threads, Set(t)
  PROVE  IInv'
<1> USE DEF IInv, mapVars, segmentVars
<1>1. PICK i \in Objects, finalizable \in BOOLEAN :
        /\ arg' = [arg EXCEPT ![t] = <<i, finalizable>>]
        /\ called' = called \cup {<<i, finalizable>>}
  BY DEF Set
<1>2. /\ pc[t] = "idle" /\ pc' = [pc EXCEPT ![t] = IF IsMarked THEN "segment" ELSE "reset"]
      /\ UNCHANGED <<seqnum, _seqnum, done, _live_objects, live, claimed, bitmap, seen>>
  BY DEF Set, Goto
<1>3. \A i1 \in Indices : Get(i1)' = Get(i1)
  BY <1>2 DEF Get, IsMarked
<1>4. TypeOK'
  BY <1>1, <1>2 DEF TypeOK, PCs, MapAssumption
<1>5. CallsInv'
  BY <1>1, <1>2 DEF CallsInv, TypeOK, IsMarked
<1>6. ResetInv'
  BY <1>1, <1>2 DEF ResetInv, TypeOK
<1>7. SegmentsInv'
  BY <1>1, <1>2 DEF SegmentsInv, TypeOK, Segment
<1>8. MarksInv'
  BY <1>1, <1>2, <1>3 DEF MarksInv, IsMarked
<1>9. CountInv'
  <2>1. Iterated' = Iterated
    BY <1>3 DEF Iterated
  <2>2. Counting' = Counting
    BY <1>2 DEF Counting, TypeOK
  <2> QED BY <1>2, <2>1, <2>2 DEF CountInv, IsMarked
<1> QED BY <1>4, <1>5, <1>6, <1>7, <1>8, <1>9

\* The steps that read the map and go on, or claim a segment.
LEMMA QuietStep ==
  ASSUME MapAssumption, IInv, NEW t \in Threads,
         UNCHANGED <<seqnum, called, done, _seqnum, _live_objects, live, bitmap, arg>>,
         pc[t] \notin {"idle", "inc_live", "reset_map", "reset_seqnum"},
         NEW label \in {"reset", "reset_cas", "segment", "claim", "wait", "clear", "set", "set_cas"},
         pc' = [pc EXCEPT ![t] = label],
         seen' \in [Threads -> [seqnum : Int, word : Words]],
         \A u \in Threads \ {t} : seen'[u] = seen[u],
         label = "reset_cas" => seen'[t].seqnum # Initializing /\ seen'[t].seqnum # seqnum,
         label \notin {"reset", "reset_cas"} => IsMarked,
         IF label = "clear"
           THEN Segment(t) \notin claimed /\ claimed' = claimed \cup {Segment(t)}
           ELSE claimed' = claimed,
         pc[t] \notin {"clear", "set_live"},
         label \in {"set", "set_cas"} => Segment(t) \in live,
         label = "set_cas" => ~arg[t][2]
  PROVE  IInv'
<1> USE DEF IInv
<1>1. \A i \in Indices : Get(i)' = Get(i)
  BY DEF Get, IsMarked
<1>2. TypeOK'
  <2>1. claimed' \subseteq AllSegments
    BY ArgTyped DEF TypeOK
  <2>2. pc' \in [Threads -> PCs]
    BY DEF TypeOK, PCs
  <2> QED BY <2>1, <2>2 DEF TypeOK
<1>3. CallsInv'
  BY DEF CallsInv, TypeOK, IsMarked
<1>4. ResetInv'
  <2>1. \A u \in Threads : pc'[u] = IF u = t THEN label ELSE pc[u]
    BY DEF TypeOK
  <2>2. \A u \in Threads : pc'[u] \in {"reset_map", "reset_seqnum"} <=> pc[u] \in {"reset_map", "reset_seqnum"}
    BY <2>1
  <2>3. \A u \in Threads : pc'[u] = "reset_seqnum" => pc[u] = "reset_seqnum"
    BY <2>1
  <2>4. \A u \in Threads : pc[u] = "reset_seqnum" => label # "clear"
    BY DEF ResetInv, IsMarked, TypeOK, Initializing
  <2> QED BY <2>1, <2>2, <2>3, <2>4 DEF ResetInv
<1>5. SegmentsInv'
  BY DEF SegmentsInv, TypeOK, Segment
<1>6. MarksInv'
  BY <1>1 DEF MarksInv, IsMarked
<1>7. CountInv'
  <2>1. Iterated' = Iterated
    BY <1>1 DEF Iterated
  <2>2. Counting' = Counting
    BY DEF Counting, TypeOK
  <2> QED BY <2>1, <2>2 DEF CountInv, IsMarked
<1> QED BY <1>2, <1>3, <1>4, <1>5, <1>6, <1>7

LEMMA ResetLoadStep ==
  ASSUME MapAssumption, IInv, NEW t \in Threads, ResetLoad(t)
  PROVE  IInv'
<1> USE DEF ResetLoad, Goto, markVars, mapVars, segmentVars
<1>1. /\ seen' \in [Threads -> [seqnum : Int, word : Words]]
      /\ \A u \in Threads \ {t} : seen'[u] = seen[u]
      /\ seen'[t].seqnum = _seqnum
  BY DEF IInv, TypeOK, Initializing
<1>2. CASE IsMarked
  BY <1>1, <1>2, QuietStep
<1>3. CASE ~IsMarked
  BY <1>1, <1>3, QuietStep DEF IsMarked
<1> QED BY <1>2, <1>3

\* The thread whose swap succeeds found the map stale, so that no thread
\* marks and the map is not being reset.
LEMMA ResetCasStep ==
  ASSUME MapAssumption, IInv, NEW t \in Threads, ResetCas(t)
  PROVE  IInv'
<1> USE DEF ResetCas, Goto, markVars, mapVars, segmentVars
<1>1. /\ seen' \in [Threads -> [seqnum : Int, word : Words]]
      /\ \A u \in Threads \ {t} : seen'[u] = seen[u]
  BY NotSeenTyped DEF IInv, TypeOK
<1>2. CASE _seqnum # seen[t].seqnum
  BY <1>1, <1>2, QuietStep
<1>3. CASE _seqnum = seen[t].seqnum
  <2> USE DEF IInv
  <2>1. _seqnum # Initializing /\ ~IsMarked
    BY <1>3 DEF ResetInv, IsMarked
  <2>2. /\ done = {}
        /\ \A u \in Threads : pc[u] \in {"idle", "reset", "reset_cas", "reset_map", "reset_seqnum"}
    BY <2>1, NoneIsMarked
  <2>3. _seqnum' = Initializing /\ ~IsMarked' /\ pc' = [pc EXCEPT ![t] = "reset_map"]
    BY <1>3 DEF TypeOK, IsMarked, Initializing
  <2>4. TypeOK'
    BY <1>1, <2>3 DEF TypeOK, PCs
  <2>5. CallsInv'
    BY <2>2, <2>3 DEF CallsInv, TypeOK
  <2>6. ResetInv'
    BY <1>1, <2>1, <2>3 DEF ResetInv, TypeOK
  <2>7. SegmentsInv'
    BY <2>2, <2>3 DEF SegmentsInv, TypeOK, Segment
  <2>8. MarksInv' /\ CountInv'
    BY <2>2, <2>3 DEF MarksInv, CountInv
  <2> QED BY <2>4, <2>5, <2>6, <2>7, <2>8
<1> QED BY <1>2, <1>3

LEMMA ResetMarkingInformationStep ==
  ASSUME MapAssumption, IInv, NEW t \in Threads, ResetMarkingInformation(t)
  PROVE  IInv'
<1> USE DEF IInv, ResetMarkingInformation, Goto, markVars
<1>1. _seqnum = Initializing /\ ~IsMarked /\ ~IsMarked'
  BY DEF ResetInv, IsMarked, TypeOK, Initializing
<1>2. /\ done = {}
      /\ \A u \in Threads : pc[u] \in {"idle", "reset", "reset_cas", "reset_map", "reset_seqnum"}
  BY <1>1, NoneIsMarked
<1>3. TypeOK'
  BY DEF TypeOK, PCs
<1>4. CallsInv'
  BY <1>2 DEF CallsInv, TypeOK
<1>5. ResetInv'
  BY <1>1 DEF ResetInv, TypeOK
<1>6. SegmentsInv'
  BY <1>2 DEF SegmentsInv, TypeOK
<1>7. MarksInv' /\ CountInv'
  BY <1>1, <1>2 DEF MarksInv, CountInv
<1> QED BY <1>3, <1>4, <1>5, <1>6, <1>7

\* When the sequence number is published nothing is marked and nothing live.
LEMMA ResetSeqnumStep ==
  ASSUME MapAssumption, IInv, NEW t \in Threads, ResetSeqnum(t)
  PROVE  IInv'
<1> USE DEF IInv, ResetSeqnum, Goto, markVars, segmentVars
<1>1. _seqnum = Initializing /\ ~IsMarked /\ IsMarked' /\ live = {} /\ claimed = {} /\ _live_objects = 0
  BY DEF ResetInv, IsMarked, TypeOK, Initializing
<1>2. /\ done = {}
      /\ \A u \in Threads : pc[u] \in {"idle", "reset", "reset_cas", "reset_map", "reset_seqnum"}
  BY <1>1, NoneIsMarked
<1>3. TypeOK'
  BY DEF TypeOK, PCs, Initializing
<1>4. CallsInv'
  BY <1>1 DEF CallsInv, TypeOK
<1>5. ResetInv'
  BY <1>1 DEF ResetInv, TypeOK, Initializing
<1>6. SegmentsInv'
  BY <1>1, <1>2 DEF SegmentsInv, TypeOK
<1>7. MarksInv'
  BY <1>1, <1>2 DEF MarksInv
<1>8. CountInv'
  <2>1. Iterated' = {}
    BY <1>1 DEF Iterated, Get
  <2>2. Counting' = {}
    BY <1>2 DEF Counting, TypeOK
  <2> QED BY <1>1, <2>1, <2>2, FS_EmptySet DEF CountInv
<1> QED BY <1>3, <1>4, <1>5, <1>6, <1>7, <1>8

LEMMA IsSegmentLiveStep ==
  ASSUME MapAssumption, IInv, NEW t \in Threads, IsSegmentLive(t)
  PROVE  IInv'
<1> USE DEF IsSegmentLive, Goto, markVars, mapVars, segmentVars
<1>1. IsMarked /\ seen \in [Threads -> [seqnum : Int, word : Words]]
  BY DEF IInv, CallsInv, TypeOK
<1>2. CASE Segment(t) \in live
  BY <1>1, <1>2, QuietStep
<1>3. CASE Segment(t) \notin live
  BY <1>1, <1>3, QuietStep
<1> QED BY <1>2, <1>3

LEMMA ClaimSegmentStep ==
  ASSUME MapAssumption, IInv, NEW t \in Threads, ClaimSegment(t)
  PROVE  IInv'
<1> USE DEF ClaimSegment, Goto, markVars, mapVars, segmentVars
<1>1. IsMarked /\ seen \in [Threads -> [seqnum : Int, word : Words]]
  BY DEF IInv, CallsInv, TypeOK
<1>2. CASE Segment(t) \in claimed
  <2>1. claimed' = claimed /\ pc' = [pc EXCEPT ![t] = "wait"]
    BY <1>2
  <2> QED BY <1>1, <2>1, QuietStep
<1>3. CASE Segment(t) \notin claimed
  BY <1>1, <1>3, QuietStep
<1> QED BY <1>2, <1>3

LEMMA WaitForSegmentStep ==
  ASSUME MapAssumption, IInv, NEW t \in Threads, WaitForSegment(t)
  PROVE  IInv'
<1> USE DEF WaitForSegment, Goto, markVars, mapVars, segmentVars
<1>1. IsMarked /\ seen \in [Threads -> [seqnum : Int, word : Words]]
  BY DEF IInv, CallsInv, TypeOK
<1> QED BY <1>1, QuietStep

\* The thread that claimed the segment clears it before it is live, so that
\* no mark is lost.
LEMMA ClearSegmentStep ==
  ASSUME MapAssumption, IInv, NEW t \in Threads, ClearSegment(t)
  PROVE  IInv'
<1> USE DEF IInv, Goto, markVars, segmentVars
<1>0. /\ pc[t] \in {"clear", "set_live"}
      /\ Segment(t) \in claimed \ live /\ Segment(t) \in AllSegments /\ IsMarked
      /\ \A u \in Threads \ {t} : pc[u] \in {"clear", "set_live"} => Segment(u) # Segment(t)
      /\ \A u \in Threads : pc[u] # "reset_seqnum"
  BY ArgTyped DEF ClearSegment, SegmentsInv, CallsInv, ResetInv, IsMarked, TypeOK, Initializing
<1>1. CASE pc[t] = "clear"
  <2>1. /\ bitmap' = [i \in Indices |-> IF IndexToSegment(i) = Segment(t) THEN {} ELSE bitmap[i]]
        /\ pc' = [pc EXCEPT ![t] = "set_live"]
        /\ UNCHANGED <<seqnum, called, done, _seqnum, _live_objects, live, claimed, arg, seen>>
    BY <1>1 DEF ClearSegment, ClearBits
  <2>2. \A i \in Indices : Get(i)' = Get(i)
    BY <1>0, <2>1 DEF Get, IsMarked
  <2>3. TypeOK'
    BY <2>1 DEF TypeOK, PCs
  <2>4. CallsInv' /\ ResetInv'
    BY <1>0, <2>1 DEF CallsInv, ResetInv, TypeOK, IsMarked
  <2>5. SegmentsInv'
    BY <1>0, <2>1 DEF SegmentsInv, TypeOK, Segment
  <2>6. MarksInv'
    BY <1>0, <2>1, <2>2 DEF MarksInv, IsMarked, Get
  <2>7. CountInv'
    <3>1. Iterated' = Iterated
      BY <2>2 DEF Iterated
    <3>2. Counting' = Counting
      BY <1>1, <2>1 DEF Counting, TypeOK
    <3> QED BY <2>1, <3>1, <3>2 DEF CountInv, IsMarked
  <2> QED BY <2>3, <2>4, <2>5, <2>6, <2>7
<1>2. CASE pc[t] = "set_live"
  <2>1. /\ live' = live \cup {Segment(t)}
        /\ pc' = [pc EXCEPT ![t] = "set"]
        /\ UNCHANGED <<seqnum, called, done, _seqnum, _live_objects, claimed, bitmap, arg, seen>>
    BY <1>2 DEF ClearSegment
  <2>2. \A i \in Indices : IndexToSegment(i) = Segment(t) => bitmap[i] = {}
    BY <1>2 DEF SegmentsInv
  <2>3. \A i \in Indices : Get(i)' = Get(i)
    BY <1>0, <2>1, <2>2 DEF Get, IsMarked
  <2>4. TypeOK'
    BY <1>0, <2>1 DEF TypeOK, PCs
  <2>5. CallsInv' /\ ResetInv'
    BY <1>0, <2>1 DEF CallsInv, ResetInv, TypeOK, IsMarked
  <2>6. SegmentsInv'
    BY <1>0, <2>1 DEF SegmentsInv, TypeOK, Segment
  <2>7. MarksInv'
    BY <1>0, <2>1, <2>2, <2>3 DEF MarksInv, IsMarked, Get
  <2>8. CountInv'
    <3>1. Iterated' = Iterated
      BY <2>3 DEF Iterated
    <3>2. Counting' = Counting
      BY <1>2, <2>1 DEF Counting, TypeOK
    <3> QED BY <2>1, <3>1, <3>2 DEF CountInv, IsMarked
  <2> QED BY <2>4, <2>5, <2>6, <2>7, <2>8
<1> QED BY <1>0, <1>1, <1>2

\* A thread sets its bits and returns, to count the object if it was the first.
LEMMA MarkStep ==
  ASSUME MapAssumption, IInv, NEW t \in Threads, pc[t] \in {"set", "set_cas"},
         NEW bits \in SUBSET Bits, bitmap' = [bitmap EXCEPT ![arg[t][1]] = bits],
         bitmap[arg[t][1]] \subseteq bits, "marked" \in bits,
         "strong" \in bits => "strong" \in bitmap[arg[t][1]] \/ ~arg[t][2],
         ~arg[t][2] => "strong" \in bits,
         Return(t, "marked" \notin bitmap[arg[t][1]]),
         UNCHANGED <<seqnum, called, _seqnum, _live_objects, live, claimed>>
  PROVE  IInv'
<1> USE DEF IInv
<1> DEFINE i == arg[t][1]
           first == "marked" \notin bitmap[i]
<1>0. /\ arg[t] \in called /\ arg[t] = <<i, arg[t][2]>> /\ i \in Indices /\ arg[t][2] \in BOOLEAN
      /\ Segment(t) \in live /\ IndexToSegment(i) = Segment(t) /\ IsMarked
      /\ \A u \in Threads : pc[u] # "reset_seqnum"
  BY ArgTyped DEF SegmentsInv, CallsInv, ResetInv, IsMarked, TypeOK, Initializing
<1>1. /\ pc' = [pc EXCEPT ![t] = IF first THEN "inc_live" ELSE "idle"]
      /\ seen' = [seen EXCEPT ![t] = NotSeen]
      /\ done' = done \cup {arg[t]}
      /\ arg' = IF first THEN arg ELSE [arg EXCEPT ![t] = <<None, FALSE>>]
  BY DEF Return, Goto
<1> HIDE DEF first
<1>2. TypeOK'
  BY <1>0, <1>1, NotSeenTyped DEF TypeOK, PCs
<1>3. CallsInv'
  BY <1>0, <1>1 DEF CallsInv, TypeOK, IsMarked
<1>4. ResetInv'
  BY <1>0, <1>1, NotSeenTyped DEF ResetInv, TypeOK
<1>5. SegmentsInv'
  BY <1>0, <1>1 DEF SegmentsInv, TypeOK, Segment
<1>6. \A j \in Indices : bitmap'[j] = IF j = i THEN bits ELSE bitmap[j]
  BY DEF TypeOK
<1>7. \A j \in Indices : Get(j)' <=> Get(j) \/ j = i
  BY <1>0, <1>6 DEF Get, IsMarked
<1>8. MarksInv'
  <2>1. ASSUME NEW j \in Indices, IndexToSegment(j) \in live
        PROVE  /\ "marked" \in bitmap'[j] => \E f \in BOOLEAN : <<j, f>> \in called
               /\ "strong" \in bitmap'[j] => "marked" \in bitmap'[j] /\ <<j, FALSE>> \in called
    <3>0. MarksInv
      OBVIOUS
    <3>1. /\ "marked" \in bitmap[j] => \E f \in BOOLEAN : <<j, f>> \in called
          /\ "strong" \in bitmap[j] => "marked" \in bitmap[j] /\ <<j, FALSE>> \in called
      BY ONLY <1>0, <2>1, <3>0 DEF MarksInv
    <3>2. CASE j # i
      <4>1. bitmap'[j] = bitmap[j]
        BY <1>6, <3>2
      <4> QED BY <3>1, <4>1
    <3>3. CASE j = i
      <4>1. bitmap'[j] = bits
        BY <1>6, <3>3
      <4> QED BY <1>0, <3>1, <3>3, <4>1
    <3> QED BY <3>2, <3>3
  <2>2. ASSUME NEW j \in Indices
        PROVE  /\ <<j, TRUE>> \in done' => Get(j)'
               /\ <<j, FALSE>> \in done' => Get(j)' /\ "strong" \in bitmap'[j]
    <3>1. CASE j = i
      <4>1. Get(j)'
        BY <1>7, <3>1
      <4>2. <<j, FALSE>> \in done => "strong" \in bits
        BY <3>1 DEF MarksInv
      <4>3. <<j, FALSE>> \in done' => <<j, FALSE>> \in done \/ ~arg[t][2]
        <5>1. ASSUME <<j, FALSE>> = arg[t] PROVE ~arg[t][2]
          <6>1. arg[t][2] = <<j, FALSE>>[2]
            BY <5>1
          <6> QED BY <6>1
        <5> QED BY <1>1, <5>1
      <4> QED BY <1>6, <3>1, <4>1, <4>2, <4>3
    <3>2. CASE j # i
      <4>1. \A f \in BOOLEAN : <<j, f>> \in done' => <<j, f>> \in done
        BY <1>0, <1>1, <3>2
      <4> QED BY <1>6, <1>7, <3>2, <4>1 DEF MarksInv
    <3> QED BY <3>1, <3>2
  <2> QED BY <2>1, <2>2 DEF MarksInv
<1>9. CountInv'
  <2>1. Iterated' = Iterated \cup {i} /\ (i \in Iterated <=> ~first)
    BY <1>0, <1>7 DEF Iterated, Get, first
  <2>2. Counting' = IF first THEN Counting \cup {t} ELSE Counting
    BY <1>1 DEF Counting, TypeOK
  <2>3. t \notin Counting
    BY DEF Counting
  <2>4. CASE first
    <3>1. Cardinality(Iterated \cup {i}) = Cardinality(Iterated) + 1
      BY <2>1, <2>4, FiniteMarks, FS_AddElement
    <3>2. Cardinality(Counting \cup {t}) = Cardinality(Counting) + 1
      BY <2>3, FiniteMarks, FS_AddElement
    <3>3. _live_objects + Cardinality(Counting) = Cardinality(Iterated)
      BY <1>0 DEF CountInv
    <3>4. _live_objects' = _live_objects /\ _live_objects \in Nat
      BY DEF TypeOK
    <3>5. Iterated' = Iterated \cup {i} /\ Counting' = Counting \cup {t}
      BY <2>1, <2>2, <2>4
    <3> QED BY <3>1, <3>2, <3>3, <3>4, <3>5, FiniteMarks DEF CountInv
  <2>5. CASE ~first
    <3>1. Iterated' = Iterated /\ Counting' = Counting
      BY <2>1, <2>2, <2>5
    <3> QED BY <3>1 DEF CountInv, IsMarked
  <2> QED BY <2>4, <2>5
<1> QED BY <1>2, <1>3, <1>4, <1>5, <1>8, <1>9

LEMMA SetFinalizableStep ==
  ASSUME MapAssumption, IInv, NEW t \in Threads, SetFinalizable(t)
  PROVE  IInv'
<1> USE DEF SetFinalizable, segmentVars
<1> DEFINE bits == bitmap[arg[t][1]] \cup {"marked"}
<1>1. arg[t][1] \in Indices /\ bitmap[arg[t][1]] \subseteq Bits
  BY ArgTyped DEF IInv, TypeOK
<1>2. bits \in SUBSET Bits /\ ("strong" \in bits => "strong" \in bitmap[arg[t][1]])
  BY <1>1 DEF Bits
<1>3. bitmap' = [bitmap EXCEPT ![arg[t][1]] = bits]
  OBVIOUS
<1>4. bitmap[arg[t][1]] \subseteq bits /\ "marked" \in bits
  OBVIOUS
<1> HIDE DEF bits
<1> QED BY <1>1, <1>2, <1>3, <1>4, MarkStep

LEMMA LoadWordStep ==
  ASSUME MapAssumption, IInv, NEW t \in Threads, LoadWord(t)
  PROVE  IInv'
<1> USE DEF LoadWord, mapVars, segmentVars
<1>1. /\ arg[t][1] \in Indices /\ bitmap[arg[t][1]] \subseteq Bits /\ Segment(t) \in AllSegments
      /\ Word(Segment(t)) \in Words
  BY ArgTyped, WordTyped DEF IInv, TypeOK
<1>2. CASE bitmap[arg[t][1]] = Bits
  <2>1. bitmap' = [bitmap EXCEPT ![arg[t][1]] = Bits]
    BY <1>1, <1>2 DEF IInv, TypeOK
  <2>2. Return(t, "marked" \notin bitmap[arg[t][1]])
    BY <1>2 DEF Bits, Return
  <2> QED BY <1>2, <2>1, <2>2, MarkStep DEF Bits
<1>3. CASE bitmap[arg[t][1]] # Bits
  <2>1. /\ seen' = [seen EXCEPT ![t].word = Word(Segment(t))]
        /\ pc' = [pc EXCEPT ![t] = "set_cas"] /\ UNCHANGED <<arg, done>>
    BY <1>3 DEF Bits, Goto
  <2>2. /\ seen' \in [Threads -> [seqnum : Int, word : Words]]
        /\ \A u \in Threads \ {t} : seen'[u] = seen[u]
    BY <1>1, <2>1 DEF IInv, TypeOK
  <2>3. IsMarked /\ Segment(t) \in live
    BY DEF IInv, CallsInv, SegmentsInv
  <2> QED BY <2>1, <2>2, <2>3, QuietStep
<1> QED BY <1>2, <1>3

\* The word has not changed since it was loaded, so that what it said of the
\* object's bits is still so.
LEMMA SetStrongStep ==
  ASSUME MapAssumption, IInv, NEW t \in Threads, SetStrong(t)
  PROVE  IInv'
<1> USE DEF SetStrong, segmentVars
<1>1. /\ arg[t][1] \in Indices /\ bitmap[arg[t][1]] \subseteq Bits /\ Segment(t) \in AllSegments
      /\ Word(Segment(t))[arg[t][1]] = bitmap[arg[t][1]]
      /\ IsMarked /\ Segment(t) \in live
  BY ArgTyped, WordTyped DEF IInv, TypeOK, CallsInv, SegmentsInv
<1>2. CASE seen[t].word = Word(Segment(t))
  <2>1. /\ bitmap' = [bitmap EXCEPT ![arg[t][1]] = Bits]
        /\ Return(t, "marked" \notin bitmap[arg[t][1]])
    BY <1>1, <1>2 DEF Bits
  <2>2. "strong" \in bitmap[arg[t][1]] \/ ~arg[t][2]
    BY DEF IInv, CallsInv
  <2> QED BY <1>1, <2>1, <2>2, MarkStep DEF Bits
<1>3. CASE seen[t].word # Word(Segment(t))
  <2>1. /\ pc' = [pc EXCEPT ![t] = "set"] /\ seen' = [seen EXCEPT ![t] = NotSeen]
        /\ UNCHANGED <<bitmap, arg, done>>
    BY <1>3 DEF Goto
  <2>2. /\ seen' \in [Threads -> [seqnum : Int, word : Words]]
        /\ \A u \in Threads \ {t} : seen'[u] = seen[u]
    BY <2>1, NotSeenTyped DEF IInv, TypeOK
  <2> QED BY <1>1, <2>1, <2>2, QuietStep
<1> QED BY <1>2, <1>3

LEMMA IncLiveStep ==
  ASSUME MapAssumption, IInv, NEW t \in Threads, IncLive(t)
  PROVE  IInv'
<1> USE DEF IInv, IncLive, Goto, markVars, segmentVars
<1>0. IsMarked /\ \A u \in Threads : pc[u] # "reset_seqnum"
  BY DEF CallsInv, ResetInv, IsMarked, TypeOK, Initializing
<1>1. \A i \in Indices : Get(i)' = Get(i)
  BY DEF Get, IsMarked
<1>2. TypeOK'
  <2>1. arg' \in [Threads -> (Indices \cup {None}) \X BOOLEAN] /\ pc' \in [Threads -> PCs]
    BY DEF TypeOK, PCs
  <2>2. _live_objects' \in Nat
    BY DEF TypeOK
  <2> QED BY <2>1, <2>2 DEF TypeOK
<1>3. CallsInv' /\ ResetInv'
  BY <1>0 DEF CallsInv, ResetInv, TypeOK, IsMarked
<1>4. SegmentsInv'
  BY DEF SegmentsInv, TypeOK, Segment
<1>5. MarksInv'
  BY <1>1 DEF MarksInv, IsMarked
<1>6. CountInv'
  <2>1. Iterated' = Iterated
    BY <1>1 DEF Iterated
  <2>2. Counting' = Counting \ {t} /\ t \in Counting
    BY DEF Counting, TypeOK
  <2>3. Cardinality(Counting') = Cardinality(Counting) - 1
    BY <2>2, FiniteMarks, FS_RemoveElement
  <2> QED BY <1>0, <2>1, <2>3, FiniteMarks DEF CountInv, IsMarked, TypeOK
<1> QED BY <1>2, <1>3, <1>4, <1>5, <1>6

\* No thread is in set; the map is stale afterwards.
LEMMA StaleStep ==
  ASSUME MapAssumption, IInv, MarkStart \/ ResetMap
  PROVE  IInv'
<1> USE DEF IInv, MarkStart, ResetMap, mapVars, segmentVars
<1>1. \A t \in Threads : pc[t] = "idle"
  BY DEF Quiescent
<1>2. ~IsMarked' /\ _seqnum # Initializing /\ _seqnum' # Initializing
  BY <1>1 DEF IsMarked, TypeOK, ResetInv, Initializing
<1>3. TypeOK'
  BY <1>2 DEF TypeOK, Initializing
<1>4. CallsInv' /\ ResetInv' /\ SegmentsInv'
  BY <1>1, <1>2 DEF CallsInv, ResetInv, SegmentsInv
<1>5. MarksInv' /\ CountInv'
  BY <1>2 DEF MarksInv, CountInv
<1> QED BY <1>3, <1>4, <1>5
-----------------------------------------------------------------------------
LEMMA InitInv == MapAssumption /\ Init => IInv
<1> SUFFICES ASSUME MapAssumption, Init PROVE IInv
  OBVIOUS
<1> USE DEF Init
<1>1. TypeOK
  <2>1. bitmap \in [Indices -> SUBSET Bits]
    BY DEF MapAssumption, Bits
  <2>2. seen \in [Threads -> [seqnum : Int, word : Words]]
    BY NotSeenTyped
  <2>3. arg \in [Threads -> (Indices \cup {None}) \X BOOLEAN] /\ pc \in [Threads -> PCs]
    BY DEF PCs
  <2>4. /\ seqnum \in Nat \ {0} /\ _seqnum \in {Initializing} \cup 0 .. seqnum
        /\ _live_objects \in Nat
    OBVIOUS
  <2>5. /\ live \subseteq AllSegments /\ claimed \subseteq AllSegments
        /\ called \subseteq Objects \X BOOLEAN /\ done \subseteq called
    OBVIOUS
  <2> QED BY <2>1, <2>2, <2>3, <2>4, <2>5 DEF TypeOK
<1>2. CallsInv /\ ResetInv /\ SegmentsInv /\ MarksInv /\ CountInv
  BY DEF CallsInv, ResetInv, SegmentsInv, MarksInv, CountInv, IsMarked, Initializing
<1> QED BY <1>1, <1>2 DEF IInv

LEMMA StepInv == MapAssumption /\ IInv /\ [Next]_vars => IInv'
<1> SUFFICES ASSUME MapAssumption, IInv, [Next]_vars PROVE IInv'
  OBVIOUS
<1>1. ASSUME NEW t \in Threads, Step(t) PROVE IInv'
  BY <1>1, SetStep, ResetLoadStep, ResetCasStep, ResetMarkingInformationStep, ResetSeqnumStep,
     IsSegmentLiveStep, ClaimSegmentStep, WaitForSegmentStep, ClearSegmentStep, SetFinalizableStep,
     LoadWordStep, SetStrongStep, IncLiveStep DEF Step
<1>2. ASSUME UNCHANGED vars PROVE IInv'
  <2> USE <1>2 DEF vars, markVars, mapVars, segmentVars, IInv
  <2>1. Iterated' = Iterated /\ Counting' = Counting /\ (IsMarked' <=> IsMarked)
    BY DEF Iterated, Get, IsMarked, Counting
  <2>2. TypeOK' /\ CallsInv' /\ ResetInv'
    BY DEF TypeOK, CallsInv, ResetInv, IsMarked
  <2>3. SegmentsInv' /\ MarksInv'
    BY DEF SegmentsInv, MarksInv, IsMarked, Get, Segment
  <2>4. CountInv'
    BY <2>1 DEF CountInv
  <2> QED BY <2>2, <2>3, <2>4
<1> QED BY <1>1, <1>2, StaleStep DEF Next

LEMMA InvExact == MapAssumption /\ IInv => MarksAreExact
<1> SUFFICES ASSUME MapAssumption, IInv PROVE MarksAreExact
  OBVIOUS
<1> QED BY DEF IInv, MarksInv, MarksAreExact, Get

LEMMA InvCount == IInv => LiveCountIsExact
<1> SUFFICES ASSUME IInv, Quiescent, IsMarked PROVE _live_objects = Cardinality(Iterated)
  BY DEF LiveCountIsExact
<1>1. Counting = {}
  BY DEF Counting, Quiescent
<1> QED BY <1>1, FS_EmptySet DEF IInv, CountInv, TypeOK

\* The search for the object before a field (ZLiveMap::find_base_bit).
LEMMA RangeOfSegment ==
  ASSUME MapAssumption, NEW s \in AllSegments, NEW i \in SegmentRange(s)
  PROVE  IndexToSegment(i) = s
<1> USE DEF MapAssumption, AllSegments, IndexToSegment, SegmentRange
<1>1. i \in Int /\ s * SegmentSize <= i /\ i <= (s + 1) * SegmentSize - 1
  OBVIOUS
<1>2. (s + 1) * SegmentSize = s * SegmentSize + SegmentSize
  OBVIOUS
<1> QED BY <1>1, <1>2

LEMMA SegmentOrder ==
  ASSUME MapAssumption, NEW i \in Indices, NEW j \in Indices
  PROVE  /\ i <= j => IndexToSegment(i) <= IndexToSegment(j)
         /\ IndexToSegment(i) < IndexToSegment(j) => i < j
<1> DEFINE s == IndexToSegment(i)
           u == IndexToSegment(j)
<1>1. i \in Int /\ j \in Int /\ s \in Int /\ u \in Int
  BY Division DEF Indices, MapAssumption, AllSegments
<1>2. s * SegmentSize <= i /\ i <= (s + 1) * SegmentSize - 1
  BY Division DEF SegmentRange, MapAssumption
<1>3. u * SegmentSize <= j /\ j <= (u + 1) * SegmentSize - 1
  BY Division DEF SegmentRange, MapAssumption
<1>4. SegmentSize \in Nat /\ SegmentSize > 0
  BY DEF MapAssumption
<1> HIDE DEF s, u
<1>5. ASSUME s < u PROVE i < j
  <2> DEFINE d == u - (s + 1)
  <2>1. d \in Nat
    BY <1>1, <1>5
  <2>2. d * SegmentSize >= 0
    BY <2>1, <1>4
  <2>3. u * SegmentSize = (s + 1) * SegmentSize + d * SegmentSize
    BY <1>1, <1>4
  <2>4. (s + 1) * SegmentSize \in Int /\ u * SegmentSize \in Int /\ d * SegmentSize \in Int
    BY <1>1, <1>4, <2>1
  <2> HIDE DEF d
  <2> QED BY <1>1, <1>2, <1>3, <2>2, <2>3, <2>4
<1>6. ASSUME u < s PROVE j < i
  <2> DEFINE d == s - (u + 1)
  <2>1. d \in Nat
    BY <1>1, <1>6
  <2>2. d * SegmentSize >= 0
    BY <2>1, <1>4
  <2>3. s * SegmentSize = (u + 1) * SegmentSize + d * SegmentSize
    BY <1>1, <1>4
  <2>4. (u + 1) * SegmentSize \in Int /\ s * SegmentSize \in Int /\ d * SegmentSize \in Int
    BY <1>1, <1>4, <2>1
  <2> HIDE DEF d
  <2> QED BY <1>1, <1>2, <1>3, <2>2, <2>3, <2>4
<1>7. (s < u => i < j) /\ (i <= j => s <= u)
  BY <1>1, <1>5, <1>6
<1> QED BY <1>7 DEF s, u

LEMMA LeastNumber ==
  ASSUME NEW T, T \subseteq Nat, T # {}
  PROVE  \E x \in T : \A y \in T : x <= y
<1> DEFINE R == {ss \in Nat \X Nat : ss[1] < ss[2]}
<1>1. IsWellFoundedOn(OpToRel(<, Nat), Nat)
  BY ONLY NatLessThanWellFounded, Zenon
<1>2. OpToRel(<, Nat) = R
  BY Zenon DEF OpToRel
<1>3. IsWellFoundedOn(R, Nat)
  BY ONLY <1>1, <1>2, Zenon
<1> HIDE DEF R
<1>4. PICK x \in T : \A y \in T : ~(<<y, x>> \in R)
  BY <1>3, WFMin
<1>5. ASSUME NEW y \in T PROVE x <= y
  <2>1. ~(<<y, x>> \in R) /\ x \in Nat /\ y \in Nat
    BY <1>4
  <2>2. ~(y < x)
    BY <2>1 DEF R
  <2> QED BY <2>1, <2>2
<1> QED BY <1>5

\* A nonempty set of naturals below a bound has a highest one, and only one.
LEMMA HighestOf ==
  ASSUME NEW S \in SUBSET Nat, S # {}, NEW n \in Nat, \A i \in S : i <= n
  PROVE  Highest(S) \in S /\ \A j \in S : Highest(S) >= j
<1> DEFINE T == {n - i : i \in S}
<1>1. T \subseteq Nat
  <2> SUFFICES ASSUME NEW i \in S PROVE n - i \in Nat
    OBVIOUS
  <2>1. i \in Nat /\ i <= n
    OBVIOUS
  <2> QED BY <2>1
<1>2. T # {}
  OBVIOUS
<1>3. PICK x \in T : \A y \in T : x <= y
  <2> HIDE DEF T
  <2> QED BY <1>1, <1>2, LeastNumber
<1>4. PICK m \in S : x = n - m
  OBVIOUS
<1>5. ASSUME NEW j \in S PROVE m >= j
  <2>1. n - j \in T
    OBVIOUS
  <2>2. m \in Nat /\ j \in Nat /\ n - m <= n - j
    BY <1>3, <1>4, <2>1
  <2> QED BY <2>2
<1> HIDE DEF T
<1> QED BY <1>5 DEF Highest

LEMMA HighestIs ==
  ASSUME NEW S \in SUBSET Nat, NEW m \in S, \A j \in S : m >= j
  PROVE  Highest(S) = m
<1> DEFINE M(i) == \A j \in S : i >= j
<1>1. \A i \in S : M(i) => i = m
  <2> SUFFICES ASSUME NEW i \in S, M(i) PROVE i = m
    OBVIOUS
  <2>1. i >= m /\ m >= i /\ i \in Nat /\ m \in Nat
    OBVIOUS
  <2> QED BY <2>1
<1>2. M(m)
  OBVIOUS
<1>3. (CHOOSE i \in S : M(i)) = m
  <2> HIDE DEF M
  <2> QED BY <1>1, <1>2
<1> QED BY <1>3 DEF Highest

LEMMA InvNearest == MapAssumption /\ IInv => BaseIsNearest
<1> SUFFICES ASSUME MapAssumption, IInv, Quiescent, IsMarked, NEW index \in Indices
             PROVE  FindBaseBit(index) =
                      LET before == {i \in Iterated : i <= index}
                      IN  IF before = {} THEN None ELSE Highest(before)
  BY DEF BaseIsNearest
<1> DEFINE before == {i \in Iterated : i <= index}
           bits(s) == BitsUpTo(s, index)
           found == {s \in live : s <= IndexToSegment(index) /\ bits(s) # {}}
\* A bit of a live segment belongs to a marked object.
<1>1. \A s \in live : bits(s) = {i \in before : IndexToSegment(i) = s}
  <2> SUFFICES ASSUME NEW s \in live
               PROVE  bits(s) = {i \in before : IndexToSegment(i) = s}
    OBVIOUS
  <2>1. s \in AllSegments
    BY DEF IInv, TypeOK
  <2>2. ASSUME NEW i \in bits(s) PROVE i \in before /\ IndexToSegment(i) = s
    <3>1. i \in Indices /\ i \in SegmentRange(s) /\ i <= index /\ bitmap[i] # {}
      BY <2>1, Division DEF BitsUpTo
    <3>2. IndexToSegment(i) = s
      BY <2>1, <3>1, RangeOfSegment
    <3>3. "marked" \in bitmap[i] \/ "strong" \in bitmap[i]
      BY <3>1 DEF IInv, TypeOK, Bits
    <3>4. "marked" \in bitmap[i]
      BY <3>1, <3>2, <3>3 DEF IInv, MarksInv
    <3> QED BY <3>1, <3>2, <3>4 DEF Iterated, Get
  <2>3. ASSUME NEW i \in before, IndexToSegment(i) = s PROVE i \in bits(s)
    <3>1. i \in Indices /\ i <= index /\ "marked" \in bitmap[i]
      BY DEF Iterated, Get
    <3> QED BY <2>3, <3>1, Division DEF BitsUpTo
  <2> QED BY <2>2, <2>3
<1>2. ASSUME NEW i \in before PROVE IndexToSegment(i) \in found /\ i \in bits(IndexToSegment(i))
  <2>1. i \in Indices /\ i <= index /\ IndexToSegment(i) \in live
    BY DEF Iterated, Get
  <2>2. i \in bits(IndexToSegment(i))
    BY <1>1, <2>1
  <2>3. IndexToSegment(i) <= IndexToSegment(index)
    BY <2>1, SegmentOrder
  <2> QED BY <2>1, <2>2, <2>3
<1>3. before \subseteq Indices /\ Indices \subseteq Nat /\ before \in SUBSET Nat
  BY DEF Iterated, Indices
<1>4. found \in SUBSET Nat /\ \A s \in found : s <= Segments
  <2> SUFFICES ASSUME NEW s \in found PROVE s \in Nat /\ s <= Segments
    OBVIOUS
  <2>1. s \in AllSegments /\ Segments \in Nat
    BY DEF IInv, TypeOK, MapAssumption
  <2> QED BY <2>1 DEF AllSegments
<1>5. FindBaseBit(index) = IF found = {} THEN None ELSE Highest(bits(Highest(found)))
  BY DEF FindBaseBit
<1>6. found = {} <=> before = {}
  <2>1. ASSUME NEW s \in found PROVE before # {}
    BY <1>1
  <2> QED BY <1>2, <2>1
<1>7. ASSUME before # {} PROVE Highest(bits(Highest(found))) = Highest(before)
  <2> DEFINE s == Highest(found)
             m == Highest(bits(s))
  <2>1. s \in found /\ \A u \in found : s >= u
    <3>1. found # {}
      BY <1>6, <1>7
    <3>2. Segments \in Nat
      BY DEF MapAssumption
    <3> QED BY <1>4, <3>1, <3>2, HighestOf
  <2>2. s \in live /\ bits(s) # {} /\ bits(s) = {i \in before : IndexToSegment(i) = s}
    BY <1>1, <2>1
  <2>3. index \in Nat /\ bits(s) \in SUBSET Nat /\ \A i \in bits(s) : i <= index
    BY <1>3, <2>2
  <2> HIDE DEF s
  <2>4. m \in bits(s) /\ \A j \in bits(s) : m >= j
    <3> HIDE DEF bits
    <3> QED BY <2>2, <2>3, HighestOf
  <2> HIDE DEF m
  <2>5. m \in before /\ IndexToSegment(m) = s /\ m \in Indices
    BY <1>3, <2>2, <2>4
  <2>6. ASSUME NEW j \in before PROVE m >= j
    <3>1. j \in Indices /\ IndexToSegment(j) \in found /\ j \in bits(IndexToSegment(j))
      BY <1>2, <1>3
    <3>2. IndexToSegment(j) <= s
      BY <2>1, <3>1
    <3>3. CASE IndexToSegment(j) = s
      BY <2>4, <3>1, <3>3
    <3>4. CASE IndexToSegment(j) < s
      <4>1. j < m
        BY <2>5, <3>1, <3>4, SegmentOrder
      <4> QED BY <1>3, <2>5, <3>1, <4>1
    <3>5. IndexToSegment(j) \in Nat /\ s \in Nat
      BY <1>4, <2>1, <3>1
    <3> QED BY <3>2, <3>3, <3>4, <3>5
  <2>7. Highest(before) = m
    BY <1>3, <2>5, <2>6, HighestIs
  <2> QED BY <2>7 DEF m, s
<1> QED BY <1>5, <1>6, <1>7

LEMMA Invariant == MapAssumption => (Spec => []IInv)
<1> SUFFICES ASSUME MapAssumption PROVE Spec => []IInv
  OBVIOUS
<1>1. Init => IInv
  BY InitInv
<1>2. IInv /\ [Next]_vars => IInv'
  BY StepInv
<1> QED BY <1>1, <1>2, PTL DEF Spec

\* Type correctness.
THEOREM TypeCorrect == MapAssumption => (Spec => []TypeOK)
<1> SUFFICES ASSUME MapAssumption PROVE Spec => []TypeOK
  OBVIOUS
<1>1. IInv => TypeOK
  BY DEF IInv
<1> QED BY <1>1, Invariant, PTL

\* What a collection marked is marked and nothing else, whoever resets the map
\* and clears its segments (ZLiveMap::set, reset, reset_segment).
THEOREM MarksExact == MapAssumption => (Spec => []MarksAreExact)
<1> SUFFICES ASSUME MapAssumption PROVE Spec => []MarksAreExact
  OBVIOUS
<1>1. IInv => MarksAreExact
  BY InvExact
<1> QED BY <1>1, Invariant, PTL

\* Each marked object is counted once (inc_live after set).
THEOREM CountExact == MapAssumption => (Spec => []LiveCountIsExact)
<1> SUFFICES ASSUME MapAssumption PROVE Spec => []LiveCountIsExact
  OBVIOUS
<1> QED BY InvCount, Invariant, PTL

\* Given a field's index, the search finds the nearest marked object at or
\* before it, in whichever live segment that is (ZLiveMap::find_base_bit).
THEOREM BaseNearest == MapAssumption => (Spec => []BaseIsNearest)
<1> SUFFICES ASSUME MapAssumption PROVE Spec => []BaseIsNearest
  OBVIOUS
<1>1. IInv => BaseIsNearest
  BY InvNearest
<1> QED BY <1>1, Invariant, PTL

\* One thread resets the map while nobody marks, one thread clears a segment
\* before it is live (the comment at zLiveMap.cpp:81-85).
THEOREM ResetsAreExclusive == MapAssumption => (Spec => [](ResetInv /\ SegmentsInv))
<1> SUFFICES ASSUME MapAssumption PROVE Spec => [](ResetInv /\ SegmentsInv)
  OBVIOUS
<1>1. IInv => ResetInv /\ SegmentsInv
  BY DEF IInv
<1> QED BY <1>1, Invariant, PTL

-----------------------------------------------------------------------------
(* The table of compiled methods.  Its module is an instance, with operators *)
(* of its own for what FiniteSets defines.                                   *)

LEMMA SameCardinality == \A X : N!Cardinality(X) = Cardinality(X)
BY DEF N!Cardinality, Cardinality

LEMMA SameFinite == \A X : N!IsFiniteSet(X) <=> IsFiniteSet(X)
BY DEF N!IsFiniteSet, IsFiniteSet


\* Tables as values.
Entries == NMethods \cup {N!Empty, N!Unregistered}
Filled(T) == {i \in DOMAIN T : T[i] # N!Empty}
Tombs(T) == {i \in DOMAIN T : T[i] = N!Unregistered}
Holds(T) == {T[i] : i \in DOMAIN T} \cap NMethods

IsTable(T) == \E s \in Nat \ {0} : T \in [0 .. (s - 1) -> Entries]
\* A method is in a table once, and no entry on its way there is empty; some
\* entry is.
Once(T) == \A i, j \in DOMAIN T : T[i] \in NMethods /\ T[i] = T[j] => i = j
Searchable(T) ==
  \A i, j \in DOMAIN T :
    T[i] \in NMethods /\ N!Distance(T, T[i], j) < N!Distance(T, T[i], i) => T[j] # N!Empty
HasRoom(T) == \E i \in DOMAIN T : T[i] = N!Empty

\* MinTableSize and what doubling makes of it.
Sizes == {s \in Nat : \A X \in SUBSET Nat :
            MinTableSize \in X /\ (\A x \in X : 2 * x \in X) => s \in X}

Labels == {"idle", "claim", "read", "visit", "unregister", "unlink"}
Phases == {"idle", "marking", "marked", "unlinking", "handshake", "purge", "purged"}
Registered == {n \in NMethods : status[n] = "registered"}
Kinds == {"primary", "secondary"}

\* Types, as far as the proof needs them.
MethodsTypeOK ==
  /\ tables = [t \in N!Tables |-> tables[t]]
  /\ \A t \in N!Tables : tables[t] = N!Deleted \/ IsTable(tables[t])
  /\ _table \in N!Tables \cup {N!NoTable}
  /\ _nregistered \in Nat /\ _nunregistered \in Nat
  /\ _deferred \in [count : Nat, array : SUBSET N!Tables]
  /\ iterations \in [Kinds -> [table : N!Tables \cup {N!NoTable}, size : Nat, claimed : Nat]]
  /\ workers \in [Unlinkers \cup Markers ->
                    [at : Labels, i : Nat, end : Nat, method : NMethods \cup {N!Nobody}]]
  /\ _failed \in BOOLEAN
  /\ status \in [NMethods -> {"free", "registered", "unregistered", "unlinked"}]
  /\ armed \subseteq NMethods /\ dead \subseteq NMethods
  /\ old \in Phases /\ roots \in {"nobody", "young", "remap"} /\ joined \in BOOLEAN
  /\ calling \in [Mutators -> NMethods \cup {N!Nobody}]
  /\ unshaken \subseteq Mutators
  /\ registrations \in 0 .. MaxRegistrations

InUse == {t \in N!Tables : tables[t] # N!Deleted}

\* There is memory for another table: each registration took one at most.  A
\* table that waits to be deleted is not the current one.
TablesInv ==
  /\ \A t \in InUse : Once(tables[t])
  /\ Cardinality(InUse) <= registrations
  /\ _deferred.array \subseteq InUse
  /\ _table # N!NoTable => _table \in InUse \ _deferred.array

\* The current table holds what is registered, and the counts are those of its
\* entries; its size is MinTableSize, or that doubled any number of times.
ExactInv ==
  /\ _nregistered = Cardinality(Registered)
  /\ _table = N!NoTable => Registered = {} /\ _nunregistered = 0
  /\ _table # N!NoTable =>
       /\ Searchable(tables[_table]) /\ HasRoom(tables[_table])
       /\ Holds(tables[_table]) = Registered
       /\ Cardinality(DOMAIN tables[_table]) \in Sizes
       /\ Cardinality(Filled(tables[_table])) = _nregistered + _nunregistered
       /\ Cardinality(Tombs(tables[_table])) = _nunregistered

Iterates(it) == IF it = "primary" THEN old = "unlinking" ELSE joined
InRange(w) == workers[w].at \in {"read", "visit", "unregister", "unlink"}

\* Deletion is deferred while somebody iterates, so the table an iteration reads
\* is there, and its workers are within what they have claimed of it.
IterationsInv ==
  /\ _deferred.count = (IF old = "unlinking" THEN 1 ELSE 0) + (IF joined THEN 1 ELSE 0)
  /\ _deferred.count = 0 => _deferred.array = {}
  /\ \A it \in Kinds :
       /\ ~Iterates(it) => iterations[it].table = N!NoTable
                           /\ \A w \in N!WorkersOf(it) : workers[w].at = "idle"
       /\ IF iterations[it].table = N!NoTable THEN iterations[it].size = 0
          ELSE /\ iterations[it].table \in InUse
               /\ DOMAIN tables[iterations[it].table] = 0 .. (iterations[it].size - 1)
       /\ \A w \in N!WorkersOf(it) : InRange(w) =>
            /\ workers[w].i < workers[w].end
            /\ workers[w].end <= iterations[it].size
            /\ workers[w].end <= iterations[it].claimed
  /\ \A w \in DOMAIN workers :
       workers[w].method = N!Nobody <=> workers[w].at \in {"idle", "claim", "read"}
  /\ \A w \in Markers : workers[w].at \notin {"unregister", "unlink"}

\* Workers of the unlinking have claimed different entries, with different
\* methods.
RangesInv ==
  \A v, w \in Unlinkers : v # w =>
    /\ InRange(v) /\ InRange(w) =>
         workers[v].end <= workers[w].i \/ workers[w].end <= workers[v].i
    /\ workers[v].method # N!Nobody => workers[v].method # workers[w].method

\* A remapping iteration holds up the end of the old collection; a handshake
\* is waited for before anything is purged.
PhaseInv ==
  /\ joined => roots # "nobody"
  /\ roots = "remap" => joined /\ old = "purged"
  /\ unshaken # {} => old = "handshake"

\* Who has a dead oop remains armed and is unlinked before the handshake; a
\* method between unregistering and unlinking is in the hands of a worker.
DeadInv ==
  /\ dead \subseteq armed /\ armed \subseteq N!Present
  /\ old \in {"purged", "idle", "marking"} =>
       dead = {} /\ \A n \in NMethods : status[n] # "unlinked"
  /\ old \in {"handshake", "purge"} => \A n \in dead : status[n] = "unlinked"
  /\ \A n \in NMethods : status[n] = "unregistered" =>
       n \in dead /\ \E w \in Unlinkers : workers[w].at = "unlink" /\ workers[w].method = n

\* What a worker has yet to do in what it has claimed; the entries nobody has
\* dealt with yet.
Todo(w, i) ==
  /\ InRange(w) /\ i < workers[w].end
  /\ IF workers[w].at = "unlink" THEN workers[w].i < i ELSE workers[w].i <= i
Pending ==
  {i \in 0 .. (iterations["primary"].size - 1) :
     i >= iterations["primary"].claimed \/ \E w \in Unlinkers : Todo(w, i)}
Entry(i) == tables[iterations["primary"].table][i]

\* While unlinking: entries nobody has dealt with yet show their method, if it
\* has a dead oop, and every method with one that is still registered is there.
UnlinkInv ==
  old = "unlinking" =>
    /\ \A i \in Pending : Entry(i) \in dead => status[Entry(i)] = "registered"
    /\ ~_failed => \A n \in dead : status[n] = "registered" => \E i \in Pending : Entry(i) = n
    /\ \A w \in Unlinkers :
         /\ workers[w].at = "idle" => iterations["primary"].claimed >= iterations["primary"].size
         /\ workers[w].at \in {"visit", "unregister"} => Entry(workers[w].i) = workers[w].method
         /\ workers[w].at \in {"unregister", "unlink"} => workers[w].method \in dead
         /\ workers[w].at = "unlink" => status[workers[w].method] = "unregistered"

\* Not freed, and not about to be: purging frees what has been unlinked.
Kept(n) == status[n] # "free" /\ (old = "purge" => status[n] # "unlinked")

\* Tables being read, workers and mutators see methods that are kept; who has
\* been through the handshake sees none that has been unlinked.
SeenInv ==
  /\ \A it \in Kinds : iterations[it].table # N!NoTable =>
       \A n \in Holds(tables[iterations[it].table]) : Kept(n)
  /\ \A w \in DOMAIN workers : workers[w].method # N!Nobody => Kept(workers[w].method)
  /\ \A m \in Mutators : calling[m] # N!Nobody =>
       /\ Kept(calling[m])
       /\ old = "handshake" /\ m \notin unshaken => status[calling[m]] # "unlinked"

MethodsInv ==
  /\ MethodsTypeOK /\ TablesInv /\ ExactInv /\ IterationsInv /\ RangesInv
  /\ PhaseInv /\ DeadInv /\ UnlinkInv /\ SeenInv

-----------------------------------------------------------------------------
LEMMA ModRange ==
  ASSUME NEW s \in Nat \ {0}, NEW a \in Int
  PROVE  a % s \in 0 .. s - 1
OBVIOUS

\* Of fewer than s consecutive numbers no two are the same modulo s.
LEMMA ModInjective ==
  ASSUME NEW s \in Nat \ {0}, NEW a \in Int, NEW b \in Int, a % s = b % s,
         a - b < s, b - a < s
  PROVE  a = b
<1> DEFINE q == a \div s
           p == b \div s
<1>1. a = s * q + (a % s) /\ b = s * p + (b % s) /\ q \in Int /\ p \in Int
  OBVIOUS
<1> HIDE DEF q, p
<1>2. a - b = s * (q - p)
  BY <1>1
<1> DEFINE d == q - p
<1>3. d \in Int /\ a - b = s * d
  BY <1>1, <1>2
<1> HIDE DEF d
<1>4. CASE d = 0
  BY <1>3, <1>4
<1>5. CASE d >= 1
  <2>1. s * d >= s
    BY <1>3, <1>5
  <2> QED BY <2>1, <1>3
<1>6. CASE d <= -1
  <2>1. s * d <= -s
    BY <1>3, <1>6
  <2> QED BY <2>1, <1>3
<1> QED BY <1>3, <1>4, <1>5, <1>6

-----------------------------------------------------------------------------
\* Tables of a size, and the way of a method through one.
IsTableOf(T, s) == s \in Nat \ {0} /\ T \in [0 .. (s - 1) -> Entries]

LEMMA TableSize ==
  ASSUME NEW T, NEW s, IsTableOf(T, s)
  PROVE  Cardinality(DOMAIN T) = s /\ IsFiniteSet(DOMAIN T) /\ DOMAIN T = 0 .. (s - 1)
<1>1. DOMAIN T = 0 .. (s - 1) /\ 0 \in Int /\ s - 1 \in Int /\ ~(0 > s - 1) /\ (s - 1) - 0 + 1 = s
  BY DEF IsTableOf
<1> QED BY <1>1, FS_Interval

LEMMA TableOf ==
  ASSUME NEW T, IsTable(T)
  PROVE  IsTableOf(T, Cardinality(DOMAIN T)) /\ T # N!Deleted
<1>1. PICK s \in Nat \ {0} : T \in [0 .. (s - 1) -> Entries]
  BY DEF IsTable
<1>2. IsTableOf(T, s)
  BY <1>1 DEF IsTableOf
<1>3. 0 \in DOMAIN T
  BY <1>1
<1>4. DOMAIN N!Deleted = {}
  BY DEF N!Deleted
<1> QED BY <1>2, <1>3, <1>4, TableSize

\* Linear probing reaches each index of a table once.
LEMMA DistanceIs ==
  ASSUME N!MethodsAssumption, NEW T, NEW s, IsTableOf(T, s), NEW n \in NMethods
  PROVE  /\ \A i \in DOMAIN T : N!Distance(T, n, i) \in Nat
         /\ \A i, j \in DOMAIN T : N!Distance(T, n, i) = N!Distance(T, n, j) => i = j
<1>1. Cardinality(DOMAIN T) = s /\ DOMAIN T = 0 .. (s - 1) /\ s \in Nat \ {0}
  BY TableSize DEF IsTableOf
<1>2. Hash[n] \in Nat
  BY DEF N!MethodsAssumption
<1>3. \A i : N!Distance(T, n, i) = (i - Hash[n]) % s
  BY <1>1, SameCardinality DEF N!Distance
<1>4. \A i \in DOMAIN T : N!Distance(T, n, i) \in Nat
  <2> TAKE i \in DOMAIN T
  <2>1. i - Hash[n] \in Int
    BY <1>1, <1>2
  <2>2. (i - Hash[n]) % s \in 0 .. s - 1
    BY <2>1, <1>1, ModRange
  <2>3. (i - Hash[n]) % s \in Nat
    BY <2>2, <1>1
  <2> QED BY <2>3, <1>3
<1>5. ASSUME NEW i \in DOMAIN T, NEW j \in DOMAIN T, N!Distance(T, n, i) = N!Distance(T, n, j)
      PROVE  i = j
  <2> DEFINE a == i - Hash[n]
             b == j - Hash[n]
  <2>1. a \in Int /\ b \in Int /\ a - b < s /\ b - a < s
    BY <1>1, <1>2
  <2>2. a % s = b % s
    BY <1>3, <1>5
  <2> HIDE DEF a, b
  <2>3. a = b
    BY <2>1, <2>2, <1>1, ModInjective
  <2> QED BY <2>3, <1>1, <1>2 DEF a, b
<1> QED BY <1>4, <1>5

\* The search for an entry finds the nearest, if there is any.
LEMMA FirstIs ==
  ASSUME N!MethodsAssumption, NEW T, NEW s, IsTableOf(T, s), NEW n \in NMethods,
         NEW E, \E i \in DOMAIN T : T[i] \in E
  PROVE  /\ N!FirstWith(T, n, E) \in DOMAIN T
         /\ T[N!FirstWith(T, n, E)] \in E
         /\ \A j \in DOMAIN T :
              T[j] \in E => N!Distance(T, n, N!FirstWith(T, n, E)) =< N!Distance(T, n, j)
<1> DEFINE D == {N!Distance(T, n, i) : i \in {j \in DOMAIN T : T[j] \in E}}
<1>1. D \subseteq Nat
  <2> SUFFICES ASSUME NEW i \in DOMAIN T PROVE N!Distance(T, n, i) \in Nat
    OBVIOUS
  <2> QED BY DistanceIs
<1>2. D # {}
  OBVIOUS
<1>3. PICK x \in D : \A y \in D : x <= y
  <2> HIDE DEF D
  <2> QED BY <1>1, <1>2, LeastNumber
<1>4. PICK i \in DOMAIN T : T[i] \in E /\ x = N!Distance(T, n, i)
  OBVIOUS
<1>5. /\ T[i] \in E
      /\ \A j \in DOMAIN T : T[j] \in E => N!Distance(T, n, i) =< N!Distance(T, n, j)
  <2> SUFFICES ASSUME NEW j \in DOMAIN T, T[j] \in E
               PROVE  N!Distance(T, n, i) =< N!Distance(T, n, j)
    BY <1>4
  <2>1. N!Distance(T, n, j) \in D
    OBVIOUS
  <2> QED BY <2>1, <1>3, <1>4
<1> HIDE DEF D
<1> QED BY <1>5 DEF N!FirstWith

-----------------------------------------------------------------------------
\* What a table must be for a search in it to be right.
Sound(T) == Once(T) /\ Searchable(T)

\* Entries of one table that are not empty in another.
LEMMA SearchableSame ==
  ASSUME NEW T, NEW U, DOMAIN U = DOMAIN T
  PROVE  \A n, i : N!Distance(U, n, i) = N!Distance(T, n, i)
BY DEF N!Distance

\* A new method takes an empty entry: it is found, and so are all others.
LEMMA RegisterNew ==
  ASSUME N!MethodsAssumption, NEW T, NEW s, IsTableOf(T, s), Sound(T), HasRoom(T),
         NEW n \in NMethods, n \notin Holds(T)
  PROVE  \E k \in DOMAIN T :
           /\ T[k] = N!Empty
           /\ N!RegisterEntry(T, n) = [T EXCEPT ![k] = n]
           /\ IsTableOf(N!RegisterEntry(T, n), s) /\ Sound(N!RegisterEntry(T, n))
           /\ Holds(N!RegisterEntry(T, n)) = Holds(T) \cup {n}
           /\ Filled(N!RegisterEntry(T, n)) = Filled(T) \cup {k} /\ k \notin Filled(T)
           /\ Tombs(N!RegisterEntry(T, n)) = Tombs(T)
<1> DEFINE k == N!FirstWith(T, n, {N!Empty, n})
           U == [T EXCEPT ![k] = n]
<1>1. /\ k \in DOMAIN T /\ T[k] \in {N!Empty, n}
      /\ \A j \in DOMAIN T : T[j] \in {N!Empty, n} => N!Distance(T, n, k) =< N!Distance(T, n, j)
  BY FirstIs DEF HasRoom
<1>2. \A i \in DOMAIN T : T[i] # n
  BY DEF Holds
<1>3. N!RegisterEntry(T, n) = U
  BY DEF N!RegisterEntry
<1>4. n # N!Empty /\ n # N!Unregistered /\ n \in Entries
  BY DEF N!MethodsAssumption, N!Empty, N!Unregistered, Entries
<1> HIDE DEF k
<1>5. T[k] = N!Empty /\ k \in DOMAIN T
  BY <1>1, <1>2
<1>6. /\ DOMAIN U = DOMAIN T /\ U[k] = n
      /\ \A i \in DOMAIN T : i # k => U[i] = T[i]
  BY <1>5 DEF IsTableOf
<1>7. IsTableOf(U, s)
  BY <1>4, <1>5 DEF IsTableOf
<1> HIDE DEF U
<1>8. Once(U)
  BY <1>2, <1>6 DEF Sound, Once
<1>9. Searchable(U)
  <2> SUFFICES ASSUME NEW i \in DOMAIN U, NEW j \in DOMAIN U, U[i] \in NMethods,
                      N!Distance(U, U[i], j) < N!Distance(U, U[i], i)
               PROVE  U[j] # N!Empty
    BY DEF Searchable
  <2>1. \A m, l : N!Distance(U, m, l) = N!Distance(T, m, l)
    BY <1>6, SearchableSame
  <2>2. CASE j = k
    BY <2>2, <1>6, <1>4
  <2>3. CASE j # k /\ i = k
    <3>1. N!Distance(T, n, j) < N!Distance(T, n, k)
      BY <2>1, <2>3, <1>6
    <3>2. N!Distance(T, n, j) \in Nat /\ N!Distance(T, n, k) \in Nat
      BY <1>5, <1>6, DistanceIs
    <3>3. T[j] # N!Empty
      BY <3>1, <3>2, <1>1, <1>6
    <3> QED BY <3>3, <2>3, <1>6
  <2>4. CASE j # k /\ i # k
    BY <2>1, <2>4, <1>6 DEF Sound, Searchable
  <2> QED BY <2>2, <2>3, <2>4
<1>10. Holds(U) = Holds(T) \cup {n}
  <2>1. ASSUME NEW x \in Holds(U) PROVE x \in Holds(T) \cup {n}
    BY <1>6, <2>1 DEF Holds
  <2>2. ASSUME NEW x \in Holds(T) PROVE x \in Holds(U)
    <3>1. PICK i \in DOMAIN T : x = T[i] /\ x \in NMethods
      BY <2>2 DEF Holds
    <3>2. N!Empty \notin NMethods
      BY DEF N!MethodsAssumption, N!Empty
    <3>3. i # k
      BY <3>1, <3>2, <1>5
    <3> QED BY <3>1, <3>3, <1>6 DEF Holds
  <2>3. n \in Holds(U)
    BY <1>5, <1>6 DEF Holds
  <2> QED BY <2>1, <2>2, <2>3
<1>11. Filled(U) = Filled(T) \cup {k} /\ k \notin Filled(T)
  BY <1>4, <1>5, <1>6 DEF Filled
<1>12. Tombs(U) = Tombs(T)
  <2>1. N!Empty # N!Unregistered
    BY DEF N!Empty, N!Unregistered
  <2> QED BY <2>1, <1>4, <1>5, <1>6 DEF Tombs
<1> QED BY <1>3, <1>5, <1>7, <1>8, <1>9, <1>10, <1>11, <1>12 DEF Sound, U

\* A method that is there is registered where it is.
LEMMA RegisterOld ==
  ASSUME N!MethodsAssumption, NEW T, NEW s, IsTableOf(T, s), Sound(T),
         NEW n \in NMethods, n \in Holds(T)
  PROVE  N!RegisterEntry(T, n) = T
<1> DEFINE k == N!FirstWith(T, n, {N!Empty, n})
<1>1. PICK i \in DOMAIN T : T[i] = n
  BY DEF Holds
<1>2. /\ k \in DOMAIN T /\ T[k] \in {N!Empty, n}
      /\ \A j \in DOMAIN T : T[j] \in {N!Empty, n} => N!Distance(T, n, k) =< N!Distance(T, n, j)
  BY <1>1, FirstIs
<1>3. N!RegisterEntry(T, n) = [T EXCEPT ![k] = n]
  BY DEF N!RegisterEntry
<1> HIDE DEF k
<1>4. T[k] = n
  <2> SUFFICES ASSUME T[k] = N!Empty PROVE FALSE
    BY <1>2
  <2>1. k # i
    BY <1>1 DEF N!MethodsAssumption, N!Empty
  <2>2. N!Distance(T, n, k) \in Nat /\ N!Distance(T, n, i) \in Nat
        /\ N!Distance(T, n, k) # N!Distance(T, n, i) /\ N!Distance(T, n, k) =< N!Distance(T, n, i)
    BY <2>1, <1>1, <1>2, DistanceIs
  <2>3. N!Distance(T, T[i], k) < N!Distance(T, T[i], i)
    BY <2>2, <1>1
  <2> QED BY <2>3, <1>1, <1>2 DEF Sound, Searchable
<1> QED BY <1>2, <1>3, <1>4 DEF IsTableOf

\* An unregistered method leaves a tombstone, which ends no search.
LEMMA UnregisterOld ==
  ASSUME N!MethodsAssumption, NEW T, NEW s, IsTableOf(T, s), Sound(T), HasRoom(T),
         NEW n \in NMethods, n \in Holds(T)
  PROVE  \E k \in DOMAIN T :
           /\ T[k] = n
           /\ N!UnregisterEntry(T, n) = [T EXCEPT ![k] = N!Unregistered]
           /\ IsTableOf(N!UnregisterEntry(T, n), s) /\ Sound(N!UnregisterEntry(T, n))
           /\ HasRoom(N!UnregisterEntry(T, n))
           /\ Holds(N!UnregisterEntry(T, n)) = Holds(T) \ {n}
           /\ Filled(N!UnregisterEntry(T, n)) = Filled(T)
           /\ Tombs(N!UnregisterEntry(T, n)) = Tombs(T) \cup {k} /\ k \notin Tombs(T)
<1> DEFINE k == N!FirstWith(T, n, {n})
           U == [T EXCEPT ![k] = N!Unregistered]
<1>1. k \in DOMAIN T /\ T[k] \in {n}
  <2>1. \E i \in DOMAIN T : T[i] \in {n}
    BY DEF Holds
  <2> QED BY <2>1, FirstIs
<1>2. N!UnregisterEntry(T, n) = U
  BY DEF N!UnregisterEntry
<1>3. /\ n # N!Empty /\ n # N!Unregistered /\ N!Unregistered \in Entries /\ N!Unregistered \notin NMethods
      /\ N!Empty # N!Unregistered
  BY DEF N!MethodsAssumption, N!Empty, N!Unregistered, Entries
<1> HIDE DEF k
<1>4. T[k] = n /\ k \in DOMAIN T
  BY <1>1
<1>5. /\ DOMAIN U = DOMAIN T /\ U[k] = N!Unregistered
      /\ \A i \in DOMAIN T : i # k => U[i] = T[i]
  BY <1>4 DEF IsTableOf
<1>6. IsTableOf(U, s)
  BY <1>3, <1>4 DEF IsTableOf
<1> HIDE DEF U
<1>7. Once(U)
  BY <1>3, <1>5 DEF Sound, Once
<1>8. Searchable(U)
  <2> SUFFICES ASSUME NEW i \in DOMAIN U, NEW j \in DOMAIN U, U[i] \in NMethods,
                      N!Distance(U, U[i], j) < N!Distance(U, U[i], i)
               PROVE  U[j] # N!Empty
    BY DEF Searchable
  <2>1. \A m, l : N!Distance(U, m, l) = N!Distance(T, m, l)
    BY <1>5, SearchableSame
  <2>2. i # k
    BY <1>3, <1>5
  <2>3. T[j] # N!Empty
    BY <2>1, <2>2, <1>5 DEF Sound, Searchable
  <2> QED BY <2>3, <1>3, <1>5
<1>9. HasRoom(U)
  BY <1>3, <1>4, <1>5 DEF HasRoom
<1>10. Holds(U) = Holds(T) \ {n}
  <2>1. ASSUME NEW x \in Holds(U) PROVE x \in Holds(T) \ {n}
    <3>1. PICK i \in DOMAIN U : x = U[i] /\ x \in NMethods
      BY <2>1 DEF Holds
    <3>2. i # k
      BY <3>1, <1>3, <1>5
    <3>3. x = T[i] /\ i \in DOMAIN T /\ x # n
      BY <3>1, <3>2, <1>4, <1>5 DEF Sound, Once
    <3> QED BY <3>1, <3>3 DEF Holds
  <2>2. ASSUME NEW x \in Holds(T) \ {n} PROVE x \in Holds(U)
    <3>1. PICK i \in DOMAIN T : x = T[i] /\ x \in NMethods
      BY <2>2 DEF Holds
    <3>2. i # k
      BY <3>1, <2>2, <1>4
    <3> QED BY <3>1, <3>2, <1>5 DEF Holds
  <2> QED BY <2>1, <2>2
<1>11. Filled(U) = Filled(T)
  BY <1>3, <1>4, <1>5 DEF Filled
<1>12. Tombs(U) = Tombs(T) \cup {k} /\ k \notin Tombs(T)
  BY <1>3, <1>4, <1>5 DEF Tombs
<1> QED BY <1>2, <1>4, <1>6, <1>7, <1>8, <1>9, <1>10, <1>11, <1>12 DEF Sound, U

-----------------------------------------------------------------------------
\* Sizes.
LEMMA SizesAre ==
  ASSUME N!MethodsAssumption
  PROVE  /\ MinTableSize \in Sizes
         /\ \A s \in Sizes : s \in Nat /\ s >= 4 /\ 2 * s \in Sizes
         /\ \A s \in Sizes : s # MinTableSize => \E t \in Sizes : s = 2 * t
<1>1. MinTableSize \in Nat /\ MinTableSize >= 4
  BY DEF N!MethodsAssumption
<1>2. MinTableSize \in Sizes
  BY <1>1 DEF Sizes
<1>3. \A s \in Sizes : s \in Nat /\ 2 * s \in Sizes
  BY DEF Sizes
<1>4. ASSUME NEW s \in Sizes PROVE s >= 4
  <2> DEFINE X == {x \in Nat : x >= 4}
  <2>1. MinTableSize \in X /\ X \in SUBSET Nat /\ \A x \in X : 2 * x \in X
    BY <1>1
  <2>2. s \in X
    BY <2>1, <1>4 DEF Sizes
  <2> QED BY <2>2
<1>5. ASSUME NEW s \in Sizes, s # MinTableSize PROVE \E t \in Sizes : s = 2 * t
  <2> DEFINE X == {x \in Sizes : x = MinTableSize \/ \E t \in Sizes : x = 2 * t}
  <2>1. X \in SUBSET Nat /\ MinTableSize \in X
    BY <1>2, <1>3
  <2>2. \A x \in X : 2 * x \in X
    BY <1>3
  <2>3. s \in X
    <3> HIDE DEF X
    <3> QED BY <2>1, <2>2, <1>5 DEF Sizes
  <2> QED BY <2>3, <1>5
<1> QED BY <1>2, <1>3, <1>4, <1>5

\* There are places for one method more in what a registration adds to.
LEMMA NewSizeFits ==
  ASSUME N!MethodsAssumption, N!RebuildIsNeeded, _nregistered \in Nat, _nunregistered \in Nat,
         IF N!Size = 0 THEN _nregistered = 0 ELSE N!Size \in Sizes /\ _nregistered < N!Size
  PROVE  N!NewSize \in Sizes /\ _nregistered + 1 < N!NewSize
<1>1. CASE N!Size = 0
  BY <1>1, SizesAre DEF N!NewSize
<1>2. CASE N!Size # 0 /\ N!Shrinks
  <2>1. N!Size \in Nat /\ N!Size # MinTableSize /\ N!Size \in Sizes
    BY <1>2, SizesAre DEF N!Shrinks, N!MethodsAssumption
  <2>2. PICK t \in Sizes : N!Size = 2 * t
    BY <2>1, SizesAre
  <2>3. t \in Nat /\ t >= 4
    BY SizesAre
  <2>4. N!Size \div 2 = t
    BY <2>2, <2>3
  <2>5. N!NewSize = t
    BY <1>2, <2>4 DEF N!NewSize
  <2>6. _nregistered < (N!Size * 30) \div 100
    BY <1>2 DEF N!Shrinks
  <2>7. _nregistered + 1 < t
    BY <2>2, <2>3, <2>6
  <2> QED BY <2>5, <2>7
<1>3. CASE N!Size # 0 /\ ~N!Shrinks /\ _nregistered < (N!Size * 65) \div 100
  <2>1. N!NewSize = N!Size
    BY <1>3 DEF N!NewSize
  <2>2. N!Size \in Nat /\ N!Size \in Sizes
    BY <1>3, SizesAre
  <2>3. _nregistered + 1 < N!Size
    BY <1>3, <2>2
  <2> QED BY <2>1, <2>2, <2>3
<1>4. CASE N!Size # 0 /\ ~N!Shrinks /\ ~(_nregistered < (N!Size * 65) \div 100)
  <2>1. N!NewSize = N!Size * 2
    BY <1>4 DEF N!NewSize
  <2>2. N!Size \in Nat /\ N!Size \in Sizes /\ 2 * N!Size \in Sizes /\ N!Size >= 4
    BY <1>4, SizesAre
  <2>3. _nregistered + 1 < N!Size * 2 /\ N!Size * 2 = 2 * N!Size
    BY <1>4, <2>2
  <2> QED BY <2>1, <2>2, <2>3
<1> QED BY <1>1, <1>2, <1>3, <1>4

LEMMA OldSizeFits ==
  ASSUME N!MethodsAssumption, ~N!RebuildIsNeeded, _nregistered \in Nat, _nunregistered \in Nat,
         N!Size # 0 => N!Size \in Sizes
  PROVE  N!Size # 0 /\ _nregistered + _nunregistered + 1 < N!Size
<1>1. N!Size # 0 /\ ~(_nregistered + _nunregistered > (N!Size * 70) \div 100)
  BY DEF N!RebuildIsNeeded, N!IsCrowded
<1>2. N!Size \in Nat /\ N!Size >= 4
  BY <1>1, SizesAre
<1>3. (N!Size * 70) \div 100 + 1 < N!Size
  BY <1>2
<1>4. (N!Size * 70) \div 100 \in Nat
  BY <1>2
<1>5. _nregistered + _nunregistered =< (N!Size * 70) \div 100
  BY <1>1, <1>4
<1> QED BY <1>1, <1>2, <1>3, <1>4, <1>5

-----------------------------------------------------------------------------
\* rebuild() moves the methods one after the other.
Move(T, x) == IF x \in NMethods THEN N!RegisterEntry(T, x) ELSE T

Moving(g, m, size) ==
  g = [i \in 0 .. m |-> IF i = 0 THEN N!EmptyTable(size)
                        ELSE Move(g[i - 1], tables[_table][i - 1])]

LEMMA MovingExists ==
  ASSUME NEW m \in Nat, NEW size
  PROVE  \E g : Moving(g, m, size)
<1> DEFINE X == {l \in Nat : ~\E g : Moving(g, l, size)}
<1> SUFFICES ASSUME X # {} PROVE FALSE
  OBVIOUS
<1>1. PICK l \in X : \A y \in X : l <= y
  <2>1. X \subseteq Nat
    OBVIOUS
  <2> HIDE DEF X
  <2> QED BY <2>1, LeastNumber
<1>2. l \in Nat /\ ~\E g : Moving(g, l, size)
  OBVIOUS
<1>3. CASE l = 0
  <2> DEFINE g == [i \in 0 .. 0 |-> N!EmptyTable(size)]
  <2>1. g = [i \in 0 .. 0 |-> IF i = 0 THEN N!EmptyTable(size)
                              ELSE Move(g[i - 1], tables[_table][i - 1])]
    OBVIOUS
  <2> HIDE DEF g
  <2>2. Moving(g, 0, size)
    BY <2>1 DEF Moving
  <2> QED BY <2>2, <1>2, <1>3
<1>4. CASE l # 0
  <2>1. l - 1 \in Nat /\ l - 1 < l
    BY <1>2, <1>4
  <2>2. l - 1 \notin X
    BY <2>1, <1>1, <1>2
  <2>3. PICK g : Moving(g, l - 1, size)
    BY <2>1, <2>2
  <2> DEFINE h == [i \in 0 .. l |-> IF i < l THEN g[i] ELSE Move(g[l - 1], tables[_table][l - 1])]
  <2>4. \A i \in 0 .. l - 1 :
          g[i] = IF i = 0 THEN N!EmptyTable(size) ELSE Move(g[i - 1], tables[_table][i - 1])
    BY <2>3 DEF Moving
  <2>5. \A i \in 0 .. l - 1 : h[i] = g[i]
    BY <1>2
  <2>6. h[l] = Move(h[l - 1], tables[_table][l - 1])
    BY <2>1, <2>5, <1>2
  <2>7. ASSUME NEW i \in 0 .. l
        PROVE  h[i] = IF i = 0 THEN N!EmptyTable(size) ELSE Move(h[i - 1], tables[_table][i - 1])
    <3> HIDE DEF h
    <3>1. CASE i = l
      BY <3>1, <2>6, <1>4
    <3>2. CASE i # l /\ i # 0
      <4>1. i \in 0 .. l - 1 /\ i - 1 \in 0 .. l - 1
        BY <3>2, <1>2
      <4>2. h[i] = g[i] /\ h[i - 1] = g[i - 1]
        BY <4>1, <2>5
      <4> QED BY <4>1, <4>2, <2>4, <3>2
    <3>3. CASE i # l /\ i = 0
      <4>1. i \in 0 .. l - 1
        BY <3>3, <1>2
      <4> QED BY <4>1, <2>4, <2>5, <3>3
    <3> QED BY <3>1, <3>2, <3>3
  <2>8. h = [i \in 0 .. l |-> h[i]]
    OBVIOUS
  <2> HIDE DEF h
  <2>9. Moving(h, l, size)
    BY <2>7, <2>8 DEF Moving
  <2> QED BY <2>9, <1>2
<1> QED BY <1>3, <1>4

\* The table that rebuilding makes, one method after the other.
LEMMA RebuiltIs ==
  ASSUME N!Size \in Nat, NEW size
  PROVE  \E g : Moving(g, N!Size, size) /\ N!Rebuilt(size) = g[N!Size]
<1> DEFINE g == CHOOSE moved : moved =
                  [i \in 0..N!Size |->
                     IF i = 0 THEN N!EmptyTable(size)
                     ELSE IF tables[_table][i - 1] \in NMethods
                     THEN N!RegisterEntry(moved[i - 1], tables[_table][i - 1])
                     ELSE moved[i - 1]]
<1>1. N!Rebuilt(size) = g[N!Size]
  BY DEF N!Rebuilt
<1>2. g = CHOOSE moved : Moving(moved, N!Size, size)
  BY Zenon DEF Moving, Move
<1> HIDE DEF g
<1>3. Moving(g, N!Size, size)
  BY <1>2, MovingExists
<1> QED BY <1>1, <1>3

\* A table with fewer filled entries than entries has an empty one.
LEMMA RoomByCount ==
  ASSUME NEW T, NEW s, IsTableOf(T, s)
  PROVE  /\ HasRoom(T) <=> Cardinality(Filled(T)) < s
         /\ IsFiniteSet(Filled(T)) /\ IsFiniteSet(Tombs(T))
         /\ Cardinality(Filled(T)) \in Nat
<1>1. Cardinality(DOMAIN T) = s /\ IsFiniteSet(DOMAIN T) /\ s \in Nat
  BY TableSize DEF IsTableOf
<1>2. Filled(T) \in SUBSET DOMAIN T /\ Tombs(T) \in SUBSET DOMAIN T
  BY DEF Filled, Tombs
<1>3. /\ IsFiniteSet(Filled(T)) /\ IsFiniteSet(Tombs(T)) /\ Cardinality(Filled(T)) <= s
      /\ Cardinality(Filled(T)) = s => Filled(T) = DOMAIN T
  BY <1>1, <1>2, FS_Subset
<1>4. Cardinality(Filled(T)) \in Nat
  BY <1>3, FS_CardinalityType
<1>5. HasRoom(T) <=> Filled(T) # DOMAIN T
  BY DEF HasRoom, Filled
<1> QED BY <1>1, <1>3, <1>4, <1>5

\* What a table that has been rebuilt so far is to be.
Moved(T, size, R) ==
  /\ IsTableOf(T, size) /\ Sound(T)
  /\ Holds(T) = R
  /\ Tombs(T) = {}
  /\ Cardinality(Filled(T)) = Cardinality(R)

LEMMA EmptyTableIs ==
  ASSUME N!MethodsAssumption, NEW size \in Nat \ {0}
  PROVE  Moved(N!EmptyTable(size), size, {})
<1> DEFINE T == N!EmptyTable(size)
<1>1. IsTableOf(T, size) /\ \A i \in DOMAIN T : T[i] = N!Empty
  BY DEF N!EmptyTable, IsTableOf, Entries
<1>2. N!Empty \notin NMethods /\ N!Empty # N!Unregistered
  BY DEF N!MethodsAssumption, N!Empty, N!Unregistered
<1> HIDE DEF T
<1>3. Sound(T)
  BY <1>1, <1>2 DEF Sound, Once, Searchable
<1>4. Holds(T) = {} /\ Filled(T) = {} /\ Tombs(T) = {}
  BY <1>1, <1>2 DEF Holds, Filled, Tombs
<1> QED BY <1>1, <1>3, <1>4 DEF Moved, T

LEMMA MoveStep ==
  ASSUME N!MethodsAssumption, NEW T, NEW size, NEW R, Moved(T, size, R),
         IsFiniteSet(R), NEW x, x \in NMethods \ R => Cardinality(R) < size
  PROVE  Moved(Move(T, x), size, R \cup ({x} \cap NMethods))
<1>1. CASE x \notin NMethods
  BY <1>1 DEF Move, Moved
<1>2. CASE x \in R
  <2>1. x \in NMethods /\ x \in Holds(T)
    BY <1>2 DEF Moved, Holds
  <2>2. Move(T, x) = T
    BY <2>1, RegisterOld DEF Move, Moved
  <2>3. R \cup ({x} \cap NMethods) = R
    BY <1>2
  <2> QED BY <2>2, <2>3
<1>3. CASE x \in NMethods \ R
  <2>1. HasRoom(T)
    BY <1>3, RoomByCount DEF Moved
  <2>2. x \notin Holds(T) /\ Move(T, x) = N!RegisterEntry(T, x)
    BY <1>3 DEF Moved, Move
  <2> DEFINE U == N!RegisterEntry(T, x)
  <2>3. PICK k \in DOMAIN T :
          /\ IsTableOf(U, size) /\ Sound(U)
          /\ Holds(U) = Holds(T) \cup {x}
          /\ Filled(U) = Filled(T) \cup {k} /\ k \notin Filled(T)
          /\ Tombs(U) = Tombs(T)
    BY <1>3, <2>1, <2>2, RegisterNew DEF Moved
  <2> HIDE DEF U
  <2>4. Cardinality(Filled(U)) = Cardinality(Filled(T)) + 1
    <3>1. IsTableOf(T, size)
      BY DEF Moved
    <3>2. IsFiniteSet(Filled(T))
      BY <3>1, RoomByCount
    <3>3. Filled(U) = Filled(T) \cup {k} /\ k \notin Filled(T)
      BY <2>3
    <3>4. Cardinality(Filled(T) \cup {k}) = Cardinality(Filled(T)) + 1
      BY <3>2, <3>3, FS_AddElement
    <3> QED BY <3>3, <3>4
  <2>5. Cardinality(R \cup {x}) = Cardinality(R) + 1
    BY <1>3, FS_AddElement
  <2>6. Moved(U, size, R \cup {x})
    <3>1. Holds(U) = R \cup {x} /\ Tombs(U) = {}
      BY <2>3 DEF Moved
    <3>2. Cardinality(Filled(U)) = Cardinality(R \cup {x})
      BY <2>4, <2>5 DEF Moved
    <3> QED BY <2>3, <3>1, <3>2 DEF Moved
  <2>7. {x} \cap NMethods = {x}
    BY <1>3
  <2> QED BY <2>2, <2>6, <2>7 DEF U
<1> QED BY <1>1, <1>2, <1>3

\* Rebuilding keeps every method, and drops the tombstones.
LEMMA RebuiltKeeps ==
  ASSUME N!MethodsAssumption, N!Size \in Nat, NEW size \in Nat \ {0},
         Cardinality({tables[_table][i] : i \in 0 .. N!Size - 1} \cap NMethods) < size
  PROVE  Moved(N!Rebuilt(size), size, {tables[_table][i] : i \in 0 .. N!Size - 1} \cap NMethods)
<1> DEFINE To(k) == {tables[_table][i] : i \in 0 .. k - 1} \cap NMethods
<1>1. PICK g : Moving(g, N!Size, size) /\ N!Rebuilt(size) = g[N!Size]
  BY RebuiltIs
<1>2. \A i \in 0 .. N!Size :
        g[i] = IF i = 0 THEN N!EmptyTable(size) ELSE Move(g[i - 1], tables[_table][i - 1])
  BY <1>1 DEF Moving
<1> DEFINE X == {k \in Nat : k <= N!Size /\ ~Moved(g[k], size, To(k))}
<1>3. X = {}
  <2> SUFFICES ASSUME X # {} PROVE FALSE
    OBVIOUS
  <2>1. PICK k \in X : \A y \in X : k <= y
    <3>1. X \subseteq Nat
      OBVIOUS
    <3> HIDE DEF X
    <3> QED BY <3>1, LeastNumber
  <2>2. k \in Nat /\ k <= N!Size /\ ~Moved(g[k], size, To(k))
    OBVIOUS
  <2>3. k # 0
    <3> SUFFICES ASSUME k = 0 PROVE FALSE
      OBVIOUS
    <3>1. g[0] = N!EmptyTable(size)
      BY <1>2
    <3>2. To(0) = {}
      OBVIOUS
    <3> HIDE DEF To, X
    <3> QED BY <3>1, <3>2, <2>2, EmptyTableIs
  <2> DEFINE l == k - 1
             x == tables[_table][l]
  <2>4. l \in Nat /\ l < k /\ l <= N!Size /\ k \in 0 .. N!Size /\ l < N!Size
    BY <2>2, <2>3
  <2>5. l \notin X
    <3> SUFFICES ASSUME l \in X PROVE FALSE
      OBVIOUS
    <3>1. k <= l
      BY <2>1
    <3> QED BY <3>1, <2>4, <2>2
  <2>6. Moved(g[l], size, To(l))
    BY <2>4, <2>5
  <2>7. g[k] = Move(g[l], x)
    BY <1>2, <2>3, <2>4
  <2>8. To(k) = To(l) \cup ({x} \cap NMethods)
    <3>1. \A i : i \in 0 .. k - 1 <=> i \in 0 .. l - 1 \/ i = l
      BY <2>2, <2>3
    <3> QED BY <3>1
  <2>9. IsFiniteSet(To(l))
    BY FS_Subset, SameFinite DEF N!MethodsAssumption
  <2>10. Cardinality(To(l)) < size
    <3>1. To(l) \in SUBSET To(N!Size)
      BY <2>4
    <3>2. IsFiniteSet(To(N!Size))
      BY FS_Subset, SameFinite DEF N!MethodsAssumption
    <3> HIDE DEF To
    <3>3. Cardinality(To(l)) <= Cardinality(To(N!Size))
      BY <3>1, <3>2, FS_Subset
    <3>4. Cardinality(To(l)) \in Nat /\ Cardinality(To(N!Size)) \in Nat
      BY <2>9, <3>2, FS_CardinalityType
    <3>5. Cardinality(To(N!Size)) < size
      BY DEF To
    <3> QED BY <3>3, <3>4, <3>5
  <2> HIDE DEF l, x, To, X
  <2> QED BY <2>2, <2>6, <2>7, <2>8, <2>9, <2>10, MoveStep
<1>4. N!Size \notin X
  BY <1>3
<1> QED BY <1>1, <1>4

-----------------------------------------------------------------------------
\* Sizes of the table in use, and what a registration adds to.
LEMMA TableInUse ==
  ASSUME N!MethodsAssumption, MethodsInv
  PROVE  /\ N!Size \in Nat
         /\ IF _table = N!NoTable THEN N!Size = 0 ELSE N!Size \in Sizes
         /\ _table # N!NoTable =>
              /\ IsTableOf(tables[_table], N!Size) /\ Sound(tables[_table])
              /\ _table \in N!Tables /\ tables[_table] # N!Deleted
<1>1. CASE _table = N!NoTable
  BY <1>1, SameCardinality DEF N!Size
<1>2. CASE _table # N!NoTable
  <2>1. _table \in InUse
    BY <1>2 DEF MethodsInv, TablesInv
  <2>2. IsTable(tables[_table]) /\ tables[_table] # N!Deleted /\ _table \in N!Tables
    BY <2>1 DEF MethodsInv, MethodsTypeOK, InUse
  <2>3. N!Size = Cardinality(DOMAIN tables[_table])
    BY <1>2, SameCardinality DEF N!Size
  <2>4. N!Size \in Sizes
    BY <1>2, <2>3 DEF MethodsInv, ExactInv
  <2>5. IsTableOf(tables[_table], N!Size)
    BY <2>2, <2>3, TableOf
  <2>6. Sound(tables[_table])
    BY <1>2, <2>1 DEF MethodsInv, ExactInv, TablesInv, Sound
  <2> QED BY <1>2, <2>2, <2>4, <2>5, <2>6, SizesAre
<1> QED BY <1>1, <1>2

LEMMA RegisteredFinite ==
  ASSUME N!MethodsAssumption
  PROVE  IsFiniteSet(Registered) /\ Cardinality(Registered) \in Nat
<1>1. Registered \in SUBSET NMethods /\ IsFiniteSet(NMethods)
  BY SameFinite DEF Registered, N!MethodsAssumption
<1> QED BY <1>1, FS_Subset, FS_CardinalityType

Before == IF N!RebuildIsNeeded THEN N!Rebuilt(N!NewSize) ELSE tables[_table]

\* The table a registration adds to is sound, and has room for one more.
LEMMA BeforeIs ==
  ASSUME N!MethodsAssumption, MethodsInv
  PROVE  \E s \in Sizes :
           /\ IsTableOf(Before, s) /\ Sound(Before)
           /\ Holds(Before) = Registered
           /\ Cardinality(Filled(Before)) + 1 < s
           /\ Cardinality(Filled(Before)) =
                _nregistered + (IF N!RebuildIsNeeded THEN 0 ELSE _nunregistered)
           /\ Cardinality(Tombs(Before)) = IF N!RebuildIsNeeded THEN 0 ELSE _nunregistered
<1>1. /\ _nregistered \in Nat /\ _nunregistered \in Nat
      /\ _nregistered = Cardinality(Registered)
      /\ _table = N!NoTable => Registered = {} /\ _nunregistered = 0
  BY DEF MethodsInv, MethodsTypeOK, ExactInv
<1>2. _table # N!NoTable =>
        /\ HasRoom(tables[_table])
        /\ Holds(tables[_table]) = Registered
        /\ Cardinality(Filled(tables[_table])) = _nregistered + _nunregistered
        /\ Cardinality(Tombs(tables[_table])) = _nunregistered
  BY DEF MethodsInv, ExactInv
<1>3. CASE N!RebuildIsNeeded
  <2> DEFINE R == {tables[_table][i] : i \in 0 .. N!Size - 1} \cap NMethods
  <2>1. R = Registered
    <3>1. CASE _table = N!NoTable
      <4>1. N!Size = 0 /\ Registered = {}
        BY <3>1, <1>1, TableInUse
      <4> QED BY <4>1
    <3>2. CASE _table # N!NoTable
      <4>1. DOMAIN tables[_table] = 0 .. N!Size - 1
        BY <3>2, TableInUse, TableSize
      <4>2. Holds(tables[_table]) = R
        BY <4>1 DEF Holds
      <4> QED BY <4>2, <1>2, <3>2
    <3> QED BY <3>1, <3>2
  <2>2. IF N!Size = 0 THEN _nregistered = 0 ELSE N!Size \in Sizes /\ _nregistered < N!Size
    <3>1. CASE _table = N!NoTable
      BY <3>1, <1>1, TableInUse, FS_EmptySet
    <3>2. CASE _table # N!NoTable
      <4>1. N!Size \in Sizes /\ N!Size \in Nat /\ N!Size >= 4 /\ IsTableOf(tables[_table], N!Size)
        BY <3>2, TableInUse, SizesAre
      <4>2. Cardinality(Filled(tables[_table])) < N!Size
        BY <4>1, <1>2, <3>2, RoomByCount
      <4> QED BY <4>1, <4>2, <1>1, <1>2, <3>2
    <3> QED BY <3>1, <3>2
  <2>3. N!NewSize \in Sizes /\ _nregistered + 1 < N!NewSize
    BY <1>1, <1>3, <2>2, NewSizeFits
  <2>4. N!NewSize \in Nat \ {0} /\ Cardinality(Registered) < N!NewSize
    BY <2>3, <1>1, SizesAre
  <2>5. Moved(N!Rebuilt(N!NewSize), N!NewSize, R)
    BY <2>1, <2>4, TableInUse, RebuiltKeeps
  <2> HIDE DEF R
  <2>6. Before = N!Rebuilt(N!NewSize)
    BY <1>3 DEF Before
  <2>7. /\ IsTableOf(Before, N!NewSize) /\ Sound(Before) /\ Holds(Before) = Registered
        /\ Cardinality(Filled(Before)) = _nregistered /\ Cardinality(Tombs(Before)) = 0
    BY <1>1, <2>1, <2>5, <2>6, FS_EmptySet DEF Moved
  <2> QED BY <1>1, <1>3, <2>3, <2>7
<1>4. CASE ~N!RebuildIsNeeded
  <2>1. N!Size # 0 /\ _nregistered + _nunregistered + 1 < N!Size
    BY <1>1, <1>4, TableInUse, OldSizeFits
  <2>2. _table # N!NoTable
    BY <2>1, TableInUse
  <2>3. Before = tables[_table]
    BY <1>4 DEF Before
  <2> QED BY <1>2, <1>4, <2>1, <2>2, <2>3, TableInUse
<1> QED BY <1>3, <1>4

-----------------------------------------------------------------------------
\* Registrations.
Fresh == N!Min({t \in N!Tables : tables[t] = N!Deleted})

\* There is memory for a new table.
LEMMA FreshIs ==
  ASSUME N!MethodsAssumption, MethodsInv, registrations < MaxRegistrations
  PROVE  Fresh \in N!Tables /\ tables[Fresh] = N!Deleted
<1> DEFINE X == {t \in N!Tables : tables[t] = N!Deleted}
<1>1. MaxRegistrations \in Nat /\ registrations \in Nat
  BY DEF N!MethodsAssumption, MethodsInv, MethodsTypeOK
<1>2. X # {}
  <2> SUFFICES ASSUME X = {} PROVE FALSE
    OBVIOUS
  <2>1. InUse = 1 .. MaxRegistrations
    BY DEF InUse, N!Tables
  <2>2. Cardinality(InUse) = MaxRegistrations
    BY <1>1, <2>1, FS_Interval
  <2>3. Cardinality(InUse) <= registrations
    BY DEF MethodsInv, TablesInv
  <2> QED BY <1>1, <2>2, <2>3
<1>3. X \subseteq Nat
  BY <1>1 DEF N!Tables
<1>4. PICK x \in X : \A y \in X : x <= y
  <2> HIDE DEF X
  <2> QED BY <1>2, <1>3, LeastNumber
<1>5. Fresh \in X
  <2>1. Fresh = CHOOSE x1 \in X : \A y \in X : x1 =< y
    BY DEF Fresh, N!Min
  <2> HIDE DEF X
  <2> QED BY <2>1, <1>4
<1> QED BY <1>5

Id == IF N!RebuildIsNeeded THEN Fresh ELSE _table
Replaced == IF N!RebuildIsNeeded THEN {_table} \ {N!NoTable} ELSE {}

\* What a registration does to the tables.
LEMMA Registration ==
  ASSUME N!MethodsAssumption, MethodsInv, NEW n \in NMethods, N!RegisterNMethod(n)
  PROVE  /\ _table' = Id /\ Id \in N!Tables
         /\ IF N!RebuildIsNeeded THEN Id \notin InUse ELSE Id \in InUse
         /\ tables' = [t \in N!Tables |-> tables'[t]]
         /\ tables'[Id] = N!RegisterEntry(Before, n)
         /\ \A t \in N!Tables \ {Id} :
              tables'[t] = IF t \in Replaced /\ ~N!IsActivated THEN N!Deleted ELSE tables[t]
         /\ _deferred'.array = _deferred.array \cup (IF N!IsActivated THEN Replaced ELSE {})
         /\ _deferred'.count = _deferred.count
         /\ _deferred' \in [count : Nat, array : SUBSET N!Tables]
         /\ Registered' = Registered \cup {n}
         /\ _nregistered' = Cardinality(Registered')
         /\ _nunregistered' = IF N!RebuildIsNeeded THEN 0 ELSE _nunregistered
<1>1. registrations < MaxRegistrations
  BY DEF N!RegisterNMethod
<1>2. Fresh \in N!Tables /\ tables[Fresh] = N!Deleted
  BY <1>1, FreshIs
<1>3. /\ tables = [t \in N!Tables |-> tables[t]] /\ _deferred \in [count : Nat, array : SUBSET N!Tables]
      /\ status \in [NMethods -> {"free", "registered", "unregistered", "unlinked"}]
      /\ _nregistered = Cardinality(Registered)
  BY DEF MethodsInv, MethodsTypeOK, ExactInv
<1>4. Id \in N!Tables /\ IF N!RebuildIsNeeded THEN Id \notin InUse ELSE Id \in InUse
  <2>1. ~N!RebuildIsNeeded => _table # N!NoTable
    BY TableInUse DEF N!RebuildIsNeeded
  <2> QED BY <1>2, <2>1, TableInUse DEF Id, InUse
<1>5. /\ tables' = [N!ImmediateDelete(IF N!IsActivated THEN {} ELSE Replaced)
                      EXCEPT ![Id] = N!RegisterEntry(Before, n)]
      /\ _deferred' = IF N!IsActivated THEN [_deferred EXCEPT !.array = @ \cup Replaced]
                      ELSE _deferred
      /\ _table' = Id
      /\ _nunregistered' = IF N!RebuildIsNeeded THEN 0 ELSE _nunregistered
      /\ _nregistered' = IF \E i \in DOMAIN Before : Before[i] = n
                         THEN _nregistered ELSE _nregistered + 1
      /\ status' = [status EXCEPT ![n] = "registered"]
  BY Zenon DEF N!RegisterNMethod, Id, Before, Replaced, Fresh
<1>6. Replaced \subseteq N!Tables
  BY TableInUse DEF Replaced
<1>7. /\ tables' = [t \in N!Tables |-> tables'[t]]
      /\ tables'[Id] = N!RegisterEntry(Before, n)
      /\ \A t \in N!Tables \ {Id} :
           tables'[t] = IF t \in Replaced /\ ~N!IsActivated THEN N!Deleted ELSE tables[t]
  BY <1>4, <1>5 DEF N!ImmediateDelete
<1>8. /\ _deferred'.array = _deferred.array \cup (IF N!IsActivated THEN Replaced ELSE {})
      /\ _deferred'.count = _deferred.count
      /\ _deferred' \in [count : Nat, array : SUBSET N!Tables]
  BY <1>3, <1>5, <1>6
<1>9. Registered' = Registered \cup {n}
  BY <1>3, <1>5 DEF Registered
<1>10. _nregistered' = Cardinality(Registered')
  <2>1. Holds(Before) = Registered
    BY BeforeIs
  <2>2. (\E i \in DOMAIN Before : Before[i] = n) <=> n \in Registered
    BY <2>1 DEF Holds
  <2>3. Cardinality(Registered \cup {n}) =
          IF n \in Registered THEN Cardinality(Registered) ELSE Cardinality(Registered) + 1
    BY RegisteredFinite, FS_AddElement
  <2> QED BY <1>3, <1>5, <1>9, <2>2, <2>3
<1> QED BY <1>4, <1>5, <1>7, <1>8, <1>9, <1>10

LEMMA RegistrationTable ==
  ASSUME N!MethodsAssumption, MethodsInv, NEW n \in NMethods, N!RegisterNMethod(n)
  PROVE  LET U == N!RegisterEntry(Before, n)
         IN \E s \in Sizes :
              /\ IsTableOf(U, s) /\ Sound(U) /\ HasRoom(U)
              /\ Holds(U) = Registered'
              /\ Cardinality(Filled(U)) = _nregistered' + _nunregistered'
              /\ Cardinality(Tombs(U)) = _nunregistered'
              /\ DOMAIN U = DOMAIN Before
              /\ \A i \in DOMAIN U : U[i] = Before[i] \/ (Before[i] = N!Empty /\ U[i] = n)
<1> DEFINE U == N!RegisterEntry(Before, n)
<1>1. PICK s \in Sizes :
           /\ IsTableOf(Before, s) /\ Sound(Before)
           /\ Holds(Before) = Registered
           /\ Cardinality(Filled(Before)) + 1 < s
           /\ Cardinality(Filled(Before)) =
                _nregistered + (IF N!RebuildIsNeeded THEN 0 ELSE _nunregistered)
           /\ Cardinality(Tombs(Before)) = IF N!RebuildIsNeeded THEN 0 ELSE _nunregistered
  BY BeforeIs
<1>2. /\ Registered' = Registered \cup {n}
      /\ _nregistered' = Cardinality(Registered')
      /\ _nunregistered' = IF N!RebuildIsNeeded THEN 0 ELSE _nunregistered
  BY Registration
<1>3. /\ _nregistered = Cardinality(Registered)
      /\ _nregistered \in Nat /\ _nunregistered \in Nat
  BY DEF MethodsInv, MethodsTypeOK, ExactInv
<1>4. s \in Nat /\ Cardinality(Filled(Before)) \in Nat /\ HasRoom(Before)
      /\ IsFiniteSet(Filled(Before)) /\ Cardinality(Filled(Before)) < s
  <2>1. s \in Nat /\ Cardinality(Filled(Before)) \in Nat /\ IsFiniteSet(Filled(Before))
    BY <1>1, RoomByCount, SizesAre
  <2>2. Cardinality(Filled(Before)) < s
    BY <1>1, <2>1
  <2> QED BY <1>1, <2>1, <2>2, RoomByCount
<1>5. CASE n \in Registered
  <2>1. U = Before
    BY <1>1, <1>5, RegisterOld
  <2>2. Registered' = Registered
    BY <1>2, <1>5
  <2> QED BY <1>1, <1>2, <1>3, <1>4, <2>1, <2>2
<1>6. CASE n \notin Registered
  <2>1. PICK k \in DOMAIN Before :
           /\ Before[k] = N!Empty
           /\ U = [Before EXCEPT ![k] = n]
           /\ IsTableOf(U, s) /\ Sound(U)
           /\ Holds(U) = Holds(Before) \cup {n}
           /\ Filled(U) = Filled(Before) \cup {k} /\ k \notin Filled(Before)
           /\ Tombs(U) = Tombs(Before)
    BY <1>1, <1>4, <1>6, RegisterNew
  <2>2. /\ DOMAIN U = DOMAIN Before
        /\ \A i \in DOMAIN U : U[i] = Before[i] \/ (Before[i] = N!Empty /\ U[i] = n)
    BY <2>1 DEF IsTableOf
  <2> HIDE DEF U
  <2>3. Cardinality(Filled(U)) = Cardinality(Filled(Before)) + 1
    BY <2>1, <1>4, FS_AddElement
  <2>4. HasRoom(U)
    BY <2>1, <2>3, <1>1, RoomByCount
  <2>5. Cardinality(Registered') = Cardinality(Registered) + 1
    BY <1>2, <1>6, RegisteredFinite, FS_AddElement
  <2>6. Cardinality(Filled(U)) = _nregistered' + _nunregistered'
    BY <1>1, <1>2, <1>3, <2>3, <2>5
  <2>7. Cardinality(Tombs(U)) = _nunregistered' /\ Holds(U) = Registered'
    BY <1>1, <1>2, <2>1
  <2>8. IsTableOf(U, s) /\ Sound(U)
    BY <2>1
  <2> QED BY <2>2, <2>4, <2>6, <2>7, <2>8 DEF U
<1> QED BY <1>5, <1>6

\* What an iteration sees of a registration.
LEMMA RegistrationSeen ==
  ASSUME N!MethodsAssumption, MethodsInv, NEW n \in NMethods, N!RegisterNMethod(n), N!IsActivated,
         NEW t \in InUse
  PROVE  /\ t \in InUse'
         /\ DOMAIN tables'[t] = DOMAIN tables[t]
         /\ \A i \in DOMAIN tables[t] :
              tables'[t][i] = tables[t][i] \/ (tables[t][i] = N!Empty /\ tables'[t][i] = n)
<1>1. t \in N!Tables /\ tables[t] # N!Deleted
  BY DEF InUse
<1>2. CASE t # Id
  <2>1. tables'[t] = tables[t]
    BY <1>1, <1>2, Registration
  <2> QED BY <1>1, <2>1 DEF InUse, N!Tables
<1>3. CASE t = Id
  <2>1. ~N!RebuildIsNeeded
    BY <1>3, Registration
  <2>2. Before = tables[t] /\ t = _table
    BY <1>3, <2>1 DEF Before, Id
  <2>3. tables'[t] = N!RegisterEntry(Before, n)
    BY <1>3, Registration
  <2>4. PICK s \in Sizes :
          /\ IsTableOf(tables'[t], s)
          /\ DOMAIN tables'[t] = DOMAIN Before
          /\ \A i \in DOMAIN tables'[t] :
               tables'[t][i] = Before[i] \/ (Before[i] = N!Empty /\ tables'[t][i] = n)
    BY <2>3, RegistrationTable
  <2>5. tables'[t] # N!Deleted
    BY <2>4, TableOf DEF IsTableOf, IsTable
  <2> QED BY <1>1, <2>2, <2>4, <2>5 DEF InUse, N!Tables
<1> QED BY <1>2, <1>3

\* A table that is iterated over.
LEMMA IterationTable ==
  ASSUME MethodsInv, NEW it \in Kinds, iterations[it].table # N!NoTable
  PROVE  /\ Iterates(it) /\ N!IsActivated
         /\ iterations[it].table \in InUse
         /\ DOMAIN tables[iterations[it].table] = 0 .. (iterations[it].size - 1)
<1>1. Iterates(it) /\ iterations[it].table \in InUse
      /\ DOMAIN tables[iterations[it].table] = 0 .. (iterations[it].size - 1)
  BY DEF MethodsInv, IterationsInv
<1>2. _deferred.count = (IF old = "unlinking" THEN 1 ELSE 0) + (IF joined THEN 1 ELSE 0)
  BY DEF MethodsInv, IterationsInv
<1>3. old = "unlinking" \/ joined
  BY <1>1 DEF Iterates
<1> QED BY <1>1, <1>2, <1>3 DEF N!IsActivated

LEMMA PendingEntry ==
  ASSUME MethodsInv, NEW i \in Pending
  PROVE  /\ iterations["primary"].table # N!NoTable
         /\ i \in DOMAIN tables[iterations["primary"].table]
<1>1. "primary" \in Kinds
  BY DEF Kinds
<1>2. i \in 0 .. (iterations["primary"].size - 1)
  BY DEF Pending
<1>3. iterations["primary"].table # N!NoTable
  BY <1>1, <1>2 DEF MethodsInv, IterationsInv
<1> QED BY <1>1, <1>2, <1>3, IterationTable

LEMMA HandEntry ==
  ASSUME MethodsInv, NEW w \in Unlinkers, InRange(w)
  PROVE  /\ iterations["primary"].table # N!NoTable
         /\ workers[w].i \in DOMAIN tables[iterations["primary"].table]
         /\ workers[w].i \in 0 .. (iterations["primary"].size - 1)
<1>1. "primary" \in Kinds /\ N!WorkersOf("primary") = Unlinkers
  BY DEF Kinds, N!WorkersOf
<1>2. /\ workers[w].i < workers[w].end
      /\ workers[w].end <= iterations["primary"].size
  BY <1>1 DEF MethodsInv, IterationsInv
<1>3. workers[w].i \in Nat /\ workers[w].end \in Nat /\ iterations["primary"].size \in Nat
  BY <1>1 DEF MethodsInv, MethodsTypeOK
<1>4. workers[w].i \in 0 .. (iterations["primary"].size - 1)
  BY <1>2, <1>3
<1>5. iterations["primary"].table # N!NoTable
  BY <1>1, <1>2, <1>3, <1>4 DEF MethodsInv, IterationsInv
<1> QED BY <1>1, <1>4, <1>5, IterationTable

LEMMA RegisterNMethodStep ==
  ASSUME N!MethodsAssumption, MethodsInv, NEW n \in NMethods, N!RegisterNMethod(n)
  PROVE  MethodsInv'
<1> DEFINE U == N!RegisterEntry(Before, n)
<1>1. PICK s \in Sizes :
              /\ IsTableOf(U, s) /\ Sound(U) /\ HasRoom(U)
              /\ Holds(U) = Registered'
              /\ Cardinality(Filled(U)) = _nregistered' + _nunregistered'
              /\ Cardinality(Tombs(U)) = _nunregistered'
  BY RegistrationTable
<1>2. IsTable(U) /\ U # N!Deleted
  BY <1>1, TableOf DEF IsTableOf, IsTable
<1>3. /\ tables'[Id] = U /\ Id \in N!Tables /\ _table' = Id
      /\ \A t \in N!Tables \ {Id} : tables'[t] = N!Deleted \/ tables'[t] = tables[t]
      /\ tables' = [t \in N!Tables |-> tables'[t]]
  BY Registration
<1>4. /\ status[n] = "free" \/ (status[n] = "registered" /\ n \notin armed)
      /\ status' = [status EXCEPT ![n] = "registered"]
      /\ armed' = armed \ {n}
      /\ registrations' = registrations + 1 /\ registrations < MaxRegistrations
      /\ UNCHANGED <<iterations, workers, _failed, dead, old, roots, joined, calling, unshaken>>
  BY DEF N!RegisterNMethod, N!phaseVars
<1>5. MethodsTypeOK
  BY DEF MethodsInv
<1>6. status' \in [NMethods -> {"free", "registered", "unregistered", "unlinked"}]
      /\ status'[n] = "registered" /\ \A x \in NMethods : x # n => status'[x] = status[x]
  BY <1>4, <1>5 DEF MethodsTypeOK
<1>7. n \notin dead
  BY <1>4 DEF MethodsInv, DeadInv, N!Present
<1> HIDE DEF U
<1>8. MethodsTypeOK'
  <2>1. \A t \in N!Tables : tables'[t] = N!Deleted \/ IsTable(tables'[t])
    BY <1>2, <1>3, <1>5 DEF MethodsTypeOK
  <2>2. _nregistered' \in Nat /\ _nunregistered' \in Nat
    <3>1. _nregistered' = Cardinality(Registered') /\ Registered' = Registered \cup {n}
          /\ _nunregistered' = IF N!RebuildIsNeeded THEN 0 ELSE _nunregistered
      BY Registration
    <3>2. IsFiniteSet(Registered')
      BY <3>1, RegisteredFinite, FS_AddElement
    <3> QED BY <3>1, <3>2, <1>5, FS_CardinalityType DEF MethodsTypeOK
  <2>3. _deferred' \in [count : Nat, array : SUBSET N!Tables]
    BY Registration
  <2>4. registrations' \in 0 .. MaxRegistrations
    BY <1>4, <1>5 DEF MethodsTypeOK, N!MethodsAssumption
  <2> QED BY <2>1, <2>2, <2>3, <2>4, <1>3, <1>4, <1>5, <1>6 DEF MethodsTypeOK, N!Tables
<1>9. InUse' \subseteq InUse \cup {Id} /\ Id \in InUse'
  BY <1>2, <1>3 DEF InUse, N!Tables
<1>10. TablesInv'
  <2>1. \A t \in InUse : Once(tables[t])
    BY DEF MethodsInv, TablesInv
  <2>2. ASSUME NEW t \in InUse' PROVE Once(tables'[t])
    <3>1. CASE t = Id
      BY <3>1, <1>1, <1>3 DEF Sound
    <3>2. CASE t # Id
      <4>1. t \in N!Tables /\ tables'[t] # N!Deleted /\ t \in InUse
        BY <3>2, <2>2, <1>9 DEF InUse, N!Tables
      <4>2. tables'[t] = tables[t]
        BY <4>1, <3>2, <1>3
      <4> QED BY <4>1, <4>2, <2>1
    <3> QED BY <3>1, <3>2
  <2>3. Cardinality(InUse') <= registrations'
    <3>1. MaxRegistrations \in Nat /\ registrations \in Nat
      BY <1>5 DEF N!MethodsAssumption, MethodsTypeOK
    <3>2. IsFiniteSet(InUse) /\ IsFiniteSet(InUse \cup {Id})
      <4>1. IsFiniteSet(N!Tables)
        BY <3>1, FS_Interval DEF N!Tables
      <4>2. InUse \in SUBSET N!Tables /\ InUse \cup {Id} \in SUBSET N!Tables
        BY <1>3 DEF InUse
      <4> QED BY <4>1, <4>2, FS_Subset
    <3>3. Cardinality(InUse \cup {Id}) <= Cardinality(InUse) + 1
      BY <3>2, FS_AddElement, FS_CardinalityType
    <3>4. Cardinality(InUse') <= Cardinality(InUse \cup {Id}) /\ IsFiniteSet(InUse')
      BY <3>2, <1>9, FS_Subset
    <3>5. Cardinality(InUse) <= registrations
      BY DEF MethodsInv, TablesInv
    <3>6. Cardinality(InUse) \in Nat /\ Cardinality(InUse') \in Nat
          /\ Cardinality(InUse \cup {Id}) \in Nat
      BY <3>2, <3>4, FS_CardinalityType
    <3> QED BY <3>1, <3>3, <3>4, <3>5, <3>6, <1>4
  <2>4. _deferred.array \subseteq InUse
        /\ (_table # N!NoTable => _table \in InUse \ _deferred.array)
    BY DEF MethodsInv, TablesInv
  <2>5. _deferred'.array = _deferred.array \cup (IF N!IsActivated THEN Replaced ELSE {})
    BY Registration
  <2>6. Replaced \subseteq InUse /\ (N!RebuildIsNeeded => Id \notin Replaced)
    BY <2>4, Registration DEF Replaced
  <2>7. Id \notin _deferred'.array
    <3>1. CASE N!RebuildIsNeeded
      BY <3>1, <2>4, <2>5, <2>6, Registration
    <3>2. CASE ~N!RebuildIsNeeded
      <4>1. Id = _table /\ Replaced = {} /\ Id \in InUse
        BY <3>2, Registration DEF Id, Replaced
      <4>2. _table # N!NoTable
        BY <3>2, TableInUse DEF N!RebuildIsNeeded
      <4> QED BY <4>1, <4>2, <2>4, <2>5
    <3> QED BY <3>1, <3>2
  <2>8. _deferred'.array \subseteq InUse'
    <3>1. CASE N!IsActivated
      <4>1. \A t \in InUse : t \in InUse'
        BY <3>1, RegistrationSeen
      <4> QED BY <4>1, <3>1, <2>4, <2>5, <2>6
    <3>2. CASE ~N!IsActivated
      <4>1. _deferred.array = {}
        BY <3>2, <1>5 DEF MethodsInv, IterationsInv, MethodsTypeOK, N!IsActivated
      <4> QED BY <4>1, <3>2, <2>5
    <3> QED BY <3>1, <3>2
  <2> QED BY <2>2, <2>3, <2>7, <2>8, <1>3, <1>9 DEF TablesInv
<1>11. ExactInv'
  <2>1. _nregistered' = Cardinality(Registered')
    BY Registration
  <2>2. _table' # N!NoTable /\ tables'[_table'] = U
    BY <1>3 DEF N!Tables, N!NoTable
  <2>3. Cardinality(DOMAIN U) \in Sizes
    BY <1>1, TableSize
  <2> QED BY <2>1, <2>2, <2>3, <1>1 DEF ExactInv, Sound, Sizes
<1>12. IterationsInv'
  <2>1. _deferred'.count = _deferred.count
    BY Registration
  <2>2. _deferred'.count = 0 => _deferred'.array = {}
    <3>1. _deferred.count = 0 => ~N!IsActivated
      BY DEF N!IsActivated
    <3>2. _deferred'.array = _deferred.array \cup (IF N!IsActivated THEN Replaced ELSE {})
      BY Registration
    <3> QED BY <3>1, <3>2, <2>1 DEF MethodsInv, IterationsInv
  <2>3. ASSUME NEW it \in Kinds
        PROVE  IF iterations'[it].table = N!NoTable THEN iterations'[it].size = 0
               ELSE /\ iterations'[it].table \in InUse'
                    /\ DOMAIN tables'[iterations'[it].table] = 0 .. (iterations'[it].size - 1)
    <3>1. CASE iterations[it].table = N!NoTable
      BY <3>1, <1>4 DEF MethodsInv, IterationsInv
    <3>2. CASE iterations[it].table # N!NoTable
      <4>1. /\ N!IsActivated /\ iterations[it].table \in InUse
            /\ DOMAIN tables[iterations[it].table] = 0 .. (iterations[it].size - 1)
        BY <3>2, IterationTable
      <4>2. /\ iterations[it].table \in InUse'
            /\ DOMAIN tables'[iterations[it].table] = DOMAIN tables[iterations[it].table]
        BY <4>1, RegistrationSeen
      <4> QED BY <4>1, <4>2, <1>4, <3>2
    <3> QED BY <3>1, <3>2
  <2>4. IterationsInv
    BY DEF MethodsInv
  <2> QED BY <2>1, <2>2, <2>3, <2>4, <1>4 DEF IterationsInv, Iterates, InRange, Kinds, N!WorkersOf
<1>13. RangesInv' /\ PhaseInv'
  BY <1>4 DEF MethodsInv, RangesInv, PhaseInv, InRange
<1>14. DeadInv'
  <2>1. N!Present' = N!Present \cup {n}
    BY <1>6 DEF N!Present
  <2>2. DeadInv
    BY DEF MethodsInv
  <2>3. dead' = dead /\ workers' = workers /\ old' = old /\ armed' = armed \ {n}
    BY <1>4
  <2>4. dead' \subseteq armed' /\ armed' \subseteq N!Present'
    BY <2>1, <2>2, <2>3, <1>7 DEF DeadInv
  <2>5. \A x \in NMethods : status'[x] = "unregistered" => status[x] = "unregistered"
    BY <1>6
  <2>6. \A x \in NMethods : status'[x] = "unlinked" => status[x] = "unlinked"
    BY <1>6
  <2>7. \A x \in dead : status[x] = "unlinked" => status'[x] = "unlinked"
    BY <1>5, <1>6, <1>7 DEF MethodsTypeOK
  <2> QED BY <2>2, <2>3, <2>4, <2>5, <2>6, <2>7 DEF DeadInv
<1> DEFINE P == iterations["primary"].table
<1>15. ASSUME P # N!NoTable, NEW i \in DOMAIN tables[P]
       PROVE  Entry(i)' = Entry(i) \/ (Entry(i) = N!Empty /\ Entry(i)' = n)
  <2>1. P \in InUse /\ N!IsActivated
    BY <1>15, IterationTable DEF Kinds
  <2>2. tables'[P][i] = tables[P][i] \/ (tables[P][i] = N!Empty /\ tables'[P][i] = n)
    BY <2>1, <1>15, RegistrationSeen
  <2> QED BY <2>2, <1>4 DEF Entry
<1>16. UnlinkInv'
  <2> SUFFICES ASSUME old' = "unlinking"
               PROVE  /\ \A i \in Pending' : Entry(i)' \in dead' => status'[Entry(i)'] = "registered"
                      /\ ~_failed' => \A x \in dead' : status'[x] = "registered"
                                        => \E i \in Pending' : Entry(i)' = x
                      /\ \A w \in Unlinkers :
                           /\ workers'[w].at = "idle" =>
                                iterations'["primary"].claimed >= iterations'["primary"].size
                           /\ workers'[w].at \in {"visit", "unregister"} =>
                                Entry(workers[w].i)' = workers'[w].method
                           /\ workers'[w].at \in {"unregister", "unlink"} => workers'[w].method \in dead'
                           /\ workers'[w].at = "unlink" => status'[workers'[w].method] = "unregistered"
    BY DEF UnlinkInv, Entry
  <2>1. old = "unlinking" /\ dead' = dead /\ workers' = workers /\ _failed' = _failed
        /\ iterations' = iterations
    BY <1>4
  <2>2. Pending' = Pending
    BY <2>1 DEF Pending, Todo, InRange
  <2>3. N!Empty \notin NMethods /\ dead \subseteq NMethods
    BY <1>5 DEF MethodsTypeOK, N!MethodsAssumption, N!Empty
  <2>4. UnlinkInv
    BY DEF MethodsInv
  <2>5. ASSUME NEW i \in Pending
        PROVE  Entry(i)' = Entry(i) \/ (Entry(i) = N!Empty /\ Entry(i)' = n)
    BY <1>15, PendingEntry
  <2>6. ASSUME NEW i \in Pending', Entry(i)' \in dead' PROVE status'[Entry(i)'] = "registered"
    <3>1. Entry(i)' = Entry(i) /\ Entry(i) \in dead /\ Entry(i) # n /\ i \in Pending
      BY <2>1, <2>2, <2>5, <2>6, <1>7
    <3>2. status[Entry(i)] = "registered"
      BY <3>1, <2>1, <2>4 DEF UnlinkInv
    <3> QED BY <3>1, <3>2, <2>3, <1>6
  <2>7. ASSUME ~_failed', NEW x \in dead', status'[x] = "registered"
        PROVE  \E i \in Pending' : Entry(i)' = x
    <3>1. x \in NMethods /\ x # n /\ x \in dead /\ status[x] = "registered"
      BY <2>1, <2>3, <2>7, <1>6, <1>7
    <3>2. PICK i \in Pending : Entry(i) = x
      BY <3>1, <2>1, <2>4, <2>7 DEF UnlinkInv
    <3>3. Entry(i)' = x
      BY <3>1, <3>2, <2>3, <2>5
    <3> QED BY <3>2, <3>3, <2>2
  <2>8. ASSUME NEW w \in Unlinkers
        PROVE  /\ workers'[w].at = "idle" =>
                    iterations'["primary"].claimed >= iterations'["primary"].size
               /\ workers'[w].at \in {"visit", "unregister"} =>
                    Entry(workers[w].i)' = workers'[w].method
               /\ workers'[w].at \in {"unregister", "unlink"} => workers'[w].method \in dead'
               /\ workers'[w].at = "unlink" => status'[workers'[w].method] = "unregistered"
    <3>1. ASSUME workers[w].at \in {"visit", "unregister"}
          PROVE  Entry(workers[w].i)' = workers[w].method
      <4>1. Entry(workers[w].i) = workers[w].method /\ workers[w].method \in NMethods
        <5>1. Entry(workers[w].i) = workers[w].method
          BY <3>1, <2>1, <2>4 DEF UnlinkInv
        <5>2. workers[w] \in [at : Labels, i : Nat, end : Nat, method : NMethods \cup {N!Nobody}]
              /\ w \in DOMAIN workers
          BY <1>5 DEF MethodsTypeOK
        <5>3. workers[w].method # N!Nobody
          BY <3>1, <5>2 DEF MethodsInv, IterationsInv
        <5> QED BY <5>1, <5>2, <5>3
      <4>2. P # N!NoTable /\ workers[w].i \in DOMAIN tables[P]
        BY <3>1, HandEntry DEF InRange
      <4>3. tables'[P][workers[w].i] = tables[P][workers[w].i]
        BY <4>1, <4>2, <3>1, <2>3, <1>15, <1>4 DEF Entry
      <4> QED BY <4>1, <4>3, <2>1 DEF Entry
    <3>2. workers[w].at \in {"unregister", "unlink"} => workers[w].method \in dead
      BY <2>1, <2>4 DEF UnlinkInv
    <3>3. workers[w].at = "unlink" => status'[workers[w].method] = "unregistered"
      BY <2>1, <2>3, <2>4, <3>2, <1>6, <1>7 DEF UnlinkInv
    <3>4. workers[w].at = "idle" => iterations["primary"].claimed >= iterations["primary"].size
      BY <2>1, <2>4 DEF UnlinkInv
    <3> QED BY <3>1, <3>2, <3>3, <3>4, <2>1 DEF Entry
  <2> QED BY <2>6, <2>7, <2>8
<1>17. SeenInv'
  <2>1. ASSUME NEW x \in NMethods PROVE (Kept(x) => Kept(x)') /\ Kept(n)'
                                        /\ (status'[x] = "unlinked" => status[x] = "unlinked")
    BY <1>4, <1>6 DEF Kept
  <2>2. SeenInv
    BY DEF MethodsInv
  <2>3. ASSUME NEW it \in Kinds, iterations'[it].table # N!NoTable,
               NEW x \in Holds(tables'[iterations'[it].table])
        PROVE  Kept(x)'
    <3> DEFINE t == iterations[it].table
    <3>1. iterations' = iterations /\ t # N!NoTable
      BY <2>3, <1>4
    <3>2. t \in InUse /\ N!IsActivated
      BY <3>1, IterationTable
    <3>3. x \in NMethods /\ \E i \in DOMAIN tables'[t] : x = tables'[t][i]
      BY <2>3, <3>1 DEF Holds
    <3> HIDE DEF t
    <3>4. x = n \/ x \in Holds(tables[t])
      BY <3>2, <3>3, RegistrationSeen DEF Holds
    <3>5. x \in Holds(tables[t]) => Kept(x)
      BY <2>2, <3>1 DEF SeenInv, t
    <3> QED BY <3>3, <3>4, <3>5, <2>1
  <2>4. ASSUME NEW w \in DOMAIN workers', workers'[w].method # N!Nobody
        PROVE  Kept(workers[w].method)'
    BY <2>1, <2>2, <2>4, <1>4, <1>5 DEF SeenInv, MethodsTypeOK
  <2>5. ASSUME NEW m \in Mutators, calling'[m] # N!Nobody
        PROVE  /\ Kept(calling[m])'
               /\ old' = "handshake" /\ m \notin unshaken' => status'[calling'[m]] # "unlinked"
    BY <2>1, <2>2, <2>5, <1>4, <1>5 DEF SeenInv, MethodsTypeOK
  <2> QED BY <2>3, <2>4, <2>5 DEF SeenInv, Kinds, Kept
<1> QED BY <1>8, <1>10, <1>11, <1>12, <1>13, <1>14, <1>16, <1>17 DEF MethodsInv

-----------------------------------------------------------------------------
\* What does not change what a part of the invariant is about keeps it.
LEMMA TablesFrame ==
  ASSUME MethodsInv, UNCHANGED <<N!tableVars, _deferred, registrations>>, Registered' = Registered
  PROVE  TablesInv' /\ ExactInv'
<1>1. /\ tables' = tables /\ _table' = _table /\ _nregistered' = _nregistered
      /\ _nunregistered' = _nunregistered /\ _deferred' = _deferred
      /\ registrations' = registrations
  BY DEF N!tableVars
<1>2. InUse' = InUse
  BY <1>1 DEF InUse, N!Tables
<1>3. TablesInv'
  BY <1>1, <1>2 DEF MethodsInv, TablesInv
<1>4. ExactInv'
  BY <1>1 DEF MethodsInv, ExactInv, Sizes
<1> QED BY <1>3, <1>4

LEMMA IterationsFrame ==
  ASSUME MethodsInv, UNCHANGED <<tables, _deferred, iterations, workers, joined>>,
         old' = "unlinking" <=> old = "unlinking"
  PROVE  IterationsInv' /\ RangesInv'
<1>1. InUse' = InUse
  BY DEF InUse, N!Tables
<1>2. \A it : Iterates(it)' <=> Iterates(it)
  BY DEF Iterates
<1>3. \A w : InRange(w)' <=> InRange(w)
  BY DEF InRange
<1>4. IterationsInv'
  BY <1>1, <1>2, <1>3 DEF MethodsInv, IterationsInv, Kinds, N!WorkersOf
<1>5. RangesInv'
  BY <1>3 DEF MethodsInv, RangesInv
<1> QED BY <1>4, <1>5

LEMMA UnlinkFrame ==
  ASSUME MethodsInv, UNCHANGED <<tables, iterations, workers, _failed, dead, status>>,
         old' = "unlinking" => old = "unlinking"
  PROVE  UnlinkInv'
<1>1. \A w : InRange(w)' <=> InRange(w)
  BY DEF InRange
<1>2. Pending' = Pending
  BY <1>1 DEF Pending, Todo
<1>3. \A i : Entry(i)' = Entry(i)
  BY DEF Entry
<1> QED BY <1>2, <1>3 DEF MethodsInv, UnlinkInv

LEMMA CallStep ==
  ASSUME MethodsInv, NEW m \in Mutators, NEW n \in NMethods, N!Call(m, n)
  PROVE  MethodsInv'
<1> USE DEF N!iterationVars, N!methodVars, N!boundVars
<1>1. MethodsTypeOK
  BY DEF MethodsInv
<1>2. MethodsTypeOK'
  BY <1>1 DEF MethodsTypeOK, N!Call, N!tableVars, N!Tables
<1>3. TablesInv' /\ ExactInv'
  BY TablesFrame DEF N!Call, Registered
<1>4. IterationsInv' /\ RangesInv'
  BY IterationsFrame DEF N!Call, N!tableVars
<1>5. UnlinkInv'
  BY UnlinkFrame DEF N!Call, N!tableVars
<1>6. PhaseInv' /\ DeadInv'
  BY DEF MethodsInv, PhaseInv, DeadInv, N!Present, N!Call
<1>7. SeenInv'
  <2>1. Kept(n) /\ status[n] # "unlinked"
    BY DEF N!Call, Kept
  <2>2. \A x : Kept(x)' <=> Kept(x)
    BY DEF N!Call, Kept
  <2>3. calling' = [calling EXCEPT ![m] = n] /\ unshaken' = unshaken /\ old' = old
        /\ status' = status /\ tables' = tables /\ iterations' = iterations /\ workers' = workers
    BY DEF N!Call, N!tableVars
  <2> QED BY <1>1, <2>1, <2>2, <2>3 DEF MethodsInv, MethodsTypeOK, SeenInv
<1> QED BY <1>2, <1>3, <1>4, <1>5, <1>6, <1>7 DEF MethodsInv

LEMMA EntryBarrierStep ==
  ASSUME N!MethodsAssumption, MethodsInv, NEW m \in Mutators, N!EntryBarrier(m)
  PROVE  MethodsInv'
<1> USE DEF N!iterationVars, N!boundVars
<1>1. MethodsTypeOK
  BY DEF MethodsInv
<1>2. MethodsTypeOK'
  BY <1>1 DEF MethodsTypeOK, N!EntryBarrier, N!tableVars, N!Tables
<1>3. TablesInv' /\ ExactInv'
  BY TablesFrame DEF N!EntryBarrier, Registered
<1>4. IterationsInv' /\ RangesInv'
  BY IterationsFrame DEF N!EntryBarrier, N!tableVars
<1>5. UnlinkInv'
  BY UnlinkFrame DEF N!EntryBarrier, N!tableVars
<1>6. DeadInv'
  BY DEF MethodsInv, DeadInv, N!Present, N!EntryBarrier, N!IsUnloading
<1>7. PhaseInv'
  BY DEF MethodsInv, PhaseInv, N!EntryBarrier
<1>8. SeenInv'
  <2>1. \A x : Kept(x)' <=> Kept(x)
    BY DEF N!EntryBarrier, Kept
  <2>2. calling' = [calling EXCEPT ![m] = N!Nobody] /\ unshaken' = unshaken /\ old' = old
        /\ status' = status /\ tables' = tables /\ iterations' = iterations /\ workers' = workers
    BY DEF N!EntryBarrier, N!tableVars
  <2> QED BY <1>1, <2>1, <2>2 DEF MethodsInv, MethodsTypeOK, SeenInv
<1> QED BY <1>2, <1>3, <1>4, <1>5, <1>6, <1>7, <1>8 DEF MethodsInv

LEMMA HandshakeStep ==
  ASSUME MethodsInv, NEW m \in Mutators, N!Handshake(m)
  PROVE  MethodsInv'
<1> USE DEF N!iterationVars, N!methodVars, N!boundVars
<1>1. MethodsTypeOK
  BY DEF MethodsInv
<1>2. MethodsTypeOK'
  BY <1>1 DEF MethodsTypeOK, N!Handshake, N!tableVars, N!Tables
<1>3. TablesInv' /\ ExactInv'
  BY TablesFrame DEF N!Handshake, Registered
<1>4. IterationsInv' /\ RangesInv'
  BY IterationsFrame DEF N!Handshake, N!tableVars
<1>5. UnlinkInv'
  BY UnlinkFrame DEF N!Handshake, N!tableVars
<1>6. PhaseInv' /\ DeadInv'
  BY DEF MethodsInv, PhaseInv, DeadInv, N!Present, N!Handshake
<1>7. SeenInv'
  <2>1. \A x : Kept(x)' <=> Kept(x)
    BY DEF N!Handshake, Kept
  <2>2. calling' = calling /\ unshaken' = unshaken \ {m} /\ old' = old /\ calling[m] = N!Nobody
        /\ status' = status /\ tables' = tables /\ iterations' = iterations /\ workers' = workers
    BY DEF N!Handshake, N!tableVars
  <2> QED BY <1>1, <2>1, <2>2 DEF MethodsInv, MethodsTypeOK, SeenInv
<1> QED BY <1>2, <1>3, <1>4, <1>5, <1>6, <1>7 DEF MethodsInv

-----------------------------------------------------------------------------
\* Steps of the collection that leave the tables and iterations alone.
LEMMA SeenFrame ==
  ASSUME MethodsInv, UNCHANGED <<tables, iterations, workers, calling, unshaken, status>>,
         old' # "purge", old' = "handshake" => old = "handshake"
  PROVE  SeenInv'
<1>1. \A x : Kept(x) => Kept(x)'
  BY DEF Kept
<1> QED BY <1>1 DEF MethodsInv, SeenInv

LEMMA OldMarkStartStep ==
  ASSUME N!MethodsAssumption, MethodsInv, N!OldMarkStart
  PROVE  MethodsInv'
<1> USE DEF N!iterationVars
<1>1. MethodsTypeOK
  BY DEF MethodsInv
<1>2. MethodsTypeOK'
  BY <1>1 DEF MethodsTypeOK, N!OldMarkStart, N!tableVars, N!Tables, N!Present, Phases
<1>3. TablesInv' /\ ExactInv'
  BY TablesFrame DEF N!OldMarkStart, Registered
<1>4. IterationsInv' /\ RangesInv'
  BY IterationsFrame DEF N!OldMarkStart, N!tableVars
<1>5. UnlinkInv' /\ SeenInv'
  BY UnlinkFrame, SeenFrame DEF N!OldMarkStart, N!tableVars
<1>6. PhaseInv' /\ DeadInv'
  BY DEF MethodsInv, PhaseInv, DeadInv, N!Present, N!OldMarkStart
<1> QED BY <1>2, <1>3, <1>4, <1>5, <1>6 DEF MethodsInv

LEMMA OldMarkEndStep ==
  ASSUME N!MethodsAssumption, MethodsInv, N!OldMarkEnd
  PROVE  MethodsInv'
<1> USE DEF N!iterationVars, N!boundVars
<1>1. MethodsTypeOK
  BY DEF MethodsInv
<1>2. MethodsTypeOK'
  BY <1>1 DEF MethodsTypeOK, N!OldMarkEnd, N!tableVars, N!Tables, Phases
<1>3. TablesInv' /\ ExactInv'
  BY TablesFrame DEF N!OldMarkEnd, Registered
<1>4. IterationsInv' /\ RangesInv'
  BY IterationsFrame DEF N!OldMarkEnd, N!tableVars
<1>5. UnlinkInv' /\ SeenInv'
  BY SeenFrame DEF UnlinkInv, N!OldMarkEnd, N!tableVars
<1>6. PhaseInv' /\ DeadInv'
  BY DEF MethodsInv, PhaseInv, DeadInv, N!Present, N!OldMarkEnd
<1> QED BY <1>2, <1>3, <1>4, <1>5, <1>6 DEF MethodsInv

LEMMA YoungMarkStartStep ==
  ASSUME N!MethodsAssumption, MethodsInv, N!YoungMarkStart
  PROVE  MethodsInv'
<1> USE DEF N!iterationVars
<1>1. MethodsTypeOK
  BY DEF MethodsInv
<1>2. MethodsTypeOK'
  BY <1>1 DEF MethodsTypeOK, N!YoungMarkStart, N!tableVars, N!Tables, N!Present
<1>3. TablesInv' /\ ExactInv'
  BY TablesFrame DEF N!YoungMarkStart, Registered
<1>4. IterationsInv' /\ RangesInv'
  BY IterationsFrame DEF N!YoungMarkStart, N!tableVars
<1>5. UnlinkInv'
  BY UnlinkFrame DEF N!YoungMarkStart, N!tableVars
<1>6. PhaseInv' /\ DeadInv'
  BY DEF MethodsInv, PhaseInv, DeadInv, N!Present, N!YoungMarkStart
<1>7. SeenInv'
  BY DEF MethodsInv, SeenInv, Kept, N!YoungMarkStart, N!tableVars
<1> QED BY <1>2, <1>3, <1>4, <1>5, <1>6, <1>7 DEF MethodsInv

\* No iteration is under way, and nobody has an entry in hand.
LEMMA RendezvousGCThreadsStep ==
  ASSUME N!MethodsAssumption, MethodsInv, N!RendezvousGCThreads
  PROVE  MethodsInv'
<1> USE DEF N!iterationVars, N!methodVars, N!boundVars
<1>1. MethodsTypeOK
  BY DEF MethodsInv
<1>2. MethodsTypeOK'
  BY <1>1 DEF MethodsTypeOK, N!RendezvousGCThreads, N!tableVars, N!Tables, Phases
<1>3. TablesInv' /\ ExactInv'
  BY TablesFrame DEF N!RendezvousGCThreads, Registered
<1>4. IterationsInv' /\ RangesInv'
  BY IterationsFrame DEF N!RendezvousGCThreads, N!tableVars
<1>5. UnlinkInv'
  BY DEF UnlinkInv, N!RendezvousGCThreads
<1>6. PhaseInv' /\ DeadInv'
  BY DEF MethodsInv, PhaseInv, DeadInv, N!Present, N!RendezvousGCThreads
<1>7. SeenInv'
  <2>1. \A it \in Kinds : ~Iterates(it)
    BY DEF Iterates, N!RendezvousGCThreads
  <2>2. \A it \in Kinds : iterations[it].table = N!NoTable
                          /\ \A w \in N!WorkersOf(it) : workers[w].at = "idle"
    BY <2>1 DEF MethodsInv, IterationsInv
  <2>3. \A w \in DOMAIN workers : workers[w].at = "idle" /\ workers[w].method = N!Nobody
    <3>1. \A w \in DOMAIN workers : workers[w].at = "idle"
      BY <2>2, <1>1 DEF Kinds, N!WorkersOf, MethodsTypeOK
    <3> QED BY <3>1 DEF MethodsInv, IterationsInv
  <2>4. ASSUME NEW m \in Mutators, calling[m] # N!Nobody
        PROVE  status[calling[m]] # "free" /\ status[calling[m]] # "unlinked"
    BY <2>4 DEF MethodsInv, SeenInv, Kept, N!RendezvousGCThreads
  <2> QED BY <2>2, <2>3, <2>4 DEF SeenInv, Kept, N!RendezvousGCThreads
<1> QED BY <1>2, <1>3, <1>4, <1>5, <1>6, <1>7 DEF MethodsInv

LEMMA PurgeNMethodStep ==
  ASSUME N!MethodsAssumption, MethodsInv, NEW n \in NMethods, N!PurgeNMethod(n)
  PROVE  MethodsInv'
<1> USE DEF N!iterationVars, N!phaseVars, N!boundVars
<1>1. MethodsTypeOK
  BY DEF MethodsInv
<1>2. MethodsTypeOK'
  BY <1>1 DEF MethodsTypeOK, N!PurgeNMethod, N!tableVars, N!Tables
<1>3. status[n] = "unlinked" /\ status'[n] = "free" /\ old = "purge"
      /\ \A x \in NMethods : x # n => status'[x] = status[x]
  BY <1>1 DEF MethodsTypeOK, N!PurgeNMethod
<1>4. TablesInv' /\ ExactInv'
  <2>1. Registered' = Registered
    BY <1>3 DEF Registered
  <2> QED BY <2>1, TablesFrame DEF N!PurgeNMethod
<1>5. IterationsInv' /\ RangesInv'
  BY IterationsFrame DEF N!PurgeNMethod, N!tableVars
<1>6. UnlinkInv' /\ PhaseInv'
  BY DEF MethodsInv, UnlinkInv, PhaseInv, N!PurgeNMethod
<1>7. DeadInv'
  <2>1. N!Present' = N!Present \ {n}
    BY <1>3 DEF N!Present
  <2> QED BY <2>1, <1>1, <1>3 DEF MethodsInv, MethodsTypeOK, DeadInv, N!PurgeNMethod
<1>8. SeenInv'
  <2>1. ASSUME NEW x \in NMethods, Kept(x) PROVE Kept(x)'
    BY <2>1, <1>3 DEF Kept, N!PurgeNMethod
  <2>2. /\ tables' = tables /\ iterations' = iterations /\ workers' = workers
        /\ calling' = calling /\ unshaken' = unshaken /\ old' = old
    BY DEF N!PurgeNMethod, N!tableVars
  <2>3. SeenInv
    BY DEF MethodsInv
  <2>4. \A T : Holds(T) \subseteq NMethods
    BY DEF Holds
  <2> QED BY <2>1, <2>2, <2>3, <2>4, <1>1, <1>3 DEF SeenInv, MethodsTypeOK
<1> QED BY <1>2, <1>4, <1>5, <1>6, <1>7, <1>8 DEF MethodsInv

LEMMA PurgeEndStep ==
  ASSUME N!MethodsAssumption, MethodsInv, N!PurgeEnd
  PROVE  MethodsInv'
<1> USE DEF N!iterationVars, N!methodVars, N!boundVars
<1>1. MethodsTypeOK
  BY DEF MethodsInv
<1>2. MethodsTypeOK'
  BY <1>1 DEF MethodsTypeOK, N!PurgeEnd, N!tableVars, N!Tables, Phases
<1>3. TablesInv' /\ ExactInv'
  BY TablesFrame DEF N!PurgeEnd, Registered
<1>4. IterationsInv' /\ RangesInv'
  BY IterationsFrame DEF N!PurgeEnd, N!tableVars
<1>5. UnlinkInv' /\ SeenInv'
  BY UnlinkFrame, SeenFrame DEF N!PurgeEnd, N!tableVars
<1>6. PhaseInv' /\ DeadInv'
  BY <1>1 DEF MethodsInv, MethodsTypeOK, PhaseInv, DeadInv, N!Present, N!PurgeEnd
<1> QED BY <1>2, <1>3, <1>4, <1>5, <1>6 DEF MethodsInv

-----------------------------------------------------------------------------
\* The steps of the workers.
LEMMA MinTwo ==
  ASSUME NEW a \in Nat, NEW b \in Nat
  PROVE  N!Min({a, b}) = IF a <= b THEN a ELSE b
<1>1. \A x \in {a, b} : (\A y \in {a, b} : x =< y) => x = IF a <= b THEN a ELSE b
  OBVIOUS
<1>2. \E x \in {a, b} : \A y \in {a, b} : x =< y
  OBVIOUS
<1> QED BY <1>1, <1>2 DEF N!Min

WorkerStates == [at : Labels, i : Nat, end : Nat, method : NMethods \cup {N!Nobody}]

LEMMA WorkerTyped ==
  ASSUME MethodsInv, NEW w \in Unlinkers \cup Markers
  PROVE  /\ workers[w] \in WorkerStates /\ w \in DOMAIN workers
         /\ workers[w].method # N!Nobody <=> workers[w].at \in {"visit", "unregister", "unlink"}
         /\ workers[w].method # N!Nobody => workers[w].method \in NMethods
<1>1. workers[w] \in WorkerStates /\ w \in DOMAIN workers
  BY DEF MethodsInv, MethodsTypeOK, WorkerStates
<1>2. workers[w].at \in Labels /\ workers[w].method \in NMethods \cup {N!Nobody}
  BY <1>1 DEF WorkerStates
<1>3. workers[w].method = N!Nobody <=> workers[w].at \in {"idle", "claim", "read"}
  BY <1>1 DEF MethodsInv, IterationsInv
<1> QED BY <1>1, <1>2, <1>3 DEF Labels

LEMMA WorkerAtWork ==
  ASSUME MethodsInv, NEW it \in Kinds, NEW w \in N!WorkersOf(it), workers[w].at # "idle"
  PROVE  Iterates(it)
BY DEF MethodsInv, IterationsInv

\* Workers of the unlinking are at work only then.
LEMMA UnlinkerAtWork ==
  ASSUME MethodsInv, NEW w \in Unlinkers, workers[w].at # "idle"
  PROVE  old = "unlinking"
BY WorkerAtWork DEF Kinds, N!WorkersOf, Iterates

LEMMA IterationsStep ==
  ASSUME N!MethodsAssumption, MethodsInv, NEW it \in Kinds, NEW w \in N!WorkersOf(it),
         workers[w].at # "idle", NEW r \in WorkerStates,
         workers' = [workers EXCEPT ![w] = r], UNCHANGED <<_deferred, joined, old>>,
         iterations' \in [Kinds -> [table : N!Tables \cup {N!NoTable}, size : Nat, claimed : Nat]],
         \A x \in Kinds : /\ iterations'[x].table = iterations[x].table
                          /\ iterations'[x].size = iterations[x].size
                          /\ iterations[x].claimed <= iterations'[x].claimed,
         InUse' = InUse, \A t \in InUse : DOMAIN tables'[t] = DOMAIN tables[t],
         r.at \in {"read", "visit", "unregister", "unlink"} =>
           r.i < r.end /\ r.end <= iterations[it].size /\ r.end <= iterations'[it].claimed,
         r.method = N!Nobody <=> r.at \in {"idle", "claim", "read"},
         r.at \in {"unregister", "unlink"} => w \in Unlinkers
  PROVE  IterationsInv'
<1>1. IterationsInv /\ MethodsTypeOK
  BY DEF MethodsInv
<1>2. DOMAIN workers = Unlinkers \cup Markers /\ w \in DOMAIN workers
      /\ DOMAIN workers' = DOMAIN workers
  BY <1>1 DEF MethodsTypeOK, N!WorkersOf
<1>3. workers'[w] = r /\ \A v \in DOMAIN workers : v # w => workers'[v] = workers[v]
  BY <1>2
<1>4. \A x \in Kinds : Iterates(x)' <=> Iterates(x)
  BY DEF Iterates
<1>5. Iterates(it)
  BY WorkerAtWork
<1>6. \A x \in Kinds : N!WorkersOf(x) \subseteq DOMAIN workers /\ (x # it => w \notin N!WorkersOf(x))
  BY <1>2 DEF N!WorkersOf, Kinds, N!MethodsAssumption
<1>7. ASSUME NEW x \in Kinds
      PROVE  /\ ~Iterates(x) => iterations'[x].table = N!NoTable
                                /\ \A v \in N!WorkersOf(x) : workers'[v].at = "idle"
             /\ IF iterations'[x].table = N!NoTable THEN iterations'[x].size = 0
                ELSE /\ iterations'[x].table \in InUse
                     /\ DOMAIN tables'[iterations'[x].table] = 0 .. (iterations'[x].size - 1)
  BY <1>1, <1>3, <1>5, <1>6 DEF IterationsInv
<1>8. ASSUME NEW x \in Kinds, NEW v \in N!WorkersOf(x), InRange(v)'
      PROVE  /\ workers'[v].i < workers'[v].end
             /\ workers'[v].end <= iterations'[x].size
             /\ workers'[v].end <= iterations'[x].claimed
  <2>1. CASE v = w
    <3>1. x = it
      BY <2>1, <1>6
    <3> QED BY <3>1, <2>1, <1>3, <1>8 DEF InRange
  <2>2. CASE v # w
    <3>1. workers'[v] = workers[v] /\ InRange(v) /\ v \in Unlinkers \cup Markers
      BY <2>2, <1>2, <1>3, <1>6, <1>8 DEF InRange
    <3>2. /\ workers[v].i < workers[v].end
          /\ workers[v].end <= iterations[x].size
          /\ workers[v].end <= iterations[x].claimed
      BY <3>1, <1>1 DEF IterationsInv
    <3>3. workers[v].end \in Nat
      BY <3>1, WorkerTyped DEF WorkerStates
    <3>4. iterations[x].claimed \in Nat /\ iterations'[x].claimed \in Nat
          /\ iterations[x].claimed <= iterations'[x].claimed
      BY <1>1 DEF MethodsTypeOK
    <3> QED BY <3>1, <3>2, <3>3, <3>4
  <2> QED BY <2>1, <2>2
<1>9. \A v \in DOMAIN workers' :
        workers'[v].method = N!Nobody <=> workers'[v].at \in {"idle", "claim", "read"}
  BY <1>1, <1>2, <1>3 DEF IterationsInv
<1>10. \A v \in Markers : workers'[v].at \notin {"unregister", "unlink"}
  BY <1>1, <1>2, <1>3 DEF IterationsInv, N!MethodsAssumption
<1>11. \A x : N!WorkersOf(x)' = N!WorkersOf(x)
  BY DEF N!WorkersOf
<1>12. /\ _deferred'.count = (IF old' = "unlinking" THEN 1 ELSE 0) + (IF joined' THEN 1 ELSE 0)
       /\ _deferred'.count = 0 => _deferred'.array = {}
  BY <1>1 DEF IterationsInv
<1> QED BY <1>4, <1>7, <1>8, <1>9, <1>10, <1>11, <1>12 DEF IterationsInv, Kinds

LEMMA MarkerFrame ==
  ASSUME N!MethodsAssumption, MethodsInv, NEW w \in Markers, NEW r,
         workers' = [workers EXCEPT ![w] = r],
         UNCHANGED <<tables, _failed, dead, status, old>>,
         iterations'["primary"] = iterations["primary"]
  PROVE  RangesInv' /\ UnlinkInv'
<1>1. \A v \in Unlinkers : workers'[v] = workers[v]
  BY DEF MethodsInv, MethodsTypeOK, N!MethodsAssumption
<1>2. \A v \in Unlinkers : (InRange(v)' <=> InRange(v)) /\ \A i : Todo(v, i)' <=> Todo(v, i)
  BY <1>1 DEF InRange, Todo
<1>3. Pending' = Pending
  BY <1>2 DEF Pending
<1>4. \A i : Entry(i)' = Entry(i)
  BY DEF Entry
<1>5. RangesInv'
  BY <1>1, <1>2 DEF MethodsInv, RangesInv
<1>6. UnlinkInv'
  <2>1. UnlinkInv
    BY DEF MethodsInv
  <2>2. ASSUME NEW v \in Unlinkers PROVE Entry(workers[v].i)' = Entry(workers[v].i)
    BY <1>1 DEF Entry
  <2> QED BY <2>1, <2>2, <1>1, <1>3, <1>4 DEF UnlinkInv
<1> QED BY <1>5, <1>6

LEMMA RangesStep ==
  ASSUME N!MethodsAssumption, MethodsInv, NEW w \in Unlinkers, NEW r \in WorkerStates,
         workers' = [workers EXCEPT ![w] = r],
         r.at \in {"read", "visit", "unregister", "unlink"} =>
           InRange(w) /\ workers[w].i <= r.i /\ r.end = workers[w].end,
         r.method # N!Nobody => \A v \in Unlinkers \ {w} : workers[v].method # r.method
  PROVE  RangesInv'
<1>1. workers'[w] = r /\ \A v \in Unlinkers : v # w => workers'[v] = workers[v]
  BY DEF MethodsInv, MethodsTypeOK
<1>2. \A v \in Unlinkers : workers[v].i \in Nat /\ workers[v].end \in Nat
  BY WorkerTyped DEF WorkerStates
<1>3. r.i \in Nat /\ r.end \in Nat
  BY DEF WorkerStates
<1>4. ASSUME NEW v \in Unlinkers, NEW u \in Unlinkers, v # u
      PROVE  /\ InRange(v)' /\ InRange(u)' =>
                  workers'[v].end <= workers'[u].i \/ workers'[u].end <= workers'[v].i
             /\ workers'[v].method # N!Nobody => workers'[v].method # workers'[u].method
  <2>1. /\ InRange(v) /\ InRange(u) =>
                workers[v].end <= workers[u].i \/ workers[u].end <= workers[v].i
        /\ workers[v].method # N!Nobody => workers[v].method # workers[u].method
    BY <1>4 DEF MethodsInv, RangesInv
  <2>2. CASE v # w /\ u # w
    BY <2>1, <2>2, <1>1 DEF InRange
  <2>3. CASE v = w
    <3>1. u # w /\ workers'[u] = workers[u]
      BY <2>3, <1>1, <1>4
    <3> QED BY <2>1, <2>3, <3>1, <1>1, <1>2, <1>3 DEF InRange
  <2>4. CASE u = w
    <3>1. v # w /\ workers'[v] = workers[v]
      BY <2>4, <1>1, <1>4
    <3> QED BY <2>1, <2>4, <3>1, <1>1, <1>2, <1>3 DEF InRange
  <2> QED BY <2>2, <2>3, <2>4
<1> QED BY <1>4 DEF RangesInv

LEMMA DeadFrame ==
  ASSUME MethodsInv, UNCHANGED <<dead, status, old>>, dead \subseteq armed', armed' \subseteq armed,
         \A v \in Unlinkers : workers[v].at = "unlink" => workers'[v] = workers[v]
  PROVE  DeadInv'
<1>1. N!Present' = N!Present
  BY DEF N!Present
<1>2. DeadInv
  BY DEF MethodsInv
<1>3. ASSUME NEW n \in NMethods, status[n] = "unregistered"
      PROVE  n \in dead /\ \E v \in Unlinkers : workers'[v].at = "unlink" /\ workers'[v].method = n
  BY <1>2, <1>3 DEF DeadInv
<1> QED BY <1>1, <1>2, <1>3 DEF DeadInv

LEMMA SeenWorkers ==
  ASSUME MethodsInv, UNCHANGED <<tables, calling, unshaken, status, old>>,
         \A x \in Kinds : iterations'[x].table = iterations[x].table,
         \A v \in DOMAIN workers' : workers'[v].method # N!Nobody => Kept(workers'[v].method)
  PROVE  SeenInv'
<1>1. \A x : Kept(x)' <=> Kept(x)
  BY DEF Kept
<1>2. \A v : Kept(workers[v].method)' <=> Kept(workers'[v].method)
  BY DEF Kept
<1> QED BY <1>1, <1>2 DEF MethodsInv, SeenInv, Kinds

LEMMA AdvanceIs ==
  ASSUME N!MethodsAssumption, MethodsInv, NEW it \in Kinds, NEW w \in N!WorkersOf(it),
         InRange(w), N!Advance(w)
  PROVE  \E r \in WorkerStates :
           /\ workers' = [workers EXCEPT ![w] = r]
           /\ r.method = N!Nobody /\ r.at \in {"claim", "read"}
           /\ r.at = "read" => /\ r.i = workers[w].i + 1 /\ r.end = workers[w].end
                               /\ r.i < r.end /\ r.end <= iterations[it].size
                               /\ r.end <= iterations[it].claimed
           /\ w \in Unlinkers => \A i \in Nat : Todo(w, i)' <=> Todo(w, i) /\ i # workers[w].i
<1> DEFINE r == IF workers[w].i + 1 = workers[w].end THEN [N!Idle EXCEPT !.at = "claim"]
                ELSE [workers[w] EXCEPT !.at = "read", !.i = workers[w].i + 1, !.method = N!Nobody]
<1>1. w \in Unlinkers \cup Markers
  BY DEF N!WorkersOf
<1>2. workers[w] \in WorkerStates /\ w \in DOMAIN workers
  BY <1>1, WorkerTyped
<1>3. workers' = [workers EXCEPT ![w] = r]
  BY <1>2 DEF N!Advance
<1>4. workers[w].i \in Nat /\ workers[w].end \in Nat
  BY <1>2 DEF WorkerStates
<1>5. /\ workers[w].i < workers[w].end /\ workers[w].end <= iterations[it].size
      /\ workers[w].end <= iterations[it].claimed
  BY DEF MethodsInv, IterationsInv
<1>6. r \in WorkerStates
  <2>1. [N!Idle EXCEPT !.at = "claim"] \in WorkerStates
    BY DEF WorkerStates, N!Idle, Labels
  <2>2. workers[w].i + 1 \in Nat
    BY <1>4
  <2>3. [workers[w] EXCEPT !.at = "read", !.i = workers[w].i + 1, !.method = N!Nobody] \in WorkerStates
    BY <1>2, <2>2 DEF WorkerStates, Labels
  <2> QED BY <2>1, <2>3
<1>7. /\ r.method = N!Nobody /\ r.at \in {"claim", "read"}
      /\ r.at = "claim" => workers[w].i + 1 = workers[w].end
      /\ r.at = "read" => /\ r.i = workers[w].i + 1 /\ r.end = workers[w].end
                          /\ workers[w].i + 1 # workers[w].end
  BY <1>2 DEF N!Idle, WorkerStates
<1> HIDE DEF r
<1>8. r.at = "read" => r.i < r.end
  BY <1>4, <1>5, <1>7
<1>9. workers'[w] = r
  BY <1>2, <1>3
<1>10. ASSUME NEW i \in Nat PROVE Todo(w, i)' <=> Todo(w, i) /\ i # workers[w].i
  <2>1. Todo(w, i)' <=> r.at = "read" /\ i < r.end /\ r.i <= i
    BY <1>7, <1>9 DEF Todo, InRange
  <2>2. Todo(w, i) /\ i # workers[w].i <=> i < workers[w].end /\ workers[w].i < i
    BY <1>4 DEF Todo
  <2>3. CASE r.at = "read"
    BY <2>1, <2>2, <2>3, <1>4, <1>7
  <2>4. CASE r.at = "claim"
    <3>1. workers[w].i + 1 = workers[w].end
      BY <2>4, <1>7
    <3> QED BY <3>1, <2>1, <2>2, <2>4, <1>4
  <2> QED BY <2>3, <2>4, <1>7
<1> QED BY <1>3, <1>5, <1>6, <1>7, <1>8, <1>10

\* Only the place of one worker changes: it has dealt with an entry that does
\* not count any more.
LEMMA UnlinkerStep ==
  ASSUME N!MethodsAssumption, MethodsInv, NEW w \in Unlinkers, NEW r,
         workers' = [workers EXCEPT ![w] = r],
         UNCHANGED <<tables, dead, status, old, iterations>>, _failed => _failed',
         r.at # "idle", InRange(w),
         \A i \in Nat : Todo(w, i)' => Todo(w, i),
         \A i \in Nat : Todo(w, i) /\ i # workers[w].i => Todo(w, i)',
         NEW j, j = workers[w].i,
         ~_failed' => \/ ~Todo(w, j) \/ Todo(w, j)'
                      \/ ~(Entry(j) \in dead /\ status[Entry(j)] = "registered"),
         r.at \in {"visit", "unregister"} => Entry(r.i) = r.method,
         r.at \in {"unregister", "unlink"} => r.method \in dead,
         r.at # "unlink"
  PROVE  UnlinkInv'
<1>1. old = "unlinking" /\ UnlinkInv
  BY UnlinkerAtWork DEF MethodsInv, InRange
<1>2. workers'[w] = r /\ \A v \in Unlinkers : v # w => workers'[v] = workers[v]
  BY DEF MethodsInv, MethodsTypeOK
<1>3. \A v \in Unlinkers : v # w => \A i : Todo(v, i)' <=> Todo(v, i)
  BY <1>2 DEF Todo, InRange
<1>4. 0 .. (iterations["primary"].size - 1) \subseteq Nat
  BY DEF MethodsInv, MethodsTypeOK, Kinds
<1>5. \A i \in Pending' : i \in Pending
  BY <1>3, <1>4 DEF Pending
<1>6. \A i \in Pending : i # workers[w].i => i \in Pending'
  BY <1>3, <1>4 DEF Pending
<1>7. Todo(w, j)' => (j \in Pending => j \in Pending')
  BY DEF Pending
<1>8. \A i : Entry(i)' = Entry(i)
  BY DEF Entry
<1>9. \A i \in Pending' : Entry(i) \in dead => status[Entry(i)] = "registered"
  BY <1>1, <1>5 DEF UnlinkInv
<1>10. ASSUME ~_failed', NEW n \in dead, status[n] = "registered"
       PROVE  \E i \in Pending' : Entry(i) = n
  <2>1. PICK i \in Pending : Entry(i) = n
    BY <1>1, <1>10 DEF UnlinkInv
  <2>2. CASE i # workers[w].i
    BY <2>1, <2>2, <1>6
  <2>3. CASE i = workers[w].i
    <3>1. i = j /\ (~Todo(w, i) \/ Todo(w, i)')
      BY <2>1, <2>3, <1>10
    <3>2. i \in Nat
      BY <1>4 DEF Pending
    <3>3. ~Todo(w, i) => i \in Pending'
      BY <3>2, <1>3 DEF Pending
    <3> QED BY <2>1, <2>3, <3>1, <3>3, <1>7
  <2> QED BY <2>2, <2>3
<1>11. ASSUME NEW v \in Unlinkers
       PROVE  /\ workers'[v].at = "idle" =>
                   iterations["primary"].claimed >= iterations["primary"].size
              /\ workers'[v].at \in {"visit", "unregister"} =>
                   Entry(workers'[v].i) = workers'[v].method
              /\ workers'[v].at \in {"unregister", "unlink"} => workers'[v].method \in dead
              /\ workers'[v].at = "unlink" => status[workers'[v].method] = "unregistered"
  BY <1>1, <1>2 DEF UnlinkInv
<1>12. \A v \in Unlinkers : Entry(workers[v].i)' = Entry(workers'[v].i)
  BY DEF Entry
<1> QED BY <1>8, <1>9, <1>10, <1>11, <1>12 DEF UnlinkInv

\* What the steps of a worker that leave the tables alone have in common.
LEMMA QuietWorkerStep ==
  ASSUME N!MethodsAssumption, MethodsInv, NEW it \in Kinds, NEW w \in N!WorkersOf(it),
         workers[w].at # "idle", NEW r \in WorkerStates,
         workers' = [workers EXCEPT ![w] = r],
         UNCHANGED <<N!tableVars, _deferred, N!phaseVars, N!boundVars, status, dead>>,
         _failed' \in BOOLEAN, dead \subseteq armed', armed' \subseteq armed,
         workers[w].at # "unlink",
         iterations' \in [Kinds -> [table : N!Tables \cup {N!NoTable}, size : Nat, claimed : Nat]],
         \A x \in Kinds : /\ iterations'[x].table = iterations[x].table
                          /\ iterations'[x].size = iterations[x].size
                          /\ iterations[x].claimed <= iterations'[x].claimed,
         r.at \in {"read", "visit", "unregister", "unlink"} =>
           r.i < r.end /\ r.end <= iterations[it].size /\ r.end <= iterations'[it].claimed,
         r.method = N!Nobody <=> r.at \in {"idle", "claim", "read"},
         r.at \in {"unregister", "unlink"} => w \in Unlinkers,
         r.method # N!Nobody => Kept(r.method)
  PROVE  /\ MethodsTypeOK' /\ TablesInv' /\ ExactInv' /\ IterationsInv' /\ PhaseInv' /\ DeadInv'
         /\ SeenInv'
<1>1. MethodsTypeOK
  BY DEF MethodsInv
<1>2. w \in DOMAIN workers /\ DOMAIN workers = Unlinkers \cup Markers
  BY <1>1 DEF MethodsTypeOK, N!WorkersOf
<1>3. workers' \in [Unlinkers \cup Markers -> WorkerStates]
  BY <1>1 DEF MethodsTypeOK, WorkerStates
<1>4. MethodsTypeOK'
  BY <1>1, <1>3 DEF MethodsTypeOK, WorkerStates, N!Tables, N!tableVars, N!phaseVars, N!boundVars
<1>5. TablesInv' /\ ExactInv'
  BY TablesFrame DEF Registered, N!boundVars
<1>6. InUse' = InUse
  BY DEF InUse, N!Tables, N!tableVars
<1>7. IterationsInv'
  BY <1>6, IterationsStep DEF N!tableVars, N!phaseVars
<1>8. PhaseInv'
  BY DEF MethodsInv, PhaseInv, N!phaseVars
<1>9. DeadInv'
  <2>1. \A v \in Unlinkers : workers[v].at = "unlink" => workers'[v] = workers[v]
    BY <1>2
  <2> QED BY <2>1, DeadFrame DEF N!phaseVars
<1>10. SeenInv'
  <2>1. \A v \in DOMAIN workers' : workers'[v].method # N!Nobody => Kept(workers'[v].method)
    BY <1>2 DEF MethodsInv, SeenInv
  <2> QED BY <2>1, SeenWorkers DEF N!tableVars, N!phaseVars
<1> QED BY <1>4, <1>5, <1>7, <1>8, <1>9, <1>10

LEMMA ClaimStep ==
  ASSUME N!MethodsAssumption, MethodsInv, NEW it \in Kinds, NEW w \in N!WorkersOf(it), N!Claim(it, w)
  PROVE  MethodsInv'
<1> DEFINE c == iterations[it].claimed
           size == iterations[it].size
           start == IF c <= size THEN c ELSE size
           end == IF start + PartitionSize <= size THEN start + PartitionSize ELSE size
           r == IF start = end THEN N!Idle
                ELSE [at |-> "read", i |-> start, end |-> end, method |-> N!Nobody]
<1>1. MethodsTypeOK /\ w \in Unlinkers \cup Markers /\ w \in DOMAIN workers
  BY DEF MethodsInv, MethodsTypeOK, N!WorkersOf
<1>2. c \in Nat /\ size \in Nat /\ PartitionSize \in Nat /\ PartitionSize > 0
  BY <1>1 DEF MethodsTypeOK, N!MethodsAssumption
<1>3. start = N!Min({c, size}) /\ start \in Nat
  BY <1>2, MinTwo
<1>4. end = N!Min({start + PartitionSize, size}) /\ end \in Nat
  <2> HIDE DEF start
  <2>1. start + PartitionSize \in Nat
    BY <1>2, <1>3
  <2> QED BY <2>1, <1>2, <1>3, MinTwo
<1>5. workers[w].at = "claim" /\ workers' = [workers EXCEPT ![w] = r]
  <2>1. workers' = [workers EXCEPT ![w] =
          IF N!Min({c, size}) = N!Min({N!Min({c, size}) + PartitionSize, size}) THEN N!Idle
          ELSE [at |-> "read", i |-> N!Min({c, size}),
                end |-> N!Min({N!Min({c, size}) + PartitionSize, size}), method |-> N!Nobody]]
    BY Zenon DEF N!Claim
  <2>2. workers[w].at = "claim"
    BY DEF N!Claim
  <2> HIDE DEF start, end
  <2> QED BY <2>1, <2>2, <1>3, <1>4
<1>6. iterations' = [iterations EXCEPT ![it].claimed = c + PartitionSize]
  BY DEF N!Claim
<1>7. IF c < size
      THEN /\ r = [at |-> "read", i |-> c, end |-> end, method |-> N!Nobody]
           /\ end = IF c + PartitionSize <= size THEN c + PartitionSize ELSE size
      ELSE r = N!Idle
  BY <1>2
<1>8. c < size => c < end /\ end <= size /\ end <= c + PartitionSize
  BY <1>2
<1> HIDE DEF c, size, start, end, r
<1>9. r \in WorkerStates
  BY <1>2, <1>4, <1>7 DEF WorkerStates, Labels, N!Idle
<1>10. /\ iterations' \in [Kinds -> [table : N!Tables \cup {N!NoTable}, size : Nat, claimed : Nat]]
       /\ iterations'[it].claimed = c + PartitionSize
       /\ \A x \in Kinds : /\ iterations'[x].table = iterations[x].table
                           /\ iterations'[x].size = iterations[x].size
                           /\ iterations[x].claimed <= iterations'[x].claimed
                           /\ x # it => iterations'[x] = iterations[x]
  BY <1>1, <1>2, <1>6 DEF MethodsTypeOK, c
<1>11. /\ MethodsTypeOK' /\ TablesInv' /\ ExactInv' /\ IterationsInv' /\ PhaseInv' /\ DeadInv'
       /\ SeenInv'
  <2>1. UNCHANGED <<N!tableVars, _deferred, N!phaseVars, N!boundVars, status, dead, armed, _failed>>
    BY DEF N!Claim, N!methodVars
  <2>2. _failed' \in BOOLEAN /\ dead \subseteq armed' /\ armed' \subseteq armed
    BY <2>1, <1>1 DEF MethodsInv, DeadInv, MethodsTypeOK
  <2>3. r.at \in {"read", "visit", "unregister", "unlink"} =>
           r.i < r.end /\ r.end <= iterations[it].size /\ r.end <= iterations'[it].claimed
    BY <1>7, <1>8, <1>10 DEF N!Idle, size
  <2>4. r.method = N!Nobody /\ r.at \in {"idle", "read"}
    BY <1>7 DEF N!Idle
  <2> QED BY <2>1, <2>2, <2>3, <2>4, <1>5, <1>9, <1>10, QuietWorkerStep
<1>12. CASE it = "secondary"
  <2>1. w \in Markers /\ "primary" \in Kinds
    BY <1>12 DEF N!WorkersOf, Kinds
  <2>2. UNCHANGED <<tables, _failed, dead, status, old>>
    BY DEF N!Claim, N!methodVars, N!phaseVars, N!tableVars
  <2>3. RangesInv' /\ UnlinkInv'
    BY <2>1, <2>2, <1>5, <1>10, <1>12, MarkerFrame
  <2> QED BY <1>11, <2>3 DEF MethodsInv
<1>13. CASE it = "primary"
  <2>1. w \in Unlinkers
    BY <1>13 DEF N!WorkersOf
  <2>2. workers'[w] = r /\ \A v \in Unlinkers : v # w => workers'[v] = workers[v]
    BY <1>1, <1>5 DEF MethodsTypeOK
  <2>3. r.method = N!Nobody /\ ((r.at = "read" /\ c < size /\ r.i = c /\ r.end = end) \/ (r = N!Idle /\ c >= size))
    BY <1>2, <1>7 DEF N!Idle
  <2>4. RangesInv'
    <3>1. \A v \in Unlinkers : InRange(v) => workers[v].end <= c
      BY <1>13 DEF MethodsInv, IterationsInv, c, N!WorkersOf
    <3>2. RangesInv
      BY DEF MethodsInv
    <3>3. ASSUME NEW v \in Unlinkers, NEW u \in Unlinkers, v # u
          PROVE  /\ InRange(v)' /\ InRange(u)' =>
                       workers'[v].end <= workers'[u].i \/ workers'[u].end <= workers'[v].i
                 /\ workers'[v].method # N!Nobody => workers'[v].method # workers'[u].method
      <4>1. CASE v # w /\ u # w
        BY <4>1, <3>2, <3>3, <2>2 DEF RangesInv, InRange
      <4>2. CASE v = w
        BY <4>2, <3>1, <3>3, <2>2, <2>3 DEF InRange, N!Idle
      <4>3. CASE u = w
        BY <4>3, <3>1, <3>3, <2>2, <2>3 DEF InRange, N!Idle
      <4> QED BY <4>1, <4>2, <4>3
    <3> QED BY <3>3 DEF RangesInv
  <2>5. UnlinkInv'
    <3>1. UnlinkInv /\ old = "unlinking"
      BY <2>1, <1>5, UnlinkerAtWork DEF MethodsInv
    <3>2. \A v \in Unlinkers : v # w => \A i : Todo(v, i)' <=> Todo(v, i)
      BY <2>2 DEF Todo, InRange
    <3>3. \A i \in 0 .. (size - 1) : ~Todo(w, i) /\ (Todo(w, i)' <=> c < size /\ c <= i /\ i < end)
      BY <1>2, <1>5, <2>2, <2>3 DEF Todo, InRange, N!Idle
    <3>4. \A i \in 0 .. (size - 1) :
             i >= c <=> i >= c + PartitionSize \/ (c < size /\ c <= i /\ i < end)
      BY <1>2, <1>4, <1>7
    <3>5. /\ Pending = {i \in 0 .. (size - 1) : i >= c \/ \E v \in Unlinkers : Todo(v, i)}
          /\ Pending' = {i \in 0 .. (size - 1) :
                           i >= c + PartitionSize \/ \E v \in Unlinkers : Todo(v, i)'}
      BY <1>10, <1>13 DEF Pending, c, size
    <3>6. Pending' = Pending
      BY <2>1, <3>2, <3>3, <3>4, <3>5
    <3>7. UNCHANGED <<tables, _failed, dead, status, old>>
      BY DEF N!Claim, N!methodVars, N!phaseVars, N!tableVars
    <3>8. \A i : Entry(i)' = Entry(i)
      BY <3>7, <1>10, <1>13 DEF Entry
    <3>9. ASSUME NEW v \in Unlinkers
          PROVE  /\ workers'[v].at = "idle" => c + PartitionSize >= size
                 /\ workers'[v].at \in {"visit", "unregister"} =>
                      Entry(workers'[v].i) = workers'[v].method
                 /\ workers'[v].at \in {"unregister", "unlink"} => workers'[v].method \in dead
                 /\ workers'[v].at = "unlink" => status[workers'[v].method] = "unregistered"
      <4>1. CASE v = w
        BY <4>1, <2>2, <2>3, <1>2 DEF N!Idle
      <4>2. CASE v # w
        <5>1. workers'[v] = workers[v]
          BY <4>2, <2>2
        <5>2. workers[v].at = "idle" => c >= size
          BY <3>1, <1>13 DEF UnlinkInv, c, size
        <5> QED BY <5>1, <5>2, <3>1, <1>2 DEF UnlinkInv
      <4> QED BY <4>1, <4>2
    <3>10. \A v \in Unlinkers : Entry(workers[v].i)' = Entry(workers'[v].i)
      BY <3>7, <1>10, <1>13 DEF Entry
    <3> QED BY <3>1, <3>6, <3>7, <3>8, <3>9, <3>10, <1>10, <1>13 DEF UnlinkInv, c, size
  <2> QED BY <1>11, <2>4, <2>5 DEF MethodsInv
<1> QED BY <1>12, <1>13 DEF Kinds

LEMMA ReadEntryStep ==
  ASSUME N!MethodsAssumption, MethodsInv, NEW it \in Kinds, NEW w \in N!WorkersOf(it),
         N!ReadEntry(it, w)
  PROVE  MethodsInv'
<1> DEFINE entry == tables[iterations[it].table][workers[w].i]
<1>1. MethodsTypeOK /\ w \in Unlinkers \cup Markers
  BY DEF MethodsInv, MethodsTypeOK, N!WorkersOf
<1>2. workers[w].at = "read" /\ InRange(w)
      /\ UNCHANGED <<N!tableVars, _deferred, iterations, _failed, N!methodVars, N!phaseVars, N!boundVars>>
  BY DEF N!ReadEntry, InRange
<1>3. UNCHANGED <<tables, _failed, dead, status, armed, old>>
  BY <1>2 DEF N!tableVars, N!methodVars, N!phaseVars
<1>4. workers[w] \in WorkerStates /\ w \in DOMAIN workers
  BY <1>1, WorkerTyped
<1>5. /\ workers[w].i < workers[w].end /\ workers[w].end <= iterations[it].size
      /\ workers[w].end <= iterations[it].claimed
      /\ workers[w].i \in Nat /\ workers[w].end \in Nat
  BY <1>2, <1>4 DEF MethodsInv, IterationsInv, WorkerStates
<1>6. PICK r \in WorkerStates :
        /\ workers' = [workers EXCEPT ![w] = r]
        /\ \/ /\ r.method = N!Nobody /\ r.at \in {"claim", "read"}
              /\ r.at = "read" => /\ r.i = workers[w].i + 1 /\ r.end = workers[w].end
                                  /\ r.i < r.end /\ r.end <= iterations[it].size
                                  /\ r.end <= iterations[it].claimed
              /\ w \in Unlinkers => \A i \in Nat : Todo(w, i)' <=> Todo(w, i) /\ i # workers[w].i
              /\ entry \notin NMethods
           \/ /\ r.at = "visit" /\ r.i = workers[w].i /\ r.end = workers[w].end
              /\ r.method = entry /\ entry \in NMethods
  <2>1. CASE entry \in NMethods
    <3> DEFINE r == [workers[w] EXCEPT !.at = "visit", !.method = entry]
    <3>1. workers' = [workers EXCEPT ![w].at = "visit", ![w].method = entry]
      BY <2>1 DEF N!ReadEntry
    <3>2. workers' = [workers EXCEPT ![w] = r]
      <4> HIDE DEF entry
      <4> QED BY <3>1, <1>4
    <3>3. r \in WorkerStates
      BY <2>1, <1>4 DEF WorkerStates, Labels
    <3>4. r.at = "visit" /\ r.i = workers[w].i /\ r.end = workers[w].end /\ r.method = entry
      BY <1>4 DEF WorkerStates
    <3> QED BY <2>1, <3>2, <3>3, <3>4
  <2>2. CASE entry \notin NMethods
    <3>1. N!Advance(w)
      BY <2>2 DEF N!ReadEntry
    <3> QED BY <2>2, <3>1, <1>2, AdvanceIs
  <2> QED BY <2>1, <2>2
<1>7. iterations[it].table # N!NoTable
  <2>1. iterations[it].size \in Nat
    BY <1>1 DEF MethodsTypeOK
  <2>2. iterations[it].size # 0
    BY <2>1, <1>5
  <2> QED BY <2>2 DEF MethodsInv, IterationsInv
<1>8. entry \in NMethods => Kept(entry)
  <2>1. DOMAIN tables[iterations[it].table] = 0 .. (iterations[it].size - 1)
    BY <1>7, IterationTable
  <2>2. workers[w].i \in DOMAIN tables[iterations[it].table]
    BY <2>1, <1>1, <1>5 DEF MethodsTypeOK
  <2>3. entry \in NMethods => entry \in Holds(tables[iterations[it].table])
    BY <2>2 DEF Holds
  <2> QED BY <2>3, <1>7 DEF MethodsInv, SeenInv
<1> HIDE DEF entry
<1>9. N!Nobody \notin NMethods
  BY DEF N!MethodsAssumption, N!Nobody
<1>10. /\ MethodsTypeOK' /\ TablesInv' /\ ExactInv' /\ IterationsInv' /\ PhaseInv' /\ DeadInv'
       /\ SeenInv'
  <2>1. _failed' \in BOOLEAN /\ dead \subseteq armed' /\ armed' \subseteq armed
    BY <1>1, <1>3 DEF MethodsInv, DeadInv, MethodsTypeOK
  <2>2. /\ r.at \in {"read", "visit", "unregister", "unlink"} =>
              r.i < r.end /\ r.end <= iterations[it].size /\ r.end <= iterations[it].claimed
        /\ r.method = N!Nobody <=> r.at \in {"idle", "claim", "read"}
        /\ r.at \notin {"unregister", "unlink"}
        /\ r.method # N!Nobody => Kept(r.method)
    BY <1>5, <1>6, <1>8, <1>9
  <2>3. /\ iterations' \in [Kinds -> [table : N!Tables \cup {N!NoTable}, size : Nat, claimed : Nat]]
        /\ \A x \in Kinds : /\ iterations'[x].table = iterations[x].table
                            /\ iterations'[x].size = iterations[x].size
                            /\ iterations[x].claimed <= iterations'[x].claimed
    BY <1>1, <1>2 DEF MethodsTypeOK
  <2>4. UNCHANGED <<N!tableVars, _deferred, N!phaseVars, N!boundVars, status, dead>> /\ iterations' = iterations
    BY <1>2, <1>3
  <2> QED BY <2>1, <2>2, <2>3, <2>4, <1>2, <1>6, QuietWorkerStep
<1>11. CASE it = "secondary"
  <2>1. w \in Markers
    BY <1>11 DEF N!WorkersOf
  <2>2. RangesInv' /\ UnlinkInv'
    BY <2>1, <1>2, <1>3, <1>6, MarkerFrame
  <2> QED BY <1>10, <2>2 DEF MethodsInv
<1>12. CASE it = "primary"
  <2>1. w \in Unlinkers /\ entry = Entry(workers[w].i)
    BY <1>12 DEF N!WorkersOf, entry, Entry
  <2>2. old = "unlinking" /\ UnlinkInv /\ RangesInv
    BY <2>1, <1>2, UnlinkerAtWork DEF MethodsInv
  <2>3. ASSUME r.method # N!Nobody, NEW v \in Unlinkers, v # w PROVE workers[v].method # r.method
    <3> SUFFICES ASSUME workers[v].method = r.method PROVE FALSE
      OBVIOUS
    <3>1. r.method = entry /\ entry \in NMethods
      BY <2>3, <1>6
    <3>2. workers[v].at \in {"visit", "unregister", "unlink"} /\ InRange(v)
      BY <3>1, <1>9, WorkerTyped DEF InRange
    <3>3. CASE workers[v].at \in {"visit", "unregister"}
      <4>1. Entry(workers[v].i) = Entry(workers[w].i)
        BY <3>1, <3>3, <2>1, <2>2 DEF UnlinkInv
      <4> DEFINE t == iterations["primary"].table
      <4>2. /\ workers[v].i \in DOMAIN tables[t] /\ workers[w].i \in DOMAIN tables[t]
            /\ t # N!NoTable
        BY <3>2, <1>2, <2>1, HandEntry
      <4>3. Once(tables[t])
        BY <4>2, IterationTable DEF Kinds, MethodsInv, TablesInv
      <4>4. tables[t][workers[v].i] = tables[t][workers[w].i]
            /\ tables[t][workers[v].i] \in NMethods
        BY <4>1, <3>1, <2>1 DEF Entry
      <4>5. workers[v].i = workers[w].i
        BY <4>2, <4>3, <4>4 DEF Once
      <4>6. workers[v].end <= workers[w].i \/ workers[w].end <= workers[v].i
        BY <2>1, <2>2, <2>3, <1>2, <3>2 DEF RangesInv
      <4>7. workers[v].i < workers[v].end /\ workers[v].i \in Nat /\ workers[v].end \in Nat
        BY <1>12, <3>2, WorkerTyped DEF MethodsInv, IterationsInv, N!WorkersOf, WorkerStates
      <4> QED BY <4>5, <4>6, <4>7, <1>5
    <3>4. CASE workers[v].at = "unlink"
      <4>1. entry \in dead /\ status[entry] = "unregistered"
        BY <3>1, <3>4, <2>2 DEF UnlinkInv
      <4>2. workers[w].i \in 0 .. (iterations["primary"].size - 1)
        BY <2>1, <1>2, HandEntry
      <4>3. workers[w].i \in Pending
        BY <4>2, <1>2, <1>5, <2>1 DEF Pending, Todo
      <4>4. status[entry] = "registered"
        BY <4>1, <4>3, <2>1, <2>2 DEF UnlinkInv
      <4> QED BY <4>1, <4>4
    <3> QED BY <3>2, <3>3, <3>4
  <2>4. RangesInv'
    <3>1. r.at \in {"read", "visit", "unregister", "unlink"} =>
            workers[w].i <= r.i /\ r.end = workers[w].end
      BY <1>5, <1>6
    <3> QED BY <3>1, <2>1, <2>3, <1>2, <1>6, RangesStep
  <2>5. UnlinkInv'
    <3>1. CASE entry \notin NMethods
      <4>0. PICK j : j = workers[w].i
        OBVIOUS
      <4>1. r.at \in {"claim", "read"} /\ \A i \in Nat : Todo(w, i)' <=> Todo(w, i) /\ i # j
        BY <4>0, <3>1, <2>1, <1>6
      <4>2. dead \subseteq NMethods
        BY <1>1 DEF MethodsTypeOK
      <4>3. Entry(j) \notin dead
        BY <4>0, <3>1, <2>1, <4>2
      <4>4. UNCHANGED <<tables, dead, status, old, iterations>> /\ (_failed => _failed')
        BY <1>2, <1>3
      <4>5. r.at # "idle" /\ r.at \notin {"visit", "unregister"} /\ r.at # "unlink"
            /\ r.at \notin {"unregister", "unlink"}
        BY <4>1
      <4>6. \A i \in Nat : Todo(w, i) /\ i # workers[w].i => Todo(w, i)'
        BY <4>0, <4>1
      <4> QED BY <4>0, <4>1, <4>3, <4>4, <4>5, <4>6, <2>1, <1>2, <1>6, UnlinkerStep
    <3>2. CASE entry \in NMethods
      <4>1. r.at = "visit" /\ r.i = workers[w].i /\ r.end = workers[w].end /\ r.method = entry
        BY <3>2, <1>6
      <4>2. workers'[w] = r
        BY <1>4, <1>6
      <4>3. \A i : Todo(w, i)' <=> Todo(w, i)
        BY <4>1, <4>2, <1>2 DEF Todo, InRange
      <4>0. PICK j : j = workers[w].i
        OBVIOUS
      <4>4. UNCHANGED <<tables, dead, status, old, iterations>> /\ (_failed => _failed')
        BY <1>2, <1>3
      <4>5. ~Todo(w, j) \/ Todo(w, j)'
        BY <4>3
      <4>6. Entry(r.i) = r.method
        BY <4>1, <2>1
      <4>7. r.at # "idle" /\ r.at # "unlink" /\ r.at \notin {"unregister", "unlink"}
        BY <4>1
      <4> QED BY <4>0, <4>3, <4>4, <4>5, <4>6, <4>7, <2>1, <1>2, <1>6, UnlinkerStep
    <3> QED BY <3>1, <3>2
  <2> QED BY <1>10, <2>4, <2>5 DEF MethodsInv
<1> QED BY <1>11, <1>12 DEF Kinds

\* What advancing has in common in the three kinds of visits.
LEMMA VisitStep ==
  ASSUME N!MethodsAssumption, MethodsInv, NEW it \in Kinds, NEW w \in N!WorkersOf(it),
         workers[w].at = "visit", N!Advance(w),
         UNCHANGED <<N!tableVars, _deferred, iterations, status, dead, N!phaseVars, N!boundVars>>,
         _failed' \in BOOLEAN, dead \subseteq armed', armed' \subseteq armed
  PROVE  /\ MethodsTypeOK' /\ TablesInv' /\ ExactInv' /\ IterationsInv' /\ PhaseInv' /\ DeadInv'
         /\ SeenInv'
<1>1. InRange(w)
  BY DEF InRange
<1>2. PICK r \in WorkerStates :
           /\ workers' = [workers EXCEPT ![w] = r]
           /\ r.method = N!Nobody /\ r.at \in {"claim", "read"}
           /\ r.at = "read" => /\ r.i = workers[w].i + 1 /\ r.end = workers[w].end
                               /\ r.i < r.end /\ r.end <= iterations[it].size
                               /\ r.end <= iterations[it].claimed
  BY <1>1, AdvanceIs
<1>3. /\ iterations' \in [Kinds -> [table : N!Tables \cup {N!NoTable}, size : Nat, claimed : Nat]]
      /\ \A x \in Kinds : /\ iterations'[x].table = iterations[x].table
                          /\ iterations'[x].size = iterations[x].size
                          /\ iterations[x].claimed <= iterations'[x].claimed
  BY DEF MethodsInv, MethodsTypeOK
<1>4. /\ r.at \in {"read", "visit", "unregister", "unlink"} =>
            r.i < r.end /\ r.end <= iterations[it].size /\ r.end <= iterations'[it].claimed
      /\ r.method = N!Nobody <=> r.at \in {"idle", "claim", "read"}
      /\ r.at \notin {"unregister", "unlink"}
      /\ r.method # N!Nobody => Kept(r.method)
  BY <1>2
<1> QED BY <1>2, <1>3, <1>4, QuietWorkerStep

LEMMA VisitYoungStep ==
  ASSUME N!MethodsAssumption, MethodsInv, NEW w \in Markers, N!VisitYoung(w)
  PROVE  MethodsInv'
<1>1. "secondary" \in Kinds /\ w \in N!WorkersOf("secondary")
  BY DEF Kinds, N!WorkersOf
<1>2. /\ workers[w].at = "visit" /\ N!Advance(w)
      /\ UNCHANGED <<N!tableVars, _deferred, iterations, _failed, status, dead, N!phaseVars, N!boundVars>>
  BY DEF N!VisitYoung
<1>3. _failed' \in BOOLEAN /\ dead \subseteq armed' /\ armed' \subseteq armed
  <2>1. \/ N!IsUnloading(workers[w].method) /\ armed' = armed
        \/ ~N!IsUnloading(workers[w].method)
             /\ (armed' = armed \/ armed' = armed \ {workers[w].method})
    BY DEF N!VisitYoung
  <2>2. dead \subseteq armed /\ _failed \in BOOLEAN
    BY DEF MethodsInv, DeadInv, MethodsTypeOK
  <2> QED BY <2>1, <2>2, <1>2 DEF N!IsUnloading
<1>4. /\ MethodsTypeOK' /\ TablesInv' /\ ExactInv' /\ IterationsInv' /\ PhaseInv' /\ DeadInv'
      /\ SeenInv'
  BY <1>1, <1>2, <1>3, VisitStep
<1>5. PICK r : workers' = [workers EXCEPT ![w] = r]
  BY DEF N!VisitYoung, N!Advance
<1>6. RangesInv' /\ UnlinkInv'
  BY <1>2, <1>5, MarkerFrame DEF N!tableVars, N!phaseVars
<1> QED BY <1>4, <1>6 DEF MethodsInv

LEMMA VisitRemapStep ==
  ASSUME N!MethodsAssumption, MethodsInv, NEW w \in Markers, N!VisitRemap(w)
  PROVE  MethodsInv'
<1>1. "secondary" \in Kinds /\ w \in N!WorkersOf("secondary")
  BY DEF Kinds, N!WorkersOf
<1>2. /\ workers[w].at = "visit" /\ N!Advance(w)
      /\ UNCHANGED <<N!tableVars, _deferred, iterations, _failed, status, dead, N!phaseVars, N!boundVars>>
  BY DEF N!VisitRemap
<1>3. _failed' \in BOOLEAN /\ dead \subseteq armed' /\ armed' \subseteq armed
  <2>1. roots = "remap" /\ armed' = armed \ {workers[w].method}
    BY DEF N!VisitRemap
  <2>2. dead = {} /\ _failed \in BOOLEAN
    BY <2>1 DEF MethodsInv, DeadInv, PhaseInv, MethodsTypeOK
  <2> QED BY <2>1, <2>2, <1>2
<1>4. /\ MethodsTypeOK' /\ TablesInv' /\ ExactInv' /\ IterationsInv' /\ PhaseInv' /\ DeadInv'
      /\ SeenInv'
  BY <1>1, <1>2, <1>3, VisitStep
<1>5. PICK r : workers' = [workers EXCEPT ![w] = r]
  BY DEF N!VisitRemap, N!Advance
<1>6. RangesInv' /\ UnlinkInv'
  BY <1>2, <1>5, MarkerFrame DEF N!tableVars, N!phaseVars
<1> QED BY <1>4, <1>6 DEF MethodsInv

LEMMA VisitUnlinkStep ==
  ASSUME N!MethodsAssumption, MethodsInv, NEW w \in Unlinkers, N!VisitUnlink(w)
  PROVE  MethodsInv'
<1>1. "primary" \in Kinds /\ w \in N!WorkersOf("primary")
  BY DEF Kinds, N!WorkersOf
<1>2. /\ workers[w].at = "visit" /\ InRange(w)
      /\ UNCHANGED <<N!tableVars, _deferred, iterations, N!methodVars, N!phaseVars, N!boundVars>>
  BY DEF N!VisitUnlink, InRange
<1>3. UNCHANGED <<tables, dead, status, armed, old>>
  BY <1>2 DEF N!tableVars, N!methodVars, N!phaseVars
<1>4. workers[w] \in WorkerStates /\ w \in DOMAIN workers /\ workers[w].method # N!Nobody
      /\ workers[w].method \in NMethods /\ workers[w].i \in Nat /\ workers[w].end \in Nat
  BY <1>2, WorkerTyped DEF WorkerStates
<1>5. dead \subseteq armed' /\ armed' \subseteq armed /\ _failed \in BOOLEAN
  BY <1>3 DEF MethodsInv, DeadInv, MethodsTypeOK
<1>6. old = "unlinking" /\ UnlinkInv
  BY <1>2, UnlinkerAtWork DEF MethodsInv
<1>7. Entry(workers[w].i) = workers[w].method
  BY <1>2, <1>6 DEF UnlinkInv
<1>8. PICK j : j = workers[w].i
  OBVIOUS
<1>9. CASE N!Advance(w) /\ (_failed => _failed') /\ _failed' \in BOOLEAN
           /\ (_failed' \/ workers[w].method \notin dead)
  <2>1. /\ MethodsTypeOK' /\ TablesInv' /\ ExactInv' /\ IterationsInv' /\ PhaseInv' /\ DeadInv'
        /\ SeenInv'
    BY <1>1, <1>2, <1>3, <1>5, <1>9, VisitStep
  <2>2. PICK r \in WorkerStates :
           /\ workers' = [workers EXCEPT ![w] = r]
           /\ r.method = N!Nobody /\ r.at \in {"claim", "read"}
           /\ r.at = "read" => /\ r.i = workers[w].i + 1 /\ r.end = workers[w].end
           /\ \A i \in Nat : Todo(w, i)' <=> Todo(w, i) /\ i # workers[w].i
    BY <1>1, <1>2, <1>9, AdvanceIs
  <2>3. RangesInv'
    <3>1. r.at \in {"read", "visit", "unregister", "unlink"} =>
            workers[w].i <= r.i /\ r.end = workers[w].end
      BY <2>2, <1>4
    <3>2. r.method # N!Nobody => \A v \in Unlinkers \ {w} : workers[v].method # r.method
      BY <2>2
    <3> QED BY <3>1, <3>2, <2>2, <1>2, RangesStep
  <2>4. UnlinkInv'
    <3>1. ~_failed' => \/ ~Todo(w, j) \/ Todo(w, j)'
                       \/ ~(Entry(j) \in dead /\ status[Entry(j)] = "registered")
      BY <1>7, <1>8, <1>9
    <3>2. r.at # "idle" /\ r.at \notin {"visit", "unregister"} /\ r.at # "unlink"
          /\ r.at \notin {"unregister", "unlink"}
      BY <2>2
    <3> QED BY <3>1, <3>2, <2>2, <1>2, <1>3, <1>8, <1>9, UnlinkerStep
  <2> QED BY <2>1, <2>3, <2>4 DEF MethodsInv
<1>10. CASE ~_failed /\ N!IsUnloading(workers[w].method) /\ N!Goto(w, "unregister") /\ _failed' = _failed
  <2> DEFINE r == [workers[w] EXCEPT !.at = "unregister"]
  <2>1. workers' = [workers EXCEPT ![w] = r] /\ r \in WorkerStates
    BY <1>4, <1>10 DEF N!Goto, WorkerStates, Labels
  <2>2. r.at = "unregister" /\ r.i = workers[w].i /\ r.end = workers[w].end
        /\ r.method = workers[w].method
    BY <1>4 DEF WorkerStates
  <2>3. workers[w].method \in dead
    BY <1>10 DEF N!IsUnloading
  <2> HIDE DEF r
  <2>4. /\ MethodsTypeOK' /\ TablesInv' /\ ExactInv' /\ IterationsInv' /\ PhaseInv' /\ DeadInv'
        /\ SeenInv'
    <3>1. /\ iterations' \in [Kinds -> [table : N!Tables \cup {N!NoTable}, size : Nat, claimed : Nat]]
          /\ \A x \in Kinds : /\ iterations'[x].table = iterations[x].table
                              /\ iterations'[x].size = iterations[x].size
                              /\ iterations[x].claimed <= iterations'[x].claimed
      BY <1>2 DEF MethodsInv, MethodsTypeOK
    <3>2. /\ workers[w].i < workers[w].end /\ workers[w].end <= iterations["primary"].size
          /\ workers[w].end <= iterations["primary"].claimed
      BY <1>1, <1>2 DEF MethodsInv, IterationsInv
    <3>3. Kept(r.method)
      BY <2>2, <1>4 DEF MethodsInv, SeenInv
    <3>4. r.method = N!Nobody <=> r.at \in {"idle", "claim", "read"}
      BY <2>2, <1>4
    <3>5. UNCHANGED <<N!tableVars, _deferred, N!phaseVars, N!boundVars, status, dead>> /\ _failed' \in BOOLEAN
          /\ workers[w].at # "idle" /\ workers[w].at # "unlink" /\ iterations' = iterations
      BY <1>2, <1>3, <1>5, <1>10
    <3> QED BY <3>1, <3>2, <3>3, <3>4, <3>5, <2>1, <2>2, <1>1, <1>5, QuietWorkerStep
  <2>5. RangesInv'
    <3>1. r.at \in {"read", "visit", "unregister", "unlink"} =>
            workers[w].i <= r.i /\ r.end = workers[w].end
      BY <2>2, <1>4
    <3>2. \A v \in Unlinkers \ {w} : workers[v].method # r.method
      BY <2>2, <1>4 DEF MethodsInv, RangesInv
    <3> QED BY <3>1, <3>2, <2>1, <1>2, RangesStep
  <2>6. UnlinkInv'
    <3>1. workers'[w] = r
      BY <2>1, <1>4
    <3>2. \A i : Todo(w, i)' <=> Todo(w, i)
      BY <2>2, <3>1, <1>2 DEF Todo, InRange
    <3>3. ~Todo(w, j) \/ Todo(w, j)'
      BY <3>2
    <3>4. r.at # "idle" /\ r.at # "unlink" /\ Entry(r.i) = r.method /\ r.method \in dead
      BY <2>2, <2>3, <1>7
    <3>5. _failed => _failed'
      BY <1>10
    <3> QED BY <3>2, <3>3, <3>4, <3>5, <2>1, <1>2, <1>3, <1>8, UnlinkerStep
  <2> QED BY <2>4, <2>5, <2>6 DEF MethodsInv
<1>11. \/ N!Advance(w) /\ (_failed => _failed') /\ _failed' \in BOOLEAN
           /\ (_failed' \/ workers[w].method \notin dead)
       \/ ~_failed /\ N!IsUnloading(workers[w].method) /\ N!Goto(w, "unregister") /\ _failed' = _failed
  <2>1. \/ _failed /\ N!Advance(w) /\ _failed' = _failed
        \/ ~_failed /\ N!IsUnloading(workers[w].method) /\ N!Goto(w, "unregister") /\ _failed' = _failed
        \/ ~_failed /\ ~N!IsUnloading(workers[w].method) /\ N!Advance(w)
             /\ _failed' \in {FALSE, refills < MaxRefills}
    BY Zenon DEF N!VisitUnlink
  <2>2. dead \subseteq armed
    BY <1>3, <1>5
  <2>3. ~N!IsUnloading(workers[w].method) => workers[w].method \notin dead
    BY <2>2 DEF N!IsUnloading
  <2>4. (refills < MaxRefills) \in BOOLEAN
    OBVIOUS
  <2>5. _failed' \in {FALSE, refills < MaxRefills} => _failed' \in BOOLEAN
    BY <2>4, Zenon
  <2> QED BY <2>1, <2>3, <2>5, <1>5, Zenon
<1> QED BY <1>9, <1>10, <1>11

\* A method that a worker has found dead is still registered.
LEMMA ToUnregister ==
  ASSUME N!MethodsAssumption, MethodsInv, NEW w \in Unlinkers, workers[w].at = "unregister"
  PROVE  LET n == workers[w].method
         IN /\ n \in NMethods /\ n \in dead /\ status[n] = "registered"
            /\ Entry(workers[w].i) = n /\ workers[w].i \in Pending
            /\ _table # N!NoTable /\ n \in Holds(tables[_table])
<1> DEFINE n == workers[w].method
<1>1. InRange(w) /\ workers[w].at # "idle"
  BY DEF InRange
<1>2. old = "unlinking" /\ UnlinkInv
  BY <1>1, UnlinkerAtWork DEF MethodsInv
<1>3. n \in NMethods /\ workers[w].i \in Nat /\ workers[w].end \in Nat
  BY WorkerTyped DEF WorkerStates
<1>4. n \in dead /\ Entry(workers[w].i) = n
  BY <1>2 DEF UnlinkInv
<1>5. workers[w].i \in 0 .. (iterations["primary"].size - 1) /\ workers[w].i < workers[w].end
  BY <1>1, HandEntry DEF MethodsInv, IterationsInv, Kinds, N!WorkersOf
<1>6. workers[w].i \in Pending
  BY <1>1, <1>3, <1>5 DEF Pending, Todo
<1>7. status[n] = "registered"
  BY <1>2, <1>4, <1>6 DEF UnlinkInv
<1>8. n \in Registered
  BY <1>3, <1>7 DEF Registered
<1> QED BY <1>3, <1>4, <1>6, <1>7, <1>8 DEF MethodsInv, ExactInv

LEMMA UnregisterNMethodStep ==
  ASSUME N!MethodsAssumption, MethodsInv, NEW w \in Unlinkers, N!UnregisterNMethod(w)
  PROVE  MethodsInv'
<1>0. PICK n : n = workers[w].method
  OBVIOUS
<1> DEFINE r == [workers[w] EXCEPT !.at = "unlink"]
           T == tables[_table]
           U == N!UnregisterEntry(T, n)
<1>1. /\ workers[w].at = "unregister"
      /\ tables' = [tables EXCEPT ![_table] = U]
      /\ _nunregistered' = _nunregistered + 1 /\ _nregistered' = _nregistered - 1
      /\ status' = [status EXCEPT ![n] = "unregistered"]
      /\ N!Goto(w, "unlink")
      /\ UNCHANGED <<_table, _deferred, iterations, _failed, armed, dead, N!phaseVars, N!boundVars>>
  BY <1>0 DEF N!UnregisterNMethod
<1>2. UNCHANGED <<_table, _deferred, iterations, _failed, armed, dead, old, roots, joined, calling,
                  unshaken, registrations>>
  BY <1>1 DEF N!phaseVars, N!boundVars
<1>3. /\ n \in NMethods /\ n \in dead /\ status[n] = "registered" /\ n # N!Nobody
      /\ Entry(workers[w].i) = n /\ workers[w].i \in Pending
      /\ _table # N!NoTable /\ n \in Holds(T)
  BY <1>0, <1>1, ToUnregister, WorkerTyped
<1>4. MethodsTypeOK /\ DeadInv /\ SeenInv /\ RangesInv /\ ExactInv
  BY DEF MethodsInv
<1>5. IsTableOf(T, N!Size) /\ Sound(T) /\ HasRoom(T) /\ _table \in N!Tables /\ T # N!Deleted
  BY <1>3, TableInUse DEF MethodsInv, ExactInv
<1>6. PICK k \in DOMAIN T :
           /\ T[k] = n
           /\ U = [T EXCEPT ![k] = N!Unregistered]
           /\ IsTableOf(U, N!Size) /\ Sound(U) /\ HasRoom(U)
           /\ Holds(U) = Holds(T) \ {n}
           /\ Filled(U) = Filled(T)
           /\ Tombs(U) = Tombs(T) \cup {k} /\ k \notin Tombs(T)
  BY <1>3, <1>5, UnregisterOld
<1>7. IsTable(U) /\ U # N!Deleted /\ DOMAIN U = DOMAIN T
  BY <1>5, <1>6, TableOf, TableSize DEF IsTableOf, IsTable
<1>8. /\ tables'[_table] = U
      /\ \A t \in N!Tables : t # _table => tables'[t] = tables[t]
      /\ tables' = [t \in N!Tables |-> tables'[t]]
  BY <1>1, <1>4, <1>5 DEF MethodsTypeOK
<1>9. InUse' = InUse
  BY <1>5, <1>7, <1>8 DEF InUse, N!Tables
<1>10. /\ status' \in [NMethods -> {"free", "registered", "unregistered", "unlinked"}]
       /\ status'[n] = "unregistered" /\ \A x \in NMethods : x # n => status'[x] = status[x]
  BY <1>1, <1>3, <1>4 DEF MethodsTypeOK
<1>11. workers' = [workers EXCEPT ![w] = r]
  BY <1>1, <1>4 DEF N!Goto, MethodsTypeOK
<1>12. /\ r \in WorkerStates /\ r.at = "unlink" /\ r.method = n
       /\ r.i = workers[w].i /\ r.end = workers[w].end
       /\ workers[w].i \in Nat /\ workers[w].end \in Nat
  BY <1>0, WorkerTyped DEF WorkerStates, Labels
<1> HIDE DEF U, r
<1>13. DOMAIN workers = Unlinkers \cup Markers /\ w \in DOMAIN workers
  BY <1>4 DEF MethodsTypeOK
<1>14. workers'[w] = r /\ \A v \in DOMAIN workers : v # w => workers'[v] = workers[v]
  BY <1>11, <1>13
<1>15. old = "unlinking" /\ UnlinkInv /\ InRange(w)
  BY <1>1, UnlinkerAtWork DEF MethodsInv, InRange
<1>16. MethodsTypeOK'
  <2>1. \A t \in N!Tables : tables'[t] = N!Deleted \/ IsTable(tables'[t])
    BY <1>4, <1>7, <1>8 DEF MethodsTypeOK
  <2>2. n \in Registered
    BY <1>3 DEF Registered
  <2>3. _nregistered \in Nat /\ _nregistered # 0
    BY <2>2, <1>4, RegisteredFinite, FS_EmptySet DEF ExactInv, MethodsTypeOK
  <2>4. _nregistered' \in Nat /\ _nunregistered' \in Nat
    <3>1. _nunregistered \in Nat
      BY <1>4 DEF MethodsTypeOK
    <3> QED BY <3>1, <2>3, <1>1
  <2>5. workers' \in [Unlinkers \cup Markers -> WorkerStates]
    BY <1>4, <1>11, <1>12 DEF MethodsTypeOK, WorkerStates
  <2> QED BY <2>1, <2>4, <2>5, <1>2, <1>4, <1>8, <1>10 DEF MethodsTypeOK, N!Tables, WorkerStates
<1>17. TablesInv'
  <2>1. TablesInv
    BY DEF MethodsInv
  <2>2. \A t \in InUse : Once(tables'[t])
    BY <2>1, <1>6, <1>8 DEF TablesInv, Sound, InUse
  <2> QED BY <2>1, <2>2, <1>2, <1>9 DEF TablesInv
<1>18. Registered' = Registered \ {n} /\ n \in Registered
  BY <1>3, <1>10 DEF Registered
<1>19. ExactInv'
  <2>1. Cardinality(Registered') = Cardinality(Registered) - 1
    BY <1>18, RegisteredFinite, FS_RemoveElement
  <2>2. Cardinality(Tombs(U)) = Cardinality(Tombs(T)) + 1
    BY <1>5, <1>6, RoomByCount, FS_AddElement
  <2>3. /\ _nregistered = Cardinality(Registered)
        /\ Holds(T) = Registered
        /\ Cardinality(DOMAIN T) \in Sizes
        /\ Cardinality(Filled(T)) = _nregistered + _nunregistered
        /\ Cardinality(Tombs(T)) = _nunregistered
        /\ _nregistered \in Nat /\ _nunregistered \in Nat
    BY <1>3, <1>4 DEF ExactInv, MethodsTypeOK
  <2>4. /\ _nregistered' = Cardinality(Registered')
        /\ Cardinality(Filled(U)) = _nregistered' + _nunregistered'
        /\ Cardinality(Tombs(U)) = _nunregistered'
    BY <2>1, <2>2, <2>3, <1>1, <1>6
  <2>5. Holds(U) = Registered' /\ Cardinality(DOMAIN U) \in Sizes
    BY <2>3, <1>6, <1>7, <1>18
  <2>6. _table' # N!NoTable /\ tables'[_table'] = U
    BY <1>2, <1>3, <1>8
  <2> QED BY <2>4, <2>5, <2>6, <1>6 DEF ExactInv, Sound, Sizes
<1>20. IterationsInv'
  <2>1. "primary" \in Kinds /\ w \in N!WorkersOf("primary")
    BY DEF Kinds, N!WorkersOf
  <2>2. \A t \in InUse : DOMAIN tables'[t] = DOMAIN tables[t]
    BY <1>7, <1>8 DEF InUse
  <2>3. /\ iterations' \in [Kinds -> [table : N!Tables \cup {N!NoTable}, size : Nat, claimed : Nat]]
        /\ \A x \in Kinds : /\ iterations'[x].table = iterations[x].table
                            /\ iterations'[x].size = iterations[x].size
                            /\ iterations[x].claimed <= iterations'[x].claimed
    BY <1>2, <1>4 DEF MethodsTypeOK
  <2>4. /\ r.i < r.end /\ r.end <= iterations["primary"].size
        /\ r.end <= iterations'["primary"].claimed
    BY <2>1, <1>2, <1>12, <1>15 DEF MethodsInv, IterationsInv
  <2>5. r.method # N!Nobody /\ r.at \notin {"idle", "claim", "read"} /\ workers[w].at # "idle"
    BY <1>1, <1>3, <1>12
  <2> QED BY <2>1, <2>2, <2>3, <2>4, <2>5, <1>2, <1>9, <1>11, <1>12, IterationsStep
<1>21. RangesInv'
  <2>1. \A v \in Unlinkers \ {w} : workers[v].method # r.method
    BY <1>0, <1>3, <1>4, <1>12 DEF RangesInv
  <2>2. workers[w].i <= r.i /\ r.end = workers[w].end
    BY <1>12
  <2> QED BY <2>1, <2>2, <1>11, <1>12, <1>15, RangesStep
<1>22. PhaseInv'
  BY <1>2 DEF MethodsInv, PhaseInv
<1>23. DeadInv'
  <2>1. N!Present' = N!Present
    BY <1>3, <1>10 DEF N!Present
  <2>2. ASSUME NEW x \in NMethods, status'[x] = "unregistered"
        PROVE  x \in dead' /\ \E v \in Unlinkers : workers'[v].at = "unlink" /\ workers'[v].method = x
    <3>1. CASE x = n
      BY <3>1, <1>2, <1>3, <1>12, <1>14
    <3>2. CASE x # n
      <4>1. status[x] = "unregistered"
        BY <2>2, <3>2, <1>10
      <4>2. PICK v \in Unlinkers : workers[v].at = "unlink" /\ workers[v].method = x
        BY <4>1, <1>4 DEF DeadInv
      <4>3. v # w
        BY <4>2, <1>1
      <4> QED BY <4>1, <4>2, <4>3, <1>2, <1>4, <1>13, <1>14 DEF DeadInv
    <3> QED BY <3>1, <3>2
  <2> QED BY <2>1, <2>2, <1>2, <1>4, <1>15 DEF DeadInv
<1> DEFINE t == iterations["primary"].table
<1>24. /\ t # N!NoTable /\ t \in InUse /\ Once(tables[t]) /\ t \in N!Tables
       /\ \A i \in Pending : i \in DOMAIN tables[t]
       /\ \A v \in Unlinkers : InRange(v) => workers[v].i \in DOMAIN tables[t]
  <2>1. t # N!NoTable /\ \A i \in Pending : i \in DOMAIN tables[t]
    BY <1>3, PendingEntry
  <2>2. t \in InUse
    BY <2>1, IterationTable DEF Kinds
  <2>3. \A v \in Unlinkers : InRange(v) => workers[v].i \in DOMAIN tables[t]
    BY HandEntry
  <2> QED BY <2>1, <2>2, <2>3 DEF MethodsInv, TablesInv, InUse
\* The entry of the method changes, if the iteration is over the table in use.
<1>25. ASSUME NEW i \in DOMAIN tables[t], tables[t][i] # n PROVE tables'[t][i] = tables[t][i]
  <2>1. CASE t # _table
    BY <2>1, <1>8, <1>24
  <2>2. CASE t = _table
    BY <2>2, <1>5, <1>6, <1>8, <1>25 DEF IsTableOf
  <2> QED BY <2>1, <2>2
<1>26. ASSUME NEW i \in DOMAIN tables[t], tables'[t][i] # tables[t][i]
       PROVE  tables'[t][i] = N!Unregistered /\ tables[t][i] = n
  <2>1. t = _table /\ tables[t][i] = n
    BY <1>8, <1>24, <1>25, <1>26
  <2>2. i = k
    BY <2>1, <1>5, <1>6, <1>3 DEF Sound, Once
  <2> QED BY <2>1, <2>2, <1>5, <1>6, <1>8 DEF IsTableOf
<1>27. \A i : Entry(i) = tables[t][i]
  BY DEF Entry
<1>28. UnlinkInv'
  <2>1. \A i : Entry(i)' = tables'[t][i]
    BY <1>2 DEF Entry
  <2>2. workers[w].i \in DOMAIN tables[t] /\ tables[t][workers[w].i] = n
    BY <1>3, <1>24, <1>27
  <2>3. \A i \in DOMAIN tables[t] : tables[t][i] = n => i = workers[w].i
    BY <2>2, <1>3, <1>24 DEF Once
  <2>4. \A v \in Unlinkers : v # w => \A i : Todo(v, i)' <=> Todo(v, i)
    BY <1>13, <1>14 DEF Todo, InRange
  <2>5. \A i \in Nat : Todo(w, i)' <=> Todo(w, i) /\ i # workers[w].i
    BY <1>1, <1>12, <1>14, <1>15 DEF Todo, InRange
  <2>6. 0 .. (iterations["primary"].size - 1) \subseteq Nat
    BY <1>4 DEF MethodsTypeOK, Kinds
  <2>7. Pending' \subseteq Pending /\ \A i \in Pending : i # workers[w].i => i \in Pending'
    BY <2>4, <2>5, <2>6, <1>2 DEF Pending
  <2>8. workers[w].i \notin Pending'
    <3>0. PICK j : j = workers[w].i
      OBVIOUS
    <3>1. workers[w].i < workers[w].end /\ workers[w].end <= iterations["primary"].claimed
          /\ iterations["primary"].claimed \in Nat
      BY <1>4, <1>15 DEF MethodsInv, IterationsInv, Kinds, N!WorkersOf, MethodsTypeOK
    <3>2. ~(j >= iterations["primary"].claimed) /\ j \in Nat
      BY <3>0, <3>1, <1>12
    <3>3. ~Todo(w, j)'
      BY <3>0, <3>2, <2>5
    <3>4. ASSUME NEW v \in Unlinkers, v # w PROVE ~Todo(v, j)
      <4>1. SUFFICES ASSUME Todo(v, j) PROVE FALSE
        OBVIOUS
      <4>2. InRange(v) /\ j < workers[v].end /\ workers[v].i <= j
        BY <4>1, <3>2, WorkerTyped DEF Todo, WorkerStates
      <4>3. workers[v].end <= workers[w].i \/ workers[w].end <= workers[v].i
        BY <4>2, <3>4, <1>4, <1>15 DEF RangesInv
      <4>4. workers[v].i \in Nat /\ workers[v].end \in Nat
        BY WorkerTyped DEF WorkerStates
      <4> QED BY <4>2, <4>3, <4>4, <3>0, <3>1, <1>12
    <3>5. \A v \in Unlinkers : ~Todo(v, j)'
      BY <3>3, <3>4, <2>4
    <3>6. j \notin Pending'
      BY <3>2, <3>5, <1>2 DEF Pending
    <3> QED BY <3>0, <3>6
  <2>9. ASSUME NEW i \in Pending' PROVE tables[t][i] # n /\ tables'[t][i] = tables[t][i]
                                        /\ i \in Pending
    <3>1. i \in Pending /\ i \in DOMAIN tables[t] /\ i # workers[w].i
      BY <2>7, <2>8, <1>24
    <3> QED BY <3>1, <2>3, <1>25
  <2>10. \A i \in Pending' : tables'[t][i] \in dead => status'[tables'[t][i]] = "registered"
    <3> SUFFICES ASSUME NEW i \in Pending', tables'[t][i] \in dead
                 PROVE  status'[tables'[t][i]] = "registered"
      OBVIOUS
    <3>1. tables'[t][i] = tables[t][i] /\ tables[t][i] # n /\ i \in Pending
      BY <2>9
    <3>2. tables[t][i] \in dead /\ dead \subseteq NMethods
      BY <3>1, <1>4 DEF MethodsTypeOK
    <3>3. status[tables[t][i]] = "registered"
      BY <3>1, <3>2, <1>15, <1>27 DEF UnlinkInv
    <3> QED BY <3>1, <3>2, <3>3, <1>10
  <2>11. ASSUME ~_failed, NEW x \in dead, status'[x] = "registered"
         PROVE  \E i \in Pending' : tables'[t][i] = x
    <3>1. x \in NMethods /\ x # n /\ status[x] = "registered"
      BY <2>11, <1>4, <1>10 DEF MethodsTypeOK
    <3>2. PICK i \in Pending : tables[t][i] = x
      BY <3>1, <2>11, <1>15, <1>27 DEF UnlinkInv
    <3>3. i \in Pending'
      BY <3>1, <3>2, <2>2, <2>7
    <3> QED BY <3>2, <3>3, <2>9
  <2>12. ASSUME NEW v \in Unlinkers
         PROVE  /\ workers'[v].at = "idle" =>
                     iterations["primary"].claimed >= iterations["primary"].size
                /\ workers'[v].at \in {"visit", "unregister"} =>
                     tables'[t][workers'[v].i] = workers'[v].method
                /\ workers'[v].at \in {"unregister", "unlink"} => workers'[v].method \in dead
                /\ workers'[v].at = "unlink" => status'[workers'[v].method] = "unregistered"
    <3>1. CASE v = w
      BY <3>1, <1>3, <1>10, <1>12, <1>14
    <3>2. CASE v # w
      <4>1. workers'[v] = workers[v] /\ workers[v].method # n
        BY <3>2, <1>0, <1>3, <1>4, <1>13, <1>14 DEF RangesInv
      <4>2. workers[v].at = "idle" => iterations["primary"].claimed >= iterations["primary"].size
        BY <1>15 DEF UnlinkInv
      <4>3. workers[v].at \in {"visit", "unregister"} => tables'[t][workers[v].i] = workers[v].method
        <5> SUFFICES ASSUME workers[v].at \in {"visit", "unregister"}
                     PROVE  tables'[t][workers[v].i] = workers[v].method
          OBVIOUS
        <5>1. tables[t][workers[v].i] = workers[v].method
          BY <1>15, <1>27 DEF UnlinkInv
        <5>2. workers[v].i \in DOMAIN tables[t]
          BY <1>24 DEF InRange
        <5> QED BY <5>1, <5>2, <4>1, <1>25
      <4>4. workers[v].at \in {"unregister", "unlink"} => workers[v].method \in dead
        BY <1>15 DEF UnlinkInv
      <4>5. workers[v].at = "unlink" => status'[workers[v].method] = "unregistered"
        BY <4>1, <4>4, <1>4, <1>10, <1>15 DEF UnlinkInv, MethodsTypeOK
      <4> QED BY <4>1, <4>2, <4>3, <4>4, <4>5
    <3> QED BY <3>1, <3>2
  <2>13. \A v \in Unlinkers : Entry(workers[v].i)' = tables'[t][workers'[v].i]
    BY <1>2 DEF Entry
  <2> HIDE DEF t
  <2> QED BY <2>1, <2>10, <2>11, <2>12, <2>13, <1>2 DEF UnlinkInv
<1>29. SeenInv'
  <2>1. ASSUME NEW x \in NMethods PROVE Kept(x) => Kept(x)'
    BY <1>2, <1>10 DEF Kept
  <2>2. ASSUME NEW it \in Kinds, iterations'[it].table # N!NoTable,
               NEW x \in Holds(tables'[iterations'[it].table])
        PROVE  Kept(x)'
    <3>1. iterations[it].table # N!NoTable /\ iterations[it].table \in N!Tables
      BY <2>2, <1>2, IterationTable DEF InUse
    <3>2. x \in Holds(tables[iterations[it].table])
      BY <2>2, <3>1, <1>2, <1>6, <1>8
    <3>3. x \in NMethods
      BY <3>2 DEF Holds
    <3> QED BY <2>1, <3>1, <3>2, <3>3, <1>4 DEF SeenInv
  <2>3. ASSUME NEW v \in DOMAIN workers', workers'[v].method # N!Nobody
        PROVE  Kept(workers[v].method)'
    <3>1. v \in Unlinkers \cup Markers /\ workers'[v].method = workers[v].method
      BY <1>0, <1>11, <1>12, <1>13
    <3>2. Kept(workers[v].method) /\ workers[v].method \in NMethods
      BY <2>3, <3>1, <1>4, <1>13, WorkerTyped DEF SeenInv
    <3>3. PICK x : x = workers[v].method
      OBVIOUS
    <3>4. Kept(x)'
      BY <2>1, <3>2, <3>3
    <3> QED BY <3>1, <3>3, <3>4 DEF Kept
  <2>4. ASSUME NEW m \in Mutators, calling'[m] # N!Nobody PROVE Kept(calling[m])'
    <3>1. calling' = calling /\ Kept(calling[m]) /\ calling[m] \in NMethods
      BY <2>4, <1>2, <1>4 DEF SeenInv, MethodsTypeOK
    <3>2. PICK x : x = calling[m]
      OBVIOUS
    <3>3. Kept(x)'
      BY <2>1, <3>1, <3>2
    <3> QED BY <3>1, <3>2, <3>3 DEF Kept
  <2> QED BY <2>2, <2>3, <2>4, <1>2, <1>15 DEF SeenInv, Kinds
<1> QED BY <1>16, <1>17, <1>19, <1>20, <1>21, <1>22, <1>23, <1>28, <1>29 DEF MethodsInv

LEMMA UnlinkNMethodStep ==
  ASSUME N!MethodsAssumption, MethodsInv, NEW w \in Unlinkers, N!UnlinkNMethod(w)
  PROVE  MethodsInv'
<1>0. PICK n : n = workers[w].method
  OBVIOUS
<1>1. /\ workers[w].at = "unlink" /\ InRange(w)
      /\ status' = [status EXCEPT ![n] = "unlinked"]
      /\ N!Advance(w)
      /\ UNCHANGED <<N!tableVars, _deferred, iterations, _failed, armed, dead, N!phaseVars, N!boundVars>>
  BY <1>0 DEF N!UnlinkNMethod, InRange
<1>2. UNCHANGED <<tables, _table, _deferred, iterations, _failed, armed, dead, old, roots, joined,
                  calling, unshaken, registrations>>
  BY <1>1 DEF N!tableVars, N!phaseVars, N!boundVars
<1>3. old = "unlinking" /\ UnlinkInv
  BY <1>1, UnlinkerAtWork DEF MethodsInv
<1>4. MethodsTypeOK /\ DeadInv /\ SeenInv /\ RangesInv
  BY DEF MethodsInv
<1>5. n \in NMethods /\ n \in dead /\ status[n] = "unregistered" /\ n # N!Nobody
  BY <1>0, <1>1, <1>3, WorkerTyped DEF UnlinkInv
<1>6. /\ status' \in [NMethods -> {"free", "registered", "unregistered", "unlinked"}]
      /\ status'[n] = "unlinked" /\ \A x \in NMethods : x # n => status'[x] = status[x]
  BY <1>1, <1>4, <1>5 DEF MethodsTypeOK
<1>7. "primary" \in Kinds /\ w \in N!WorkersOf("primary")
  BY DEF Kinds, N!WorkersOf
<1>8. PICK r \in WorkerStates :
           /\ workers' = [workers EXCEPT ![w] = r]
           /\ r.method = N!Nobody /\ r.at \in {"claim", "read"}
           /\ r.at = "read" => /\ r.i = workers[w].i + 1 /\ r.end = workers[w].end
                               /\ r.i < r.end /\ r.end <= iterations["primary"].size
                               /\ r.end <= iterations["primary"].claimed
           /\ \A i \in Nat : Todo(w, i)' <=> Todo(w, i) /\ i # workers[w].i
  BY <1>1, <1>7, AdvanceIs
<1>9. DOMAIN workers = Unlinkers \cup Markers /\ w \in DOMAIN workers
  BY <1>4 DEF MethodsTypeOK
<1>10. workers'[w] = r /\ \A v \in DOMAIN workers : v # w => workers'[v] = workers[v]
  BY <1>8, <1>9
<1>11. workers[w].i \in Nat
  BY WorkerTyped DEF WorkerStates
<1>12. MethodsTypeOK'
  <2>1. workers' \in [Unlinkers \cup Markers -> WorkerStates]
    BY <1>4, <1>8 DEF MethodsTypeOK, WorkerStates
  <2> QED BY <2>1, <1>1, <1>2, <1>4, <1>6 DEF MethodsTypeOK, N!Tables, WorkerStates, N!tableVars
<1>13. TablesInv' /\ ExactInv'
  <2>1. Registered' = Registered
    BY <1>5, <1>6 DEF Registered
  <2> QED BY <2>1, <1>1, <1>2, TablesFrame
<1>14. IterationsInv'
  <2>1. InUse' = InUse
    BY <1>2 DEF InUse, N!Tables
  <2>2. /\ iterations' \in [Kinds -> [table : N!Tables \cup {N!NoTable}, size : Nat, claimed : Nat]]
        /\ \A x \in Kinds : /\ iterations'[x].table = iterations[x].table
                            /\ iterations'[x].size = iterations[x].size
                            /\ iterations[x].claimed <= iterations'[x].claimed
    BY <1>2, <1>4 DEF MethodsTypeOK
  <2>3. workers[w].at # "idle" /\ r.at \notin {"unregister", "unlink"}
    BY <1>1, <1>8
  <2> QED BY <2>1, <2>2, <2>3, <1>2, <1>7, <1>8, IterationsStep
<1>15. RangesInv'
  <2>1. r.at \in {"read", "visit", "unregister", "unlink"} =>
          workers[w].i <= r.i /\ r.end = workers[w].end
    BY <1>8, <1>11
  <2> QED BY <2>1, <1>1, <1>8, RangesStep
<1>16. PhaseInv'
  BY <1>2 DEF MethodsInv, PhaseInv
<1>17. DeadInv'
  <2>1. N!Present' = N!Present
    BY <1>5, <1>6 DEF N!Present
  <2>2. ASSUME NEW x \in NMethods, status'[x] = "unregistered"
        PROVE  x \in dead' /\ \E v \in Unlinkers : workers'[v].at = "unlink" /\ workers'[v].method = x
    <3>1. x # n /\ status[x] = "unregistered"
      BY <2>2, <1>6
    <3>2. PICK v \in Unlinkers : workers[v].at = "unlink" /\ workers[v].method = x
      BY <3>1, <1>4 DEF DeadInv
    <3>3. v # w
      BY <3>1, <3>2, <1>0
    <3> QED BY <3>1, <3>2, <3>3, <1>2, <1>4, <1>9, <1>10 DEF DeadInv
  <2> QED BY <2>1, <2>2, <1>2, <1>3, <1>4 DEF DeadInv
<1>18. UnlinkInv'
  <2>1. \A i : Entry(i)' = Entry(i)
    BY <1>2 DEF Entry
  <2>2. \A v \in Unlinkers : v # w => \A i : Todo(v, i)' <=> Todo(v, i)
    BY <1>9, <1>10 DEF Todo, InRange
  <2>3. ASSUME NEW i \in Nat PROVE Todo(w, i)' <=> Todo(w, i)
    <3>1. Todo(w, i) => i # workers[w].i
      BY <1>1, <1>11 DEF Todo
    <3> QED BY <3>1, <1>8
  <2>4. 0 .. (iterations["primary"].size - 1) \subseteq Nat
    BY <1>4 DEF MethodsTypeOK, Kinds
  <2>5. Pending' = Pending
    BY <2>2, <2>3, <2>4, <1>2 DEF Pending
  <2>6. \A i \in Pending : Entry(i) \in dead => status'[Entry(i)] = "registered"
    BY <1>3, <1>4, <1>5, <1>6 DEF UnlinkInv, MethodsTypeOK
  <2>7. \A x \in dead : status'[x] = "registered" => status[x] = "registered"
    BY <1>4, <1>6 DEF MethodsTypeOK
  <2>8. ASSUME NEW v \in Unlinkers
        PROVE  /\ workers'[v].at = "idle" =>
                     iterations["primary"].claimed >= iterations["primary"].size
               /\ workers'[v].at \in {"visit", "unregister"} =>
                     Entry(workers'[v].i) = workers'[v].method
               /\ workers'[v].at \in {"unregister", "unlink"} => workers'[v].method \in dead
               /\ workers'[v].at = "unlink" => status'[workers'[v].method] = "unregistered"
    <3>1. CASE v = w
      BY <3>1, <1>8, <1>10
    <3>2. CASE v # w
      <4>1. workers'[v] = workers[v] /\ workers[v].method # n
        BY <3>2, <1>0, <1>5, <1>4, <1>9, <1>10 DEF RangesInv
      <4>2. workers[v].at = "unlink" => status'[workers[v].method] = "unregistered"
        BY <4>1, <1>3, <1>4, <1>6 DEF UnlinkInv, MethodsTypeOK
      <4> QED BY <4>1, <4>2, <1>3 DEF UnlinkInv
    <3> QED BY <3>1, <3>2
  <2>9. \A v \in Unlinkers : Entry(workers[v].i)' = Entry(workers'[v].i)
    BY <1>2 DEF Entry
  <2> QED BY <2>1, <2>5, <2>6, <2>7, <2>8, <2>9, <1>2, <1>3 DEF UnlinkInv
<1>19. SeenInv'
  <2>1. ASSUME NEW x \in NMethods PROVE Kept(x) => Kept(x)'
    BY <1>2, <1>3, <1>6 DEF Kept
  <2>2. \A T : Holds(T) \subseteq NMethods
    BY DEF Holds
  <2>3. \A it \in Kinds : iterations'[it].table # N!NoTable =>
          \A x \in Holds(tables'[iterations'[it].table]) : Kept(x)'
    BY <2>1, <2>2, <1>2, <1>4 DEF SeenInv
  <2>4. ASSUME NEW v \in DOMAIN workers', workers'[v].method # N!Nobody
        PROVE  Kept(workers[v].method)'
    <3>1. PICK x : x = workers'[v].method
      OBVIOUS
    <3>2. v # w /\ v \in DOMAIN workers /\ workers'[v] = workers[v]
      BY <2>4, <1>8, <1>9, <1>10
    <3>3. Kept(x) /\ x \in NMethods
      BY <2>4, <3>1, <3>2, <1>4, <1>9, WorkerTyped DEF SeenInv
    <3>4. Kept(x)'
      BY <2>1, <3>3
    <3> QED BY <3>1, <3>4 DEF Kept
  <2>5. ASSUME NEW m \in Mutators, calling'[m] # N!Nobody PROVE Kept(calling[m])'
    <3>1. PICK x : x = calling'[m]
      OBVIOUS
    <3>2. Kept(x) /\ x \in NMethods
      BY <2>5, <3>1, <1>2, <1>4 DEF SeenInv, MethodsTypeOK
    <3>3. Kept(x)'
      BY <2>1, <3>2
    <3> QED BY <3>1, <3>3 DEF Kept
  <2> QED BY <2>3, <2>4, <2>5, <1>2, <1>3 DEF SeenInv, Kinds
<1> QED BY <1>12, <1>13, <1>14, <1>15, <1>16, <1>17, <1>18, <1>19 DEF MethodsInv

-----------------------------------------------------------------------------
\* Iterations begin and end.
Deferral == [count : Nat, array : SUBSET N!Tables]
IterationStates == [Kinds -> [table : N!Tables \cup {N!NoTable}, size : Nat, claimed : Nat]]

LEMMA DeferredCount ==
  ASSUME MethodsInv
  PROVE  /\ _deferred.count = (IF Iterates("primary") THEN 1 ELSE 0)
                                + (IF Iterates("secondary") THEN 1 ELSE 0)
         /\ _deferred.count = 0 => _deferred.array = {}
BY DEF MethodsInv, IterationsInv, Iterates

\* A new iteration reads the current table, as it is now.
LEMMA BeginStep ==
  ASSUME N!MethodsAssumption, MethodsInv, NEW it \in Kinds, ~Iterates(it), Iterates(it)',
         \A x \in Kinds : x # it => (Iterates(x)' <=> Iterates(x)),
         N!NMethodsDoBegin(it), registrations' = registrations, status' = status
  PROVE  /\ TablesInv' /\ ExactInv' /\ IterationsInv'
         /\ iterations' \in IterationStates /\ _deferred' \in Deferral
         /\ workers' \in [Unlinkers \cup Markers -> WorkerStates]
         /\ tables' = tables /\ UNCHANGED N!tableVars
         /\ iterations'[it] = [table |-> _table, size |-> N!Size, claimed |-> 0]
         /\ \A x \in Kinds : x # it => iterations'[x] = iterations[x]
         /\ \A v \in N!WorkersOf(it) : workers'[v] = [N!Idle EXCEPT !.at = "claim"]
         /\ \A v \in (Unlinkers \cup Markers) \ N!WorkersOf(it) : workers'[v] = workers[v]
<1>1. MethodsTypeOK /\ IterationsInv
  BY DEF MethodsInv
<1>2. /\ _deferred' = [_deferred EXCEPT !.count = _deferred.count + 1]
      /\ iterations' = [iterations EXCEPT ![it] = [table |-> _table, size |-> N!Size, claimed |-> 0]]
      /\ workers' = [w \in DOMAIN workers |->
            IF w \in N!WorkersOf(it) THEN [N!Idle EXCEPT !.at = "claim"] ELSE workers[w]]
      /\ UNCHANGED N!tableVars
  BY DEF N!NMethodsDoBegin, N!EnableDeferredDelete
<1>3. UNCHANGED <<tables, _table, _nregistered, _nunregistered>>
  BY <1>2 DEF N!tableVars
<1>4. DOMAIN workers = Unlinkers \cup Markers /\ N!WorkersOf(it) \subseteq Unlinkers \cup Markers
  BY <1>1 DEF MethodsTypeOK, N!WorkersOf
<1>5. N!Size \in Nat /\ _table \in N!Tables \cup {N!NoTable}
  BY <1>1, TableInUse DEF MethodsTypeOK
<1>6. iterations' \in IterationStates
      /\ iterations'[it] = [table |-> _table, size |-> N!Size, claimed |-> 0]
      /\ \A x \in Kinds : x # it => iterations'[x] = iterations[x]
  BY <1>1, <1>2, <1>5 DEF MethodsTypeOK, IterationStates
<1>7. _deferred' \in Deferral /\ _deferred'.count = _deferred.count + 1
      /\ _deferred'.array = _deferred.array /\ _deferred.count \in Nat
  BY <1>1, <1>2 DEF MethodsTypeOK, Deferral
<1>8. [N!Idle EXCEPT !.at = "claim"] \in WorkerStates
  BY DEF N!Idle, WorkerStates, Labels
<1>9. /\ workers' \in [Unlinkers \cup Markers -> WorkerStates]
      /\ \A v \in N!WorkersOf(it) : workers'[v] = [N!Idle EXCEPT !.at = "claim"]
      /\ \A v \in (Unlinkers \cup Markers) \ N!WorkersOf(it) : workers'[v] = workers[v]
  BY <1>1, <1>2, <1>4, <1>8 DEF MethodsTypeOK, WorkerStates
<1>10. InUse' = InUse
  BY <1>3 DEF InUse, N!Tables
<1>11. TablesInv'
  BY <1>3, <1>7, <1>10 DEF MethodsInv, TablesInv
<1>12. ExactInv'
  <2>1. Registered' = Registered
    BY DEF Registered
  <2> QED BY <2>1, <1>3 DEF MethodsInv, ExactInv, Sizes
<1>13. IterationsInv'
  <2>1. _deferred'.count = (IF Iterates("primary")' THEN 1 ELSE 0)
                              + (IF Iterates("secondary")' THEN 1 ELSE 0)
    BY <1>7, DeferredCount DEF Kinds
  <2>2. _deferred'.count # 0
    BY <1>7
  <2>3. IF _table = N!NoTable THEN N!Size = 0
        ELSE _table \in InUse /\ DOMAIN tables[_table] = 0 .. (N!Size - 1)
    BY TableInUse, TableSize DEF InUse
  <2>4. ASSUME NEW x \in Kinds
        PROVE  /\ ~Iterates(x)' => iterations'[x].table = N!NoTable
                                   /\ \A v \in N!WorkersOf(x) : workers'[v].at = "idle"
               /\ IF iterations'[x].table = N!NoTable THEN iterations'[x].size = 0
                  ELSE /\ iterations'[x].table \in InUse
                       /\ DOMAIN tables'[iterations'[x].table] = 0 .. (iterations'[x].size - 1)
               /\ \A v \in N!WorkersOf(x) : InRange(v)' =>
                    /\ workers'[v].i < workers'[v].end
                    /\ workers'[v].end <= iterations'[x].size
                    /\ workers'[v].end <= iterations'[x].claimed
    <3>1. CASE x = it
      <4>1. \A v \in N!WorkersOf(x) : ~InRange(v)'
        BY <3>1, <1>9 DEF InRange, N!Idle
      <4> QED BY <4>1, <3>1, <2>3, <1>3, <1>6
    <3>2. CASE x # it
      <4>1. \A v \in N!WorkersOf(x) : v \in (Unlinkers \cup Markers) \ N!WorkersOf(it)
        BY <3>2 DEF N!WorkersOf, Kinds, N!MethodsAssumption
      <4>2. \A v \in N!WorkersOf(x) : workers'[v] = workers[v] /\ (InRange(v)' <=> InRange(v))
        BY <4>1, <1>9 DEF InRange
      <4>3. iterations'[x] = iterations[x] /\ (Iterates(x)' <=> Iterates(x))
        BY <3>2, <1>6
      <4> QED BY <4>2, <4>3, <1>1, <1>3 DEF IterationsInv
    <3> QED BY <3>1, <3>2
  <2>5. \A v \in DOMAIN workers' :
          workers'[v].method = N!Nobody <=> workers'[v].at \in {"idle", "claim", "read"}
    <3> SUFFICES ASSUME NEW v \in Unlinkers \cup Markers
                 PROVE  workers'[v].method = N!Nobody <=> workers'[v].at \in {"idle", "claim", "read"}
      BY <1>9
    <3>1. CASE v \in N!WorkersOf(it)
      BY <3>1, <1>9 DEF N!Idle
    <3>2. CASE v \notin N!WorkersOf(it)
      BY <3>2, <1>1, <1>4, <1>9 DEF IterationsInv
    <3> QED BY <3>1, <3>2
  <2>6. \A v \in Markers : workers'[v].at \notin {"unregister", "unlink"}
    <3> SUFFICES ASSUME NEW v \in Markers PROVE workers'[v].at \notin {"unregister", "unlink"}
      OBVIOUS
    <3>1. CASE v \in N!WorkersOf(it)
      BY <3>1, <1>9 DEF N!Idle
    <3>2. CASE v \notin N!WorkersOf(it)
      BY <3>2, <1>1, <1>4, <1>9 DEF IterationsInv
    <3> QED BY <3>1, <3>2
  <2>7. \A x : N!WorkersOf(x)' = N!WorkersOf(x)
    BY DEF N!WorkersOf
  <2>8. _deferred'.count = (IF old' = "unlinking" THEN 1 ELSE 0) + (IF joined' THEN 1 ELSE 0)
    BY <2>1 DEF Iterates
  <2> QED BY <2>2, <2>4, <2>5, <2>6, <2>7, <2>8, <1>10 DEF IterationsInv, Kinds
<1> QED BY <1>3, <1>2, <1>6, <1>7, <1>9, <1>11, <1>12, <1>13

\* What the last iteration deletes, nobody uses.
LEMMA EndStep ==
  ASSUME N!MethodsAssumption, MethodsInv, NEW it \in Kinds, Iterates(it), ~Iterates(it)',
         \A x \in Kinds : x # it => (Iterates(x)' <=> Iterates(x)),
         N!NMethodsDoEnd(it), registrations' = registrations, status' = status
  PROVE  /\ TablesInv' /\ ExactInv' /\ IterationsInv'
         /\ iterations' \in IterationStates /\ _deferred' \in Deferral
         /\ tables' = [t \in N!Tables |-> tables'[t]]
         /\ \A t \in N!Tables : tables'[t] = N!Deleted \/ tables'[t] = tables[t]
         /\ UNCHANGED <<_table, _nregistered, _nunregistered, workers>>
         /\ \A v \in N!WorkersOf(it) : workers[v].at = "idle"
         /\ \A x \in Kinds : iterations'[x] = IF x = it THEN N!NoIteration ELSE iterations[x]
         /\ \A x \in Kinds : iterations'[x].table # N!NoTable =>
              tables'[iterations'[x].table] = tables[iterations'[x].table]
<1>1. MethodsTypeOK /\ IterationsInv /\ TablesInv /\ ExactInv
  BY DEF MethodsInv
<1>2. /\ \A v \in N!WorkersOf(it) : workers[v].at = "idle"
      /\ iterations' = [iterations EXCEPT ![it] = N!NoIteration]
      /\ N!DisableDeferredDelete
      /\ UNCHANGED <<_table, _nregistered, _nunregistered, workers>>
  BY DEF N!NMethodsDoEnd
<1>3. iterations' \in IterationStates
      /\ \A x \in Kinds : iterations'[x] = IF x = it THEN N!NoIteration ELSE iterations[x]
  BY <1>1, <1>2 DEF MethodsTypeOK, IterationStates, N!NoIteration
<1>4. PICK other \in Kinds : other # it /\ \A x \in Kinds : x = it \/ x = other
  BY DEF Kinds
<1>5. _deferred.count = 1 + (IF Iterates(other) THEN 1 ELSE 0)
      /\ _deferred.count \in Nat
  BY <1>1, <1>4, DeferredCount DEF Kinds, MethodsTypeOK
<1>6. CASE Iterates(other)
  <2>1. _deferred.count # 1
    BY <1>5, <1>6
  <2>2. _deferred' = [_deferred EXCEPT !.count = _deferred.count - 1] /\ tables' = tables
    BY <2>1, <1>2 DEF N!DisableDeferredDelete
  <2>3. _deferred' \in Deferral /\ _deferred'.count = 1 /\ _deferred'.array = _deferred.array
    BY <2>2, <1>1, <1>5, <1>6 DEF Deferral, MethodsTypeOK
  <2>4. InUse' = InUse
    BY <2>2 DEF InUse, N!Tables
  <2>5. TablesInv'
    BY <2>2, <2>3, <2>4, <1>1, <1>2 DEF TablesInv
  <2>6. ExactInv'
    <3>1. Registered' = Registered
      BY DEF Registered
    <3> QED BY <3>1, <2>2, <1>1, <1>2 DEF ExactInv, Sizes
  <2>7. IterationsInv'
    <3>1. _deferred'.count = (IF Iterates("primary")' THEN 1 ELSE 0)
                                + (IF Iterates("secondary")' THEN 1 ELSE 0)
      BY <2>3, <1>4, <1>6 DEF Kinds
    <3>2. _deferred'.count = (IF old' = "unlinking" THEN 1 ELSE 0) + (IF joined' THEN 1 ELSE 0)
      BY <3>1 DEF Iterates
    <3>3. ASSUME NEW x \in Kinds
          PROVE  /\ ~Iterates(x)' => iterations'[x].table = N!NoTable
                                     /\ \A v \in N!WorkersOf(x) : workers[v].at = "idle"
                 /\ IF iterations'[x].table = N!NoTable THEN iterations'[x].size = 0
                    ELSE /\ iterations'[x].table \in InUse
                         /\ DOMAIN tables[iterations'[x].table] = 0 .. (iterations'[x].size - 1)
                 /\ \A v \in N!WorkersOf(x) : InRange(v) =>
                      /\ workers[v].i < workers[v].end
                      /\ workers[v].end <= iterations'[x].size
                      /\ workers[v].end <= iterations'[x].claimed
      <4>1. CASE x = it
        <5>1. \A v \in N!WorkersOf(x) : ~InRange(v)
          BY <4>1, <1>2 DEF InRange
        <5> QED BY <4>1, <5>1, <1>2, <1>3 DEF N!NoIteration
      <4>2. CASE x # it
        BY <4>2, <1>1, <1>3 DEF IterationsInv
      <4> QED BY <4>1, <4>2
    <3>4. \A x : N!WorkersOf(x)' = N!WorkersOf(x)
      BY DEF N!WorkersOf
    <3>5. \A v : InRange(v)' <=> InRange(v)
      BY <1>2 DEF InRange
    <3> QED BY <3>2, <3>3, <3>4, <3>5, <2>2, <2>3, <2>4, <1>1, <1>2 DEF IterationsInv, Kinds
  <2>8. tables' = [t \in N!Tables |-> tables'[t]]
    BY <2>2, <1>1 DEF MethodsTypeOK
  <2> QED BY <2>2, <2>3, <2>5, <2>6, <2>7, <2>8, <1>2, <1>3
<1>7. CASE ~Iterates(other)
  <2>1. _deferred.count = 1
    BY <1>5, <1>7
  <2>2. _deferred' = [count |-> 0, array |-> {}] /\ tables' = N!ImmediateDelete(_deferred.array)
    BY <2>1, <1>2 DEF N!DisableDeferredDelete
  <2>3. _deferred' \in Deferral
    BY <2>2 DEF Deferral
  <2>4. /\ tables' = [t \in N!Tables |-> tables'[t]]
        /\ \A t \in N!Tables : tables'[t] = IF t \in _deferred.array THEN N!Deleted ELSE tables[t]
    BY <2>2 DEF N!ImmediateDelete
  <2>5. InUse' = InUse \ _deferred.array
    BY <2>4 DEF InUse, N!Tables
  <2>6. TablesInv'
    <3>1. Cardinality(InUse') <= registrations
      <4>1. IsFiniteSet(N!Tables) /\ InUse \in SUBSET N!Tables
        BY FS_Interval DEF N!Tables, InUse, N!MethodsAssumption
      <4>2. IsFiniteSet(InUse)
        BY <4>1, FS_Subset
      <4>3. InUse' \in SUBSET InUse
        BY <2>5
      <4>4. Cardinality(InUse') <= Cardinality(InUse) /\ IsFiniteSet(InUse')
        BY <4>2, <4>3, FS_Subset
      <4>5. Cardinality(InUse') \in Nat /\ Cardinality(InUse) \in Nat
        BY <4>2, <4>4, FS_CardinalityType
      <4>6. Cardinality(InUse) <= registrations /\ registrations \in Nat
        BY <1>1 DEF TablesInv, MethodsTypeOK, N!MethodsAssumption
      <4> QED BY <4>4, <4>5, <4>6
    <3>2. \A t \in InUse' : t \in InUse /\ tables'[t] = tables[t]
      BY <2>4, <2>5 DEF InUse
    <3> QED BY <3>1, <3>2, <2>2, <2>5, <1>1, <1>2 DEF TablesInv
  <2>7. ExactInv'
    <3>1. Registered' = Registered
      BY DEF Registered
    <3>2. _table # N!NoTable => tables'[_table] = tables[_table]
      BY <2>4, <1>1 DEF TablesInv, InUse
    <3> QED BY <3>1, <3>2, <1>1, <1>2 DEF ExactInv, Sizes
  <2>8. \A x \in Kinds : iterations'[x].table = N!NoTable /\ iterations'[x].size = 0
                         /\ \A v \in N!WorkersOf(x) : workers[v].at = "idle"
    <3>1. iterations[other].table = N!NoTable /\ iterations[other].size = 0
          /\ \A v \in N!WorkersOf(other) : workers[v].at = "idle"
      BY <1>1, <1>7 DEF IterationsInv
    <3> QED BY <3>1, <1>2, <1>3, <1>4 DEF N!NoIteration
  <2>9. IterationsInv'
    <3>1. \A x \in Kinds : ~Iterates(x)'
      BY <1>4, <1>7
    <3>2. old' # "unlinking" /\ ~joined'
      BY <3>1 DEF Iterates, Kinds
    <3>3. \A x : N!WorkersOf(x)' = N!WorkersOf(x)
      BY DEF N!WorkersOf
    <3>4. \A x \in Kinds : \A v \in N!WorkersOf(x) : ~InRange(v)'
      BY <2>8, <1>2 DEF InRange
    <3>5. _deferred'.count = 0 /\ _deferred'.array = {}
      BY <2>2
    <3> QED BY <3>2, <3>3, <3>4, <3>5, <2>8, <1>1, <1>2 DEF IterationsInv, Kinds
  <2> QED BY <2>3, <2>4, <2>6, <2>7, <2>8, <2>9, <1>2, <1>3
<1> QED BY <1>6, <1>7

LEMMA UnlinkBeginStep ==
  ASSUME N!MethodsAssumption, MethodsInv, N!UnlinkBegin
  PROVE  MethodsInv'
<1>1. /\ old = "marked" /\ old' = "unlinking" /\ N!NMethodsDoBegin("primary") /\ _failed' = FALSE
      /\ UNCHANGED <<status, armed, dead, roots, joined, calling, unshaken, registrations>>
  BY DEF N!UnlinkBegin, N!methodVars, N!boundVars
<1>2. MethodsTypeOK /\ ExactInv /\ IterationsInv /\ DeadInv /\ SeenInv /\ PhaseInv
  BY DEF MethodsInv
<1>3. "primary" \in Kinds /\ ~Iterates("primary") /\ Iterates("primary")'
      /\ \A x \in Kinds : x # "primary" => (Iterates(x)' <=> Iterates(x))
  BY <1>1 DEF Kinds, Iterates
<1>4. /\ TablesInv' /\ ExactInv' /\ IterationsInv'
      /\ iterations' \in IterationStates /\ _deferred' \in Deferral
      /\ workers' \in [Unlinkers \cup Markers -> WorkerStates]
      /\ tables' = tables /\ UNCHANGED N!tableVars
      /\ iterations'["primary"] = [table |-> _table, size |-> N!Size, claimed |-> 0]
      /\ \A x \in Kinds : x # "primary" => iterations'[x] = iterations[x]
      /\ \A v \in N!WorkersOf("primary") : workers'[v] = [N!Idle EXCEPT !.at = "claim"]
      /\ \A v \in (Unlinkers \cup Markers) \ N!WorkersOf("primary") : workers'[v] = workers[v]
  BY <1>1, <1>3, BeginStep
<1>5. \A v \in Unlinkers : workers'[v].at = "claim" /\ workers'[v].method = N!Nobody
  BY <1>4 DEF N!WorkersOf, N!Idle
<1>6. MethodsTypeOK'
  BY <1>1, <1>2, <1>4 DEF MethodsTypeOK, N!Tables, Phases, IterationStates, Deferral, WorkerStates,
     N!tableVars
<1>7. \A v \in Unlinkers : workers[v].at = "idle"
  BY <1>1, <1>2 DEF IterationsInv, Iterates, Kinds, N!WorkersOf
<1>8. RangesInv'
  BY <1>5 DEF RangesInv, InRange
<1>9. PhaseInv'
  BY <1>1, <1>2 DEF PhaseInv
<1>10. DeadInv'
  <2>1. \A n \in NMethods : status[n] # "unregistered"
    BY <1>2, <1>7 DEF DeadInv
  <2> QED BY <2>1, <1>1, <1>2 DEF DeadInv, N!Present
<1>11. ASSUME NEW i \in 0 .. (N!Size - 1)
       PROVE  _table # N!NoTable /\ i \in DOMAIN tables[_table]
  BY <1>11, TableInUse, TableSize
<1>12. UnlinkInv'
  <2>1. \A v \in Unlinkers : ~InRange(v)'
    BY <1>5 DEF InRange
  <2>2. Pending' = 0 .. (N!Size - 1)
    <3>1. \A v \in Unlinkers : \A i : ~Todo(v, i)'
      BY <2>1 DEF Todo
    <3> QED BY <3>1, <1>4 DEF Pending
  <2>3. \A i : Entry(i)' = tables[_table][i]
    BY <1>4 DEF Entry
  <2>4. ASSUME NEW i \in 0 .. (N!Size - 1), tables[_table][i] \in dead
        PROVE  status[tables[_table][i]] = "registered"
    <3>1. tables[_table][i] \in Holds(tables[_table])
      BY <2>4, <1>2, <1>11 DEF Holds, MethodsTypeOK
    <3> QED BY <3>1, <1>2, <1>11 DEF ExactInv, Registered
  <2>5. ASSUME NEW n \in dead, status[n] = "registered"
        PROVE  \E i \in 0 .. (N!Size - 1) : tables[_table][i] = n
    <3>1. n \in Registered
      BY <2>5, <1>2 DEF Registered, MethodsTypeOK
    <3>2. _table # N!NoTable /\ n \in Holds(tables[_table])
      BY <3>1, <1>2 DEF ExactInv
    <3>3. DOMAIN tables[_table] = 0 .. (N!Size - 1)
      BY <3>2, TableInUse, TableSize
    <3> QED BY <3>2, <3>3 DEF Holds
  <2> QED BY <2>2, <2>3, <2>4, <2>5, <1>1, <1>5 DEF UnlinkInv
<1>13. SeenInv'
  <2>1. \A n \in NMethods : Kept(n)' <=> status[n] # "free"
    BY <1>1 DEF Kept
  <2>2. \A n \in NMethods : Kept(n) => Kept(n)'
    BY <2>1 DEF Kept
  <2>3. ASSUME NEW it \in Kinds, iterations'[it].table # N!NoTable,
               NEW n \in Holds(tables'[iterations'[it].table])
        PROVE  Kept(n)'
    <3>1. n \in NMethods
      BY <2>3 DEF Holds
    <3>2. CASE it = "primary"
      <4>1. _table # N!NoTable /\ n \in Registered
        BY <2>3, <3>2, <1>2, <1>4 DEF ExactInv
      <4> QED BY <4>1, <2>1 DEF Registered
    <3>3. CASE it # "primary"
      BY <2>2, <2>3, <3>1, <3>3, <1>2, <1>4 DEF SeenInv
    <3> QED BY <3>2, <3>3
  <2>4. ASSUME NEW v \in DOMAIN workers', workers'[v].method # N!Nobody
        PROVE  Kept(workers[v].method)'
    <3>1. PICK x : x = workers'[v].method
      OBVIOUS
    <3>2. v \in (Unlinkers \cup Markers) \ N!WorkersOf("primary") /\ workers'[v] = workers[v]
      BY <2>4, <1>4, <1>5 DEF N!WorkersOf
    <3>3. Kept(x) /\ x \in NMethods
      BY <2>4, <3>1, <3>2, <1>2, WorkerTyped DEF SeenInv
    <3>4. Kept(x)'
      BY <2>2, <3>3
    <3> QED BY <3>1, <3>4 DEF Kept
  <2>5. ASSUME NEW m \in Mutators, calling'[m] # N!Nobody PROVE Kept(calling[m])'
    <3>1. PICK x : x = calling'[m]
      OBVIOUS
    <3>2. Kept(x) /\ x \in NMethods
      BY <2>5, <3>1, <1>1, <1>2 DEF SeenInv, MethodsTypeOK
    <3>3. Kept(x)'
      BY <2>2, <3>2
    <3> QED BY <3>1, <3>3 DEF Kept
  <2> QED BY <2>3, <2>4, <2>5, <1>1 DEF SeenInv
<1> QED BY <1>4, <1>6, <1>8, <1>9, <1>10, <1>12, <1>13 DEF MethodsInv

\* When the workers have dealt with every entry, unless cleaning a cache failed,
\* all with a dead oop are unlinked.
LEMMA UnlinkEndStep ==
  ASSUME N!MethodsAssumption, MethodsInv, N!UnlinkEnd
  PROVE  MethodsInv'
<1>1. /\ old = "unlinking" /\ N!NMethodsDoEnd("primary")
      /\ \/ _failed /\ old' = "marked" /\ unshaken' = unshaken
         \/ ~_failed /\ old' = "handshake" /\ unshaken' = Mutators
      /\ UNCHANGED <<_failed, status, armed, dead, roots, joined, calling, registrations>>
  BY DEF N!UnlinkEnd, N!methodVars
<1>2. MethodsTypeOK /\ ExactInv /\ IterationsInv /\ DeadInv /\ SeenInv /\ PhaseInv /\ UnlinkInv
  BY DEF MethodsInv
<1>3. "primary" \in Kinds /\ Iterates("primary") /\ ~Iterates("primary")'
      /\ \A x \in Kinds : x # "primary" => (Iterates(x)' <=> Iterates(x))
  BY <1>1 DEF Kinds, Iterates
<1>4. /\ TablesInv' /\ ExactInv' /\ IterationsInv'
      /\ iterations' \in IterationStates /\ _deferred' \in Deferral
      /\ tables' = [t \in N!Tables |-> tables'[t]]
      /\ \A t \in N!Tables : tables'[t] = N!Deleted \/ tables'[t] = tables[t]
      /\ UNCHANGED <<_table, _nregistered, _nunregistered, workers>>
      /\ \A v \in Unlinkers : workers[v].at = "idle"
      /\ \A x \in Kinds : iterations'[x] = IF x = "primary" THEN N!NoIteration ELSE iterations[x]
      /\ \A x \in Kinds : iterations'[x].table # N!NoTable =>
           tables'[iterations'[x].table] = tables[iterations'[x].table]
  BY <1>1, <1>3, EndStep DEF N!WorkersOf
<1>5. MethodsTypeOK'
  <2>1. unshaken' \subseteq Mutators /\ old' \in Phases
    BY <1>1, <1>2 DEF MethodsTypeOK, Phases
  <2> QED BY <2>1, <1>1, <1>2, <1>4 DEF MethodsTypeOK, N!Tables, IterationStates, Deferral
<1>6. RangesInv'
  BY <1>4 DEF MethodsInv, RangesInv, InRange
<1>7. PhaseInv'
  BY <1>1, <1>2 DEF PhaseInv
<1>8. \A n \in NMethods : status[n] # "unregistered"
  BY <1>2, <1>4 DEF DeadInv
<1>9. ~_failed => \A n \in dead : status[n] # "registered"
  <2>1. iterations["primary"].claimed >= iterations["primary"].size
    BY <1>1, <1>2, <1>4 DEF UnlinkInv, N!MethodsAssumption
  <2>2. iterations["primary"].claimed \in Nat /\ iterations["primary"].size \in Nat
    BY <1>2, <1>3 DEF MethodsTypeOK
  <2>3. \A v \in Unlinkers : \A i : ~Todo(v, i)
    BY <1>4 DEF Todo, InRange
  <2>4. Pending = {}
    BY <2>1, <2>2, <2>3 DEF Pending
  <2> QED BY <2>4, <1>1, <1>2 DEF UnlinkInv
<1>10. DeadInv'
  <2>1. dead \subseteq N!Present
    BY <1>2 DEF DeadInv
  <2>2. ~_failed => \A n \in dead : status[n] = "unlinked"
    BY <2>1, <1>2, <1>8, <1>9 DEF N!Present, MethodsTypeOK
  <2> QED BY <2>2, <1>1, <1>2, <1>8 DEF DeadInv, N!Present
<1>11. UnlinkInv'
  BY <1>1 DEF UnlinkInv
<1>12. SeenInv'
  <2>1. \A n \in NMethods : Kept(n) => Kept(n)'
    BY <1>1 DEF Kept
  <2>2. ASSUME NEW it \in Kinds, iterations'[it].table # N!NoTable,
               NEW n \in Holds(tables'[iterations'[it].table])
        PROVE  Kept(n)'
    <3>1. n \in NMethods
      BY <2>2 DEF Holds
    <3>2. iterations'[it] = iterations[it]
      BY <2>2, <1>4 DEF N!NoIteration
    <3> QED BY <2>1, <2>2, <3>1, <3>2, <1>2, <1>4 DEF SeenInv
  <2>3. ASSUME NEW v \in DOMAIN workers', workers'[v].method # N!Nobody
        PROVE  Kept(workers[v].method)'
    <3>1. PICK x : x = workers'[v].method
      OBVIOUS
    <3>2. v \in Unlinkers \cup Markers /\ workers'[v] = workers[v]
      BY <1>2, <1>4 DEF MethodsTypeOK
    <3>3. Kept(x) /\ x \in NMethods
      BY <2>3, <3>1, <3>2, <1>2, WorkerTyped DEF SeenInv
    <3>4. Kept(x)'
      BY <2>1, <3>3
    <3> QED BY <3>1, <3>4 DEF Kept
  <2>4. ASSUME NEW m \in Mutators, calling'[m] # N!Nobody PROVE Kept(calling[m])'
    <3>1. PICK x : x = calling'[m]
      OBVIOUS
    <3>2. Kept(x) /\ x \in NMethods
      BY <2>4, <3>1, <1>1, <1>2 DEF SeenInv, MethodsTypeOK
    <3>3. Kept(x)'
      BY <2>1, <3>2
    <3> QED BY <3>1, <3>3 DEF Kept
  <2>5. \A m \in Mutators : ~(old' = "handshake" /\ m \notin unshaken')
    BY <1>1
  <2> QED BY <2>2, <2>3, <2>4, <2>5, <1>1 DEF SeenInv
<1> QED BY <1>4, <1>5, <1>6, <1>7, <1>10, <1>11, <1>12 DEF MethodsInv

\* Iterating over the roots leaves the unlinking alone.
LEMMA RootsBegin ==
  ASSUME N!MethodsAssumption, MethodsInv, ~joined, joined' = TRUE, N!NMethodsDoBegin("secondary"),
         UNCHANGED <<_failed, N!methodVars, old, calling, unshaken, N!boundVars>>,
         roots' = "young" \/ (roots' = "remap" /\ old = "purged")
  PROVE  MethodsInv'
<1>1. UNCHANGED <<_failed, status, armed, dead, old, calling, unshaken, registrations>>
  BY DEF N!methodVars, N!boundVars
<1>2. MethodsTypeOK /\ ExactInv /\ IterationsInv /\ DeadInv /\ SeenInv /\ PhaseInv /\ UnlinkInv
  BY DEF MethodsInv
<1>3. "secondary" \in Kinds /\ ~Iterates("secondary") /\ Iterates("secondary")'
      /\ \A x \in Kinds : x # "secondary" => (Iterates(x)' <=> Iterates(x))
  BY <1>1 DEF Kinds, Iterates
<1>4. /\ TablesInv' /\ ExactInv' /\ IterationsInv'
      /\ iterations' \in IterationStates /\ _deferred' \in Deferral
      /\ workers' \in [Unlinkers \cup Markers -> WorkerStates]
      /\ tables' = tables /\ UNCHANGED N!tableVars
      /\ iterations'["secondary"] = [table |-> _table, size |-> N!Size, claimed |-> 0]
      /\ \A x \in Kinds : x # "secondary" => iterations'[x] = iterations[x]
      /\ \A v \in N!WorkersOf("secondary") : workers'[v] = [N!Idle EXCEPT !.at = "claim"]
      /\ \A v \in (Unlinkers \cup Markers) \ N!WorkersOf("secondary") : workers'[v] = workers[v]
  BY <1>1, <1>3, BeginStep
<1>5. \A v \in Unlinkers : workers'[v] = workers[v]
  BY <1>4 DEF N!WorkersOf, N!MethodsAssumption
<1>6. iterations'["primary"] = iterations["primary"]
  BY <1>4 DEF Kinds
<1>7. \A v \in Markers : workers'[v].method = N!Nobody
  BY <1>4 DEF N!WorkersOf, N!Idle
<1>8. MethodsTypeOK'
  <2>1. roots' \in {"nobody", "young", "remap"} /\ joined' \in BOOLEAN
    OBVIOUS
  <2> QED BY <2>1, <1>1, <1>2, <1>4 DEF MethodsTypeOK, N!Tables, IterationStates, Deferral,
          WorkerStates, N!tableVars
<1>9. RangesInv'
  BY <1>5 DEF MethodsInv, RangesInv, InRange
<1>10. PhaseInv'
  BY <1>1, <1>2 DEF PhaseInv
<1>11. DeadInv'
  BY <1>1, <1>2, <1>5 DEF DeadInv, N!Present
<1>12. UnlinkInv'
  <2>1. \A v \in Unlinkers : \A i : Todo(v, i)' <=> Todo(v, i)
    BY <1>5 DEF Todo, InRange
  <2>2. Pending' = Pending
    BY <2>1, <1>6 DEF Pending
  <2>3. \A i : Entry(i)' = Entry(i)
    BY <1>4, <1>6 DEF Entry
  <2>4. \A v \in Unlinkers : Entry(workers[v].i)' = Entry(workers[v].i)
    BY <1>4, <1>5, <1>6 DEF Entry
  <2> QED BY <2>2, <2>3, <2>4, <1>1, <1>2, <1>5, <1>6 DEF UnlinkInv
<1>13. SeenInv'
  <2>1. \A n \in NMethods : Kept(n) => Kept(n)'
    BY <1>1 DEF Kept
  <2>2. ASSUME NEW it \in Kinds, iterations'[it].table # N!NoTable,
               NEW n \in Holds(tables'[iterations'[it].table])
        PROVE  Kept(n)'
    <3>1. n \in NMethods
      BY <2>2 DEF Holds
    <3>2. CASE it = "secondary"
      <4>1. _table # N!NoTable /\ n \in Registered
        BY <2>2, <3>2, <1>2, <1>4 DEF ExactInv
      <4> QED BY <4>1, <1>1 DEF Registered, Kept
    <3>3. CASE it # "secondary"
      BY <2>1, <2>2, <3>1, <3>3, <1>2, <1>4 DEF SeenInv
    <3> QED BY <3>2, <3>3
  <2>3. ASSUME NEW v \in DOMAIN workers', workers'[v].method # N!Nobody
        PROVE  Kept(workers[v].method)'
    <3>1. PICK x : x = workers'[v].method
      OBVIOUS
    <3>2. v \in Unlinkers /\ workers'[v] = workers[v]
      BY <2>3, <1>4, <1>5, <1>7
    <3>3. Kept(x) /\ x \in NMethods
      BY <2>3, <3>1, <3>2, <1>2, WorkerTyped DEF SeenInv
    <3>4. Kept(x)'
      BY <2>1, <3>3
    <3> QED BY <3>1, <3>4 DEF Kept
  <2>4. ASSUME NEW m \in Mutators, calling'[m] # N!Nobody PROVE Kept(calling[m])'
    <3>1. PICK x : x = calling'[m]
      OBVIOUS
    <3>2. Kept(x) /\ x \in NMethods
      BY <2>4, <3>1, <1>1, <1>2 DEF SeenInv, MethodsTypeOK
    <3>3. Kept(x)'
      BY <2>1, <3>2
    <3> QED BY <3>1, <3>3 DEF Kept
  <2> QED BY <2>2, <2>3, <2>4, <1>1, <1>2 DEF SeenInv
<1> QED BY <1>4, <1>8, <1>9, <1>10, <1>11, <1>12, <1>13 DEF MethodsInv

LEMMA MarkYoungRootsStep ==
  ASSUME N!MethodsAssumption, MethodsInv, N!MarkYoungRoots
  PROVE  MethodsInv'
BY RootsBegin DEF N!MarkYoungRoots

LEMMA RemapYoungRootsStep ==
  ASSUME N!MethodsAssumption, MethodsInv, N!RemapYoungRoots
  PROVE  MethodsInv'
<1>1. ~joined
  BY DEF N!RemapYoungRoots, MethodsInv, PhaseInv
<1> QED BY <1>1, RootsBegin DEF N!RemapYoungRoots

LEMMA RootsEndStep ==
  ASSUME N!MethodsAssumption, MethodsInv, N!RootsEnd
  PROVE  MethodsInv'
<1>1. /\ joined /\ joined' = FALSE /\ N!NMethodsDoEnd("secondary") /\ roots' = "nobody"
      /\ old' = IF roots = "remap" THEN "idle" ELSE old
      /\ UNCHANGED <<_failed, status, armed, dead, calling, unshaken, registrations>>
  BY DEF N!RootsEnd, N!methodVars, N!boundVars
<1>2. MethodsTypeOK /\ ExactInv /\ IterationsInv /\ DeadInv /\ SeenInv /\ PhaseInv /\ UnlinkInv
  BY DEF MethodsInv
<1>3. old' = old \/ (old = "purged" /\ old' = "idle")
  BY <1>1, <1>2 DEF PhaseInv
<1>4. "secondary" \in Kinds /\ Iterates("secondary") /\ ~Iterates("secondary")'
      /\ \A x \in Kinds : x # "secondary" => (Iterates(x)' <=> Iterates(x))
  BY <1>1, <1>3 DEF Kinds, Iterates
<1>5. /\ TablesInv' /\ ExactInv' /\ IterationsInv'
      /\ iterations' \in IterationStates /\ _deferred' \in Deferral
      /\ tables' = [t \in N!Tables |-> tables'[t]]
      /\ \A t \in N!Tables : tables'[t] = N!Deleted \/ tables'[t] = tables[t]
      /\ UNCHANGED <<_table, _nregistered, _nunregistered, workers>>
      /\ \A x \in Kinds : iterations'[x] = IF x = "secondary" THEN N!NoIteration ELSE iterations[x]
      /\ \A x \in Kinds : iterations'[x].table # N!NoTable =>
           tables'[iterations'[x].table] = tables[iterations'[x].table]
  BY <1>1, <1>4, EndStep
<1>6. MethodsTypeOK'
  <2>1. old' \in Phases
    BY <1>2, <1>3 DEF MethodsTypeOK, Phases
  <2> QED BY <2>1, <1>1, <1>2, <1>5 DEF MethodsTypeOK, N!Tables, IterationStates, Deferral
<1>7. RangesInv'
  BY <1>5 DEF MethodsInv, RangesInv, InRange
<1>8. PhaseInv'
  BY <1>1, <1>2, <1>3 DEF PhaseInv
<1>9. DeadInv'
  BY <1>1, <1>2, <1>3, <1>5 DEF DeadInv, N!Present
<1>10. UnlinkInv'
  <2> SUFFICES ASSUME old' = "unlinking" PROVE UnlinkInv'
    BY DEF UnlinkInv
  <2>1. old = "unlinking" /\ iterations'["primary"] = iterations["primary"]
    BY <1>3, <1>5 DEF Kinds
  <2>2. \A v \in Unlinkers : \A i : Todo(v, i)' <=> Todo(v, i)
    BY <1>5 DEF Todo, InRange
  <2>3. Pending' = Pending
    BY <2>1, <2>2 DEF Pending
  <2>4. ASSUME NEW i, i \in Pending \/ (\E v \in Unlinkers : InRange(v) /\ i = workers[v].i)
        PROVE  Entry(i)' = Entry(i)
    <3>1. iterations["primary"].table # N!NoTable
      BY <2>4, PendingEntry, HandEntry
    <3>2. tables'[iterations["primary"].table] = tables[iterations["primary"].table]
      BY <3>1, <2>1, <1>5 DEF Kinds
    <3> QED BY <3>2, <2>1 DEF Entry
  <2>5. \A i \in Pending : Entry(i)' = Entry(i)
    BY <2>4
  <2>6. \A v \in Unlinkers : workers[v].at \in {"visit", "unregister"} =>
          Entry(workers[v].i)' = Entry(workers[v].i)
    <3> SUFFICES ASSUME NEW v \in Unlinkers, workers[v].at \in {"visit", "unregister"}
                 PROVE  Entry(workers[v].i)' = Entry(workers[v].i)
      OBVIOUS
    <3>1. PICK i : i = workers[v].i
      OBVIOUS
    <3>2. Entry(i)' = Entry(i)
      BY <3>1, <2>4 DEF InRange
    <3> QED BY <3>1, <3>2, <1>5 DEF Entry
  <2> QED BY <2>1, <2>3, <2>5, <2>6, <1>1, <1>2, <1>5 DEF UnlinkInv
<1>11. SeenInv'
  <2>1. \A n \in NMethods : Kept(n) => Kept(n)'
    BY <1>1, <1>3 DEF Kept
  <2>2. ASSUME NEW it \in Kinds, iterations'[it].table # N!NoTable,
               NEW n \in Holds(tables'[iterations'[it].table])
        PROVE  Kept(n)'
    <3>1. n \in NMethods
      BY <2>2 DEF Holds
    <3>2. iterations'[it] = iterations[it]
      BY <2>2, <1>5 DEF N!NoIteration
    <3> QED BY <2>1, <2>2, <3>1, <3>2, <1>2, <1>5 DEF SeenInv
  <2>3. ASSUME NEW v \in DOMAIN workers', workers'[v].method # N!Nobody
        PROVE  Kept(workers[v].method)'
    <3>1. PICK x : x = workers'[v].method
      OBVIOUS
    <3>2. v \in Unlinkers \cup Markers /\ workers'[v] = workers[v]
      BY <1>2, <1>5 DEF MethodsTypeOK
    <3>3. Kept(x) /\ x \in NMethods
      BY <2>3, <3>1, <3>2, <1>2, WorkerTyped DEF SeenInv
    <3>4. Kept(x)'
      BY <2>1, <3>3
    <3> QED BY <3>1, <3>4 DEF Kept
  <2>4. ASSUME NEW m \in Mutators, calling'[m] # N!Nobody PROVE Kept(calling[m])'
    <3>1. PICK x : x = calling'[m]
      OBVIOUS
    <3>2. Kept(x) /\ x \in NMethods
      BY <2>4, <3>1, <1>1, <1>2 DEF SeenInv, MethodsTypeOK
    <3>3. Kept(x)'
      BY <2>1, <3>2
    <3> QED BY <3>1, <3>3 DEF Kept
  <2> QED BY <2>2, <2>3, <2>4, <1>1, <1>2, <1>3 DEF SeenInv
<1> QED BY <1>5, <1>6, <1>7, <1>8, <1>9, <1>10, <1>11 DEF MethodsInv

-----------------------------------------------------------------------------
LEMMA InitMethods ==
  ASSUME N!MethodsAssumption, N!Init
  PROVE  MethodsInv
<1>1. /\ tables = [t \in N!Tables |-> N!Deleted] /\ _table = N!NoTable
      /\ _nregistered = 0 /\ _nunregistered = 0
      /\ _deferred = [count |-> 0, array |-> {}]
      /\ iterations = [it \in Kinds |-> N!NoIteration]
      /\ workers = [w \in Unlinkers \cup Markers |-> N!Idle]
      /\ _failed = FALSE /\ status = [n \in NMethods |-> "free"] /\ armed = {} /\ dead = {}
      /\ old = "idle" /\ roots = "nobody" /\ joined = FALSE
      /\ calling = [m \in Mutators |-> N!Nobody] /\ unshaken = {} /\ registrations = 0
  BY DEF N!Init, Kinds
<1>2. Registered = {} /\ InUse = {} /\ N!Present = {}
  BY <1>1 DEF Registered, InUse, N!Present
<1>3. \A it \in Kinds : iterations[it] = N!NoIteration
  BY <1>1
<1>4. \A w \in Unlinkers \cup Markers : workers[w] = N!Idle
  BY <1>1
<1>5. \A w \in Unlinkers \cup Markers : ~InRange(w) /\ workers[w].method = N!Nobody
                                        /\ workers[w].at = "idle"
  BY <1>4 DEF InRange, N!Idle
<1>6. MethodsTypeOK
  <2>1. N!NoIteration \in [table : N!Tables \cup {N!NoTable}, size : Nat, claimed : Nat]
    BY DEF N!NoIteration
  <2>2. N!Idle \in [at : Labels, i : Nat, end : Nat, method : NMethods \cup {N!Nobody}]
    BY DEF N!Idle, Labels
  <2>3. registrations \in 0 .. MaxRegistrations
    BY <1>1 DEF N!MethodsAssumption
  <2>4. _deferred \in [count : Nat, array : SUBSET N!Tables]
    BY <1>1
  <2> QED BY <2>1, <2>2, <2>3, <2>4, <1>1 DEF MethodsTypeOK, Phases
<1>7. TablesInv
  BY <1>1, <1>2, FS_EmptySet DEF TablesInv
<1>8. ExactInv
  BY <1>1, <1>2, FS_EmptySet DEF ExactInv
<1>9. IterationsInv
  <2>1. DOMAIN workers = Unlinkers \cup Markers
    BY <1>1
  <2>2. \A it \in Kinds : N!WorkersOf(it) \subseteq Unlinkers \cup Markers
    BY DEF N!WorkersOf
  <2>3. \A it \in Kinds : iterations[it].table = N!NoTable /\ iterations[it].size = 0
    BY <1>3 DEF N!NoIteration
  <2> QED BY <2>1, <2>2, <2>3, <1>1, <1>5 DEF IterationsInv
<1>10. RangesInv
  BY <1>5 DEF RangesInv
<1>11. PhaseInv
  BY <1>1 DEF PhaseInv
<1>12. DeadInv
  BY <1>1, <1>2 DEF DeadInv
<1>13. UnlinkInv
  BY <1>1 DEF UnlinkInv
<1>14. SeenInv
  <2>1. DOMAIN workers = Unlinkers \cup Markers
    BY <1>1
  <2>2. \A it \in Kinds : iterations[it].table = N!NoTable
    BY <1>3 DEF N!NoIteration
  <2> QED BY <2>1, <2>2, <1>1, <1>5 DEF SeenInv
<1> QED BY <1>6, <1>7, <1>8, <1>9, <1>10, <1>11, <1>12, <1>13, <1>14 DEF MethodsInv

LEMMA MethodsStep ==
  ASSUME N!MethodsAssumption, MethodsInv, N!Next
  PROVE  MethodsInv'
<1>1. CASE N!Mutator
  <2>1. ASSUME NEW n \in NMethods, N!RegisterNMethod(n) PROVE MethodsInv'
    BY <2>1, RegisterNMethodStep
  <2>2. ASSUME NEW m \in Mutators, NEW n \in NMethods, N!Call(m, n) PROVE MethodsInv'
    BY <2>2, CallStep
  <2>3. ASSUME NEW m \in Mutators, N!EntryBarrier(m) PROVE MethodsInv'
    BY <2>3, EntryBarrierStep
  <2>4. ASSUME NEW m \in Mutators, N!Handshake(m) PROVE MethodsInv'
    BY <2>4, HandshakeStep
  <2> QED BY <2>1, <2>2, <2>3, <2>4, <1>1 DEF N!Mutator
<1>2. CASE N!Iterate
  <2>1. /\ "primary" \in Kinds /\ N!WorkersOf("primary") = Unlinkers
        /\ "secondary" \in Kinds /\ N!WorkersOf("secondary") = Markers
    BY DEF Kinds, N!WorkersOf
  <2>2. ASSUME NEW it \in Kinds, NEW w \in N!WorkersOf(it), N!Claim(it, w) PROVE MethodsInv'
    BY <2>2, ClaimStep
  <2>3. ASSUME NEW it \in Kinds, NEW w \in N!WorkersOf(it), N!ReadEntry(it, w) PROVE MethodsInv'
    BY <2>3, ReadEntryStep
  <2>4. ASSUME NEW w \in Unlinkers, N!VisitUnlink(w) PROVE MethodsInv'
    BY <2>4, VisitUnlinkStep
  <2>5. ASSUME NEW w \in Unlinkers, N!UnregisterNMethod(w) PROVE MethodsInv'
    BY <2>5, UnregisterNMethodStep
  <2>6. ASSUME NEW w \in Unlinkers, N!UnlinkNMethod(w) PROVE MethodsInv'
    BY <2>6, UnlinkNMethodStep
  <2>7. ASSUME NEW w \in Markers, N!VisitYoung(w) PROVE MethodsInv'
    BY <2>7, VisitYoungStep
  <2>8. ASSUME NEW w \in Markers, N!VisitRemap(w) PROVE MethodsInv'
    BY <2>8, VisitRemapStep
  <2> QED BY <2>1, <2>2, <2>3, <2>4, <2>5, <2>6, <2>7, <2>8, <1>2 DEF N!Iterate
<1>3. CASE N!Collect
  <2>1. ASSUME NEW n \in NMethods, N!PurgeNMethod(n) PROVE MethodsInv'
    BY <2>1, PurgeNMethodStep
  <2> QED BY <2>1, <1>3, OldMarkStartStep, OldMarkEndStep, UnlinkBeginStep, UnlinkEndStep,
          RendezvousGCThreadsStep, PurgeEndStep, YoungMarkStartStep, MarkYoungRootsStep,
          RemapYoungRootsStep, RootsEndStep DEF N!Collect
<1> QED BY <1>1, <1>2, <1>3 DEF N!Next

LEMMA MethodsStutter ==
  ASSUME MethodsInv, UNCHANGED N!vars
  PROVE  MethodsInv'
<1>1. UNCHANGED <<N!tableVars, N!iterationVars, N!methodVars, N!phaseVars, registrations>>
  BY DEF N!vars, N!boundVars
<1>2. UNCHANGED <<tables, _deferred, iterations, workers, _failed, status, armed, dead, old, roots,
                  joined, calling, unshaken, registrations>>
  BY <1>1 DEF N!tableVars, N!iterationVars, N!methodVars, N!phaseVars
<1>3. MethodsTypeOK /\ DeadInv
  BY DEF MethodsInv
<1>4. MethodsTypeOK'
  BY <1>1, <1>2, <1>3 DEF MethodsTypeOK, N!Tables, N!tableVars
<1>5. TablesInv' /\ ExactInv'
  <2>1. Registered' = Registered
    BY <1>2 DEF Registered
  <2> QED BY <2>1, <1>1, <1>2, TablesFrame
<1>6. IterationsInv' /\ RangesInv'
  BY <1>2, IterationsFrame
<1>7. PhaseInv'
  BY <1>2 DEF MethodsInv, PhaseInv
<1>8. DeadInv'
  BY <1>2, <1>3 DEF DeadInv, N!Present
<1>9. UnlinkInv'
  BY <1>2, UnlinkFrame
<1>10. SeenInv'
  BY <1>2 DEF MethodsInv, SeenInv, Kept
<1> QED BY <1>4, <1>5, <1>6, <1>7, <1>8, <1>9, <1>10 DEF MethodsInv

\* The invariant gives the properties.
LEMMA MethodsAreExact ==
  ASSUME N!MethodsAssumption, MethodsInv
  PROVE  N!TableIsExact
<1> DEFINE T == tables[_table]
           registered == {n \in NMethods : status[n] = "registered"}
<1>1. ExactInv /\ TablesInv /\ registered = Registered
  BY DEF MethodsInv, Registered
<1>2. _nregistered = Cardinality(registered)
  BY <1>1 DEF ExactInv
<1> SUFFICES ASSUME _table # N!NoTable
             PROVE  /\ \A n \in NMethods :
                         Cardinality({i \in DOMAIN T : T[i] = n}) = IF n \in registered THEN 1 ELSE 0
                    /\ \A n \in registered : \A i \in DOMAIN T :
                         N!Distance(T, n, i) < N!Distance(T, n, N!FirstWith(T, n, {n})) => T[i] # N!Empty
                    /\ \E i \in DOMAIN T : T[i] = N!Empty
                    /\ _nunregistered = Cardinality({i \in DOMAIN T : T[i] = N!Unregistered})
  BY <1>2, SameCardinality DEF N!TableIsExact
<1>3. /\ Searchable(T) /\ HasRoom(T) /\ Holds(T) = registered
      /\ Cardinality(Tombs(T)) = _nunregistered /\ Once(T)
  BY <1>1 DEF ExactInv, TablesInv
<1>4. IsTableOf(T, N!Size)
  BY TableInUse
<1> HIDE DEF T, registered
<1>5. ASSUME NEW n \in NMethods
      PROVE  Cardinality({i \in DOMAIN T : T[i] = n}) = IF n \in registered THEN 1 ELSE 0
  <2>1. CASE n \in registered
    <3>1. PICK i \in DOMAIN T : T[i] = n
      BY <2>1, <1>3 DEF Holds
    <3>2. {j \in DOMAIN T : T[j] = n} = {i}
      BY <3>1, <1>3 DEF Once
    <3> QED BY <2>1, <3>2, FS_Singleton
  <2>2. CASE n \notin registered
    <3>1. {j \in DOMAIN T : T[j] = n} = {}
      BY <2>2, <1>3 DEF Holds
    <3> QED BY <2>2, <3>1, FS_EmptySet
  <2> QED BY <2>1, <2>2
<1>6. ASSUME NEW n \in registered, NEW i \in DOMAIN T,
             N!Distance(T, n, i) < N!Distance(T, n, N!FirstWith(T, n, {n}))
      PROVE  T[i] # N!Empty
  <2>1. n \in NMethods /\ \E j \in DOMAIN T : T[j] \in {n}
    BY <1>3 DEF Holds
  <2>2. N!FirstWith(T, n, {n}) \in DOMAIN T /\ T[N!FirstWith(T, n, {n})] = n
    BY <2>1, <1>4, FirstIs
  <2> QED BY <2>1, <2>2, <1>3, <1>6 DEF Searchable
<1> QED BY <1>3, <1>5, <1>6 DEF HasRoom, Tombs

LEMMA MethodsAreSafe ==
  ASSUME N!MethodsAssumption, MethodsInv
  PROVE  N!NothingFreedIsSeen /\ N!UnloadingIsFinal
<1>1. MethodsTypeOK /\ IterationsInv /\ DeadInv /\ SeenInv
  BY DEF MethodsInv
<1>2. N!NothingFreedIsSeen
  <2>1. DOMAIN iterations = Kinds
    BY <1>1 DEF MethodsTypeOK
  <2>2. \A it \in Kinds : iterations[it].table # N!NoTable => tables[iterations[it].table] # N!Deleted
    BY <1>1 DEF IterationsInv, InUse
  <2> QED BY <2>1, <2>2, <1>1 DEF N!NothingFreedIsSeen, SeenInv, Kept
<1>3. N!UnloadingIsFinal
  BY <1>1 DEF N!UnloadingIsFinal, DeadInv
<1> QED BY <1>2, <1>3



-----------------------------------------------------------------------------
\* However mutators register and enter methods while workers of both
\* generations read the table, which may be rebuilt meanwhile: the table stays
\* searchable and its counts exact, nothing that has been freed is seen, and
\* marking's verdict on a method stands until the method is freed
\* (zNMethodTable.cpp, ZNMethod, ZBarrierSetNMethod).
THEOREM CodeSafe == N!MethodsAssumption => (N!Spec => []CodeIsSafe)
<1> SUFFICES ASSUME N!MethodsAssumption PROVE N!Spec => []CodeIsSafe
  OBVIOUS
<1>1. N!Init => MethodsInv
  BY InitMethods
<1>2. MethodsInv /\ [N!Next]_N!vars => MethodsInv'
  BY MethodsStep, MethodsStutter
<1>3. MethodsInv => CodeIsSafe
  BY MethodsAreExact, MethodsAreSafe DEF CodeIsSafe
<1> QED BY <1>1, <1>2, <1>3, PTL DEF N!Spec
=============================================================================

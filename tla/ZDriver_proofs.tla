--------------------------- MODULE ZDriver_proofs ---------------------------
(***************************************************************************)
(* Proofs about ZDriver and, at the end, about ZDirector, which decides    *)
(* what the drivers are asked to do.                                       *)
(*                                                                         *)
(* Of the drivers, for any number of threads that allocate pages of any    *)
(* sizes or ask for collections, if the young generation is collected      *)
(* before the old one as it is by default: a thread is told that the heap  *)
(* is exhausted only after the collection that it was due.                 *)
(*                                                                         *)
(* An allocation fails when it has seen the start of the old collection    *)
(* that ends.  If that collection clears soft references, it did so from   *)
(* its start on, when it earned the failure for everybody who had stalled; *)
(* whoever stalls later has not seen its start, though it may have stalled *)
(* for the second time.                                                    *)
(***************************************************************************)
EXTENDS ZDriver, MCZDirector, WellFoundedInduction, FiniteSetTheorems, SequenceTheorems, TLAPS

Stalls == [thread : Allocators, size : Sizes, seenYoung : BOOLEAN, seenOld : BOOLEAN]

\* A stalled thread is in the queue once, and has no result yet.
StalledInv ==
  /\ stalled \in Seq(Stalls)
  /\ \A i, j \in DOMAIN stalled : stalled[i].thread = stalled[j].thread => i = j
  /\ \A i \in DOMAIN stalled :
       alloc[stalled[i].thread] \in {"request", "wait"} /\ result[stalled[i].thread] = "none"

\* A thread that runs has no result left over.
ResultInv ==
  /\ alloc \in [Allocators -> AllocLabels]
  /\ result \in [Allocators -> {"none", "page", "oom"}]
  /\ \A t \in Allocators : alloc[t] \in {"run", "allocated"} => result[t] = "none"

\* Where the major driver is once the old generation is being collected.
Collecting ==
  {"young_roots", "old_mark", "old_relocate_start", "old_relocate", "ack", "handle_stalls"}

Labels ==
  {"receive", "start", "mark_start", "young", "preclean", "mark_start_preclean",
   "young_preclean", "mark_start_roots"} \cup Collecting

\* Everybody who has seen the start of a collection that clears soft references
\* is owed no other.
EarnedInv ==
  /\ driver \in [Drivers -> Labels]
  /\ driver["major"] \notin {"receive", "start", "preclean"} => preclean
  /\ clear /\ driver["major"] \in Collecting =>
       \A i \in DOMAIN stalled : stalled[i].seenOld => stalled[i].thread \in earned

IInv == StalledInv /\ ResultInv /\ EarnedInv /\ OutOfMemoryIsEarned

-----------------------------------------------------------------------------
\* A set of indices has a greatest element: otherwise the intervals above its
\* elements descend for ever.
LEMMA MaxOfIndices ==
  ASSUME NEW n \in Nat, NEW S \in SUBSET (0..n), 0 \in S
  PROVE  Max(S) \in S
<1> DEFINE Above(m) == (m + 1) .. n
           Sets == {Above(m) : m \in S}
<1>1. Sets \subseteq FiniteSubsetsOf(0..n) /\ Sets # {}
  <2>1. ASSUME NEW m \in S PROVE Above(m) \subseteq 0..n /\ IsFiniteSet(Above(m))
    BY FS_Interval
  <2> QED BY <2>1 DEF FiniteSubsetsOf
<1>2. PICK U \in Sets : \A V \in Sets : <<V, U>> \notin StrictSubsetOrdering(0..n)
  BY <1>1, FS_StrictSubsetOrderingWellFounded, WFMin, Zenon
<1>3. PICK m \in S : U = Above(m)
  BY <1>2
<1>4. ASSUME NEW i \in S, i > m PROVE FALSE
  <2>1. Above(i) \subseteq Above(m) /\ i \in Above(m) /\ i \notin Above(i)
    BY <1>4
  <2>2. Above(i) \in Sets /\ Above(i) \in SUBSET (0..n) /\ Above(m) \in SUBSET (0..n)
    OBVIOUS
  <2> QED BY <1>2, <1>3, <2>1, <2>2 DEF StrictSubsetOrdering
<1>5. \A i \in S : m >= i
  BY <1>4
<1> QED BY <1>3, <1>5 DEF Max

\* What is left of a sequence behind its first k elements.
LEMMA RestOfSeq ==
  ASSUME NEW S, NEW s \in Seq(S), NEW k \in 0..Len(s)
  PROVE  /\ SubSeq(s, k + 1, Len(s)) \in Seq(S)
         /\ Len(SubSeq(s, k + 1, Len(s))) = Len(s) - k
         /\ \A i \in 1..Len(s) - k : SubSeq(s, k + 1, Len(s))[i] = s[i + k]
<1> DEFINE r == SubSeq(s, k + 1, Len(s))
<1>1. Len(s) \in Nat /\ Len(r) = Len(s) - k
  OBVIOUS
<1>2. \A i \in 1..Len(s) - k : r[i] = s[i + k]
  OBVIOUS
<1>3. r \in Seq(S)
  OBVIOUS
<1> QED BY <1>1, <1>2, <1>3

LEMMA StallsTyped ==
  ASSUME NEW s \in Seq(Stalls)
  PROVE  /\ Len(s) \in Nat /\ DOMAIN s = 1..Len(s)
         /\ \A i \in DOMAIN s : s[i] \in Stalls /\ s[i].thread \in Allocators
<1>1. \A i \in 1..Len(s) : s[i] \in Stalls
  BY ElementOfSeq
<1> QED BY <1>1 DEF Stalls

LEMMA SatisfiedTyped ==
  ASSUME StalledInv, NEW u
  PROVE  Satisfied(u) \in 0..Len(stalled)
<1> DEFINE S == {0} \cup {i \in 1..Len(stalled) :
                            IsAllocAllowed(TotalSize(SubSeq(stalled, 1, i)), u)}
<1>1. S \in SUBSET (0..Len(stalled)) /\ 0 \in S /\ Len(stalled) \in Nat
  BY DEF StalledInv
<1> HIDE DEF S
<1>2. Max(S) \in S
  BY <1>1, MaxOfIndices
<1> QED BY <1>1, <1>2 DEF Satisfied, S

LEMMA OutOfMemoryTyped ==
  ASSUME StalledInv
  PROVE  /\ OutOfMemory \in 0..Len(stalled)
         /\ \A j \in 1..OutOfMemory : stalled[j].seenOld
<1> DEFINE S == {i \in 0..Len(stalled) : \A j \in 1..i : stalled[j].seenOld}
<1>1. S \in SUBSET (0..Len(stalled)) /\ 0 \in S /\ Len(stalled) \in Nat
  BY DEF StalledInv
<1> HIDE DEF S
<1>2. Max(S) \in S
  BY <1>1, MaxOfIndices
<1> QED BY <1>1, <1>2 DEF OutOfMemory, S

\* The first k allocations leave the queue with a result.
Answered(k, r) ==
  /\ stalled' = SubSeq(stalled, k + 1, Len(stalled))
  /\ result' = [t \in Allocators |-> IF t \in ThreadsOf(SubSeq(stalled, 1, k))
                                     THEN r ELSE result[t]]

LEMMA AnsweredStep ==
  ASSUME StalledInv, ResultInv, NEW k \in 0..Len(stalled), NEW r \in {"page", "oom"},
         Answered(k, r)
  PROVE  /\ stalled' \in Seq(Stalls)
         /\ \A i \in DOMAIN stalled' : i + k \in DOMAIN stalled /\ stalled'[i] = stalled[i + k]
         /\ \A i, j \in DOMAIN stalled' : stalled'[i].thread = stalled'[j].thread => i = j
         /\ \A i \in DOMAIN stalled' : result'[stalled'[i].thread] = "none"
         /\ result' \in [Allocators -> {"none", "page", "oom"}]
         /\ \A t \in Allocators : result'[t] # result[t] =>
              /\ result'[t] = r /\ alloc[t] \in {"request", "wait"}
              /\ \E i \in 1..k : stalled[i].thread = t
<1>0. stalled \in Seq(Stalls) /\ Len(stalled) \in Nat /\ DOMAIN stalled = 1..Len(stalled)
  BY DEF StalledInv
<1>1. /\ stalled' \in Seq(Stalls)
      /\ Len(stalled') = Len(stalled) - k
      /\ \A i \in 1..(Len(stalled) - k) : stalled'[i] = stalled[i + k]
  BY <1>0, RestOfSeq DEF Answered
<1>2. \A i \in DOMAIN stalled' : i + k \in DOMAIN stalled /\ stalled'[i] = stalled[i + k]
  BY <1>0, <1>1
<1>3. ThreadsOf(SubSeq(stalled, 1, k)) = {stalled[i].thread : i \in 1..k}
  <2>1. /\ DOMAIN SubSeq(stalled, 1, k) = 1..k
        /\ \A i \in 1..k : SubSeq(stalled, 1, k)[i] = stalled[i]
    BY <1>0
  <2> QED BY <2>1 DEF ThreadsOf
<1>4. \A i, j \in DOMAIN stalled' : stalled'[i].thread = stalled'[j].thread => i = j
  <2> SUFFICES ASSUME NEW i \in DOMAIN stalled', NEW j \in DOMAIN stalled',
                      stalled'[i].thread = stalled'[j].thread
               PROVE  i = j
    OBVIOUS
  <2>1. i + k = j + k
    BY <1>2 DEF StalledInv
  <2> QED BY <1>1, <2>1
<1>5. ASSUME NEW i \in DOMAIN stalled' PROVE result'[stalled'[i].thread] = "none"
  <2>1. stalled[i + k].thread \in Allocators /\ i + k \in DOMAIN stalled /\ i + k > k
    <3>1. i + k \in DOMAIN stalled /\ i + k > k
      BY <1>0, <1>1, <1>2
    <3>2. stalled[i + k] \in Stalls
      BY <1>0, <3>1, ElementOfSeq
    <3> QED BY <3>1, <3>2 DEF Stalls
  <2>2. stalled[i + k].thread \notin {stalled[j].thread : j \in 1..k}
    BY <1>0, <2>1 DEF StalledInv
  <2> QED BY <1>2, <1>3, <2>1, <2>2 DEF Answered, StalledInv
<1>6. ASSUME NEW t \in Allocators, result'[t] # result[t]
      PROVE  /\ result'[t] = r /\ alloc[t] \in {"request", "wait"}
             /\ \E i \in 1..k : stalled[i].thread = t
  <2>1. result'[t] = r /\ \E i \in 1..k : stalled[i].thread = t
    BY <1>3, <1>6 DEF Answered
  <2> QED BY <1>0, <2>1 DEF StalledInv
<1>7. result' \in [Allocators -> {"none", "page", "oom"}]
  BY DEF Answered, ResultInv
<1> QED BY <1>1, <1>2, <1>4, <1>5, <1>6, <1>7

\* The steps that leave the queue and who is owed what alone.
LEMMA QueueKept ==
  ASSUME IInv, UNCHANGED <<stalled, earned>>,
         \/ UNCHANGED <<alloc, result>>
         \/ \E t \in Allocators :
              /\ alloc[t] \in {"run", "allocated"} /\ UNCHANGED result
              /\ \E l \in {"run", "allocated"} : alloc' = [alloc EXCEPT ![t] = l]
         \/ \E t \in Allocators :
              /\ alloc[t] = "request" /\ UNCHANGED result /\ alloc' = [alloc EXCEPT ![t] = "wait"]
  PROVE  StalledInv' /\ ResultInv' /\ OutOfMemoryIsEarned'
<1>1. \A i \in DOMAIN stalled : stalled[i].thread \in Allocators
  BY StallsTyped DEF IInv, StalledInv
<1>2. StalledInv'
  BY <1>1 DEF IInv, StalledInv, ResultInv, AllocLabels
<1>3. ResultInv' /\ OutOfMemoryIsEarned'
  BY DEF IInv, ResultInv, AllocLabels, OutOfMemoryIsEarned
<1> QED BY <1>2, <1>3

\* Memory is given back.
LEMMA FreePageStep ==
  ASSUME IInv, NEW n, FreePage(n), UNCHANGED <<driverVars, earned>>,
         \/ UNCHANGED alloc
         \/ \E t \in Allocators : alloc[t] = "allocated" /\ alloc' = [alloc EXCEPT ![t] = "run"]
  PROVE  IInv'
<1>1. PICK k \in 0..Len(stalled) : Answered(k, "page")
  BY SatisfiedTyped DEF IInv, FreePage, Answered
<1>2. /\ stalled' \in Seq(Stalls)
      /\ \A i \in DOMAIN stalled' : i + k \in DOMAIN stalled /\ stalled'[i] = stalled[i + k]
      /\ \A i, j \in DOMAIN stalled' : stalled'[i].thread = stalled'[j].thread => i = j
      /\ \A i \in DOMAIN stalled' : result'[stalled'[i].thread] = "none"
      /\ result' \in [Allocators -> {"none", "page", "oom"}]
      /\ \A t \in Allocators : result'[t] # result[t] =>
           result'[t] = "page" /\ alloc[t] \in {"request", "wait"}
  BY <1>1, AnsweredStep DEF IInv
<1>3. /\ alloc' \in [Allocators -> AllocLabels]
      /\ \A t \in Allocators :
           alloc'[t] = alloc[t] \/ (alloc[t] = "allocated" /\ alloc'[t] = "run")
  BY DEF IInv, ResultInv, AllocLabels
<1>4. \A i \in DOMAIN stalled' : stalled'[i].thread \in Allocators
  BY <1>2, StallsTyped
<1>5. StalledInv'
  <2>1. \A i \in DOMAIN stalled' : alloc'[stalled'[i].thread] \in {"request", "wait"}
    BY <1>2, <1>3, <1>4 DEF IInv, StalledInv
  <2> QED BY <1>2, <2>1 DEF StalledInv
<1>6. ResultInv' /\ OutOfMemoryIsEarned'
  BY <1>2, <1>3 DEF IInv, ResultInv, OutOfMemoryIsEarned
<1>7. EarnedInv'
  BY <1>2 DEF IInv, EarnedInv, driverVars
<1> QED BY <1>5, <1>6, <1>7 DEF IInv

\* A thread allocates a page, or stalls.
LEMMA AllocPageStep ==
  ASSUME IInv, NEW t \in Allocators, AllocPage(t)
  PROVE  IInv'
<1>1. PICK n \in Sizes :
        \/ alloc' = [alloc EXCEPT ![t] = "allocated"] /\ UNCHANGED stalled
        \/ /\ stalled' = Append(stalled, [thread |-> t, size |-> n,
                                          seenYoung |-> FALSE, seenOld |-> FALSE])
           /\ alloc' = [alloc EXCEPT ![t] = "request"]
  BY DEF AllocPage
<1>2. alloc[t] = "run" /\ UNCHANGED <<result, driverVars, earned>>
  BY DEF AllocPage
<1>3. CASE alloc' = [alloc EXCEPT ![t] = "allocated"] /\ UNCHANGED stalled
  <2>1. StalledInv' /\ ResultInv' /\ OutOfMemoryIsEarned'
    BY <1>2, <1>3, QueueKept
  <2> QED BY <1>2, <1>3, <2>1 DEF IInv, EarnedInv, driverVars
<1>4. ASSUME stalled' = Append(stalled, [thread |-> t, size |-> n,
                                         seenYoung |-> FALSE, seenOld |-> FALSE]),
             alloc' = [alloc EXCEPT ![t] = "request"]
      PROVE  IInv'
  <2> DEFINE e == [thread |-> t, size |-> n, seenYoung |-> FALSE, seenOld |-> FALSE]
  <2>0. stalled \in Seq(Stalls) /\ e \in Stalls /\ Len(stalled) \in Nat
        /\ DOMAIN stalled = 1..Len(stalled)
    BY DEF IInv, StalledInv, Stalls
  <2>1. /\ stalled' \in Seq(Stalls) /\ Len(stalled') = Len(stalled) + 1
        /\ \A i \in 1..Len(stalled) : stalled'[i] = stalled[i]
        /\ stalled'[Len(stalled) + 1] = e
    BY <1>4, <2>0, AppendProperties
  <2>2. DOMAIN stalled' = 1..Len(stalled) + 1
    BY <2>1
  <2>3. \A i \in 1..Len(stalled) : stalled[i].thread \in Allocators /\ stalled[i].thread # t
    BY <1>2, <2>0, StallsTyped DEF IInv, StalledInv
  <2>4. result[t] = "none"
    BY <1>2 DEF IInv, ResultInv
  <2>5. StalledInv'
    <3>1. \A i, j \in DOMAIN stalled' : stalled'[i].thread = stalled'[j].thread => i = j
      BY <2>0, <2>1, <2>2, <2>3 DEF IInv, StalledInv
    <3>2. \A i \in DOMAIN stalled' : /\ alloc'[stalled'[i].thread] \in {"request", "wait"}
                                    /\ result'[stalled'[i].thread] = "none"
      BY <1>2, <1>4, <2>0, <2>1, <2>2, <2>3, <2>4 DEF IInv, StalledInv, ResultInv
    <3> QED BY <2>1, <3>1, <3>2 DEF StalledInv
  <2>6. ResultInv' /\ OutOfMemoryIsEarned'
    BY <1>2, <1>4 DEF IInv, ResultInv, AllocLabels, OutOfMemoryIsEarned
  <2>7. EarnedInv'
    BY <1>2, <2>0, <2>1, <2>2 DEF IInv, EarnedInv, driverVars
  <2> QED BY <2>5, <2>6, <2>7 DEF IInv
<1> QED BY <1>1, <1>3, <1>4

\* The other steps of a thread that allocates.
LEMMA AllocatorStep ==
  ASSUME IInv, NEW t \in Allocators, Allocator(t)
  PROVE  IInv'
<1>1. CASE RequestMinor(t)
  <2>1. StalledInv' /\ ResultInv' /\ OutOfMemoryIsEarned'
    BY <1>1, QueueKept DEF RequestMinor
  <2> QED BY <1>1, <2>1 DEF RequestMinor, IInv, EarnedInv, driverVars
<1>2. CASE StallEnds(t)
  <2>1. \A i \in DOMAIN stalled : stalled[i].thread \in Allocators /\ stalled[i].thread # t
    BY <1>2, StallsTyped DEF StallEnds, IInv, StalledInv
  <2>2. StalledInv'
    BY <1>2, <2>1 DEF StallEnds, IInv, StalledInv, ResultInv
  <2>3. ResultInv' /\ OutOfMemoryIsEarned'
    BY <1>2 DEF StallEnds, IInv, ResultInv, AllocLabels, OutOfMemoryIsEarned
  <2>4. EarnedInv'
    BY <1>2, <2>1 DEF StallEnds, IInv, EarnedInv, driverVars
  <2> QED BY <2>2, <2>3, <2>4 DEF IInv
<1>3. CASE KeepPage(t)
  <2>1. StalledInv' /\ ResultInv' /\ OutOfMemoryIsEarned'
    BY <1>3, QueueKept DEF KeepPage
  <2> QED BY <1>3, <2>1 DEF KeepPage, IInv, EarnedInv, driverVars
<1>4. CASE UndoPage(t)
  BY <1>4, FreePageStep DEF UndoPage
<1> QED BY <1>1, <1>2, <1>3, <1>4 DEF Allocator

\* The steps of the drivers that touch neither the queue nor who is owed what,
\* and do not start an old collection.
LEMMA DriverKept ==
  ASSUME IInv, UNCHANGED <<stalled, alloc, result, earned>>,
         driver' \in [Drivers -> Labels],
         driver'["major"] \notin {"receive", "start", "preclean"} => preclean',
         clear' /\ driver'["major"] \in Collecting => clear /\ driver["major"] \in Collecting
  PROVE  IInv'
<1>1. StalledInv' /\ ResultInv' /\ OutOfMemoryIsEarned'
  BY QueueKept
<1>2. EarnedInv'
  BY DEF IInv, EarnedInv
<1> QED BY <1>1, <1>2 DEF IInv

\* Requests, of those that wait for an answer and of the director.
LEMMA RequestStep ==
  ASSUME IInv, (\E r \in Requesters : RequestMajor(r)) \/ Timer
  PROVE  IInv'
<1>1. UNCHANGED <<allocVars, driverVars, earned>>
  BY DEF RequestMajor, Timer
<1> QED BY <1>1, DriverKept DEF IInv, EarnedInv, allocVars, driverVars

\* A collection gives memory back, or relocation takes some.
LEMMA MemoryStep ==
  ASSUME IInv, NEW d \in Drivers, CollectionFrees(d) \/ RelocationAllocates(d)
  PROVE  IInv'
<1>1. CASE CollectionFrees(d)
  BY <1>1, FreePageStep DEF CollectionFrees
<1>2. CASE RelocationAllocates(d)
  <2>1. UNCHANGED <<stalled, alloc, result, driverVars, earned>>
    BY <1>2 DEF RelocationAllocates
  <2> QED BY <2>1, DriverKept DEF IInv, EarnedInv, driverVars
<1> QED BY <1>1, <1>2

\* A collection is started, but not that of the old generation.
LEMMA MarkStartStep ==
  ASSUME IInv, NEW isOld \in BOOLEAN, MarkStart(isOld), UNCHANGED <<alloc, result>>
  PROVE  /\ StalledInv' /\ ResultInv'
         /\ DOMAIN stalled' = DOMAIN stalled
         /\ \A i \in DOMAIN stalled : /\ stalled'[i].thread = stalled[i].thread
                                      /\ stalled'[i].thread \in Allocators
                                      /\ ~isOld => stalled'[i].seenOld = stalled[i].seenOld
<1>0. stalled \in Seq(Stalls) /\ Len(stalled) \in Nat /\ DOMAIN stalled = 1..Len(stalled)
  BY DEF IInv, StalledInv
<1>1. \A i \in 1..Len(stalled) : stalled[i] \in Stalls
  BY <1>0, StallsTyped
<1>2. stalled' = [i \in 1..Len(stalled) |->
                    [stalled[i] EXCEPT !.seenYoung = TRUE, !.seenOld = @ \/ isOld]]
  BY <1>0 DEF MarkStart
<1>3. ASSUME NEW i \in 1..Len(stalled)
      PROVE  /\ stalled'[i] \in Stalls
             /\ stalled'[i].thread = stalled[i].thread
             /\ stalled'[i].thread \in Allocators
             /\ ~isOld => stalled'[i].seenOld = stalled[i].seenOld
  <2>1. stalled'[i] = [stalled[i] EXCEPT !.seenYoung = TRUE, !.seenOld = @ \/ isOld]
    BY <1>2
  <2>2. PICK b \in BOOLEAN : b = (stalled[i].seenOld \/ isOld)
    OBVIOUS
  <2>3. stalled'[i] = [stalled[i] EXCEPT !.seenYoung = TRUE, !.seenOld = b]
    BY <2>1, <2>2, Zenon
  <2>4. stalled[i] \in Stalls /\ (~isOld => b = stalled[i].seenOld)
    BY <1>1, <2>2 DEF Stalls
  <2>5. /\ stalled'[i] \in Stalls
        /\ stalled'[i].thread = stalled[i].thread
        /\ stalled'[i].seenOld = b
    BY <2>3, <2>4 DEF Stalls
  <2> QED BY <2>4, <2>5 DEF Stalls
<1>4. stalled' \in Seq(Stalls) /\ DOMAIN stalled' = DOMAIN stalled
  <2> DEFINE F(i) == [stalled[i] EXCEPT !.seenYoung = TRUE, !.seenOld = @ \/ isOld]
  <2>1. \A i \in 1..Len(stalled) : F(i) \in Stalls
    BY <1>2, <1>3
  <2>2. stalled' = [i \in 1..Len(stalled) |-> F(i)]
    BY <1>2
  <2> HIDE DEF F
  <2> QED BY <1>0, <2>1, <2>2
<1>5. StalledInv'
  BY <1>0, <1>3, <1>4 DEF IInv, StalledInv
<1>6. ResultInv'
  BY DEF IInv, ResultInv
<1> QED BY <1>0, <1>3, <1>4, <1>5, <1>6

\* The minor driver, whose collections do not touch what is owed.
LEMMA MinorStep ==
  ASSUME IInv, Minor
  PROVE  IInv'
<1>0. "minor" \in Drivers /\ "major" \in Drivers /\ driver \in [Drivers -> Labels]
  BY DEF Drivers, IInv, EarnedInv
<1>1. CASE MinorMarkStart
  <2>1. MarkStart(FALSE) /\ driver' = [driver EXCEPT !["minor"] = "young"]
        /\ UNCHANGED <<alloc, result, clear, preclean, earned>>
    BY <1>1 DEF MinorMarkStart, Goto
  <2>2. /\ StalledInv' /\ ResultInv' /\ DOMAIN stalled' = DOMAIN stalled
        /\ \A i \in DOMAIN stalled : /\ stalled'[i].thread = stalled[i].thread
                                     /\ stalled'[i].seenOld = stalled[i].seenOld
    BY <2>1, MarkStartStep
  <2>3. EarnedInv' /\ OutOfMemoryIsEarned'
    BY <1>0, <2>1, <2>2 DEF IInv, EarnedInv, Labels, OutOfMemoryIsEarned
  <2> QED BY <2>2, <2>3 DEF IInv
<1>2. ASSUME ReceiveRequest("minor") \/ MinorStart \/ MinorEnd \/ MinorAck \/ MinorHandleStalls
      PROVE  IInv'
  <2>1. /\ UNCHANGED <<stalled, alloc, result, earned, clear, preclean>>
        /\ \E l \in Labels : driver' = [driver EXCEPT !["minor"] = l]
    <3>0. {"start", "mark_start", "ack"} \subseteq Labels
      BY DEF Labels, Collecting
    <3>1. CASE ReceiveRequest("minor")
      BY <3>0, <3>1 DEF ReceiveRequest, Goto, allocVars
    <3>2. CASE MinorStart
      BY <3>0, <3>2 DEF MinorStart, Goto, allocVars
    <3>3. CASE MinorEnd
      BY <3>0, <3>3 DEF MinorEnd, Goto, allocVars
    <3>4. CASE MinorAck \/ MinorHandleStalls
      BY <3>4 DEF MinorAck, AckRequest, MinorHandleStalls, Goto, allocVars, Labels, Collecting
    <3> QED BY <1>2, <3>1, <3>2, <3>3, <3>4
  <2>2. driver' \in [Drivers -> Labels] /\ driver'["major"] = driver["major"]
    BY <1>0, <2>1
  <2> QED BY <2>1, <2>2, DriverKept DEF IInv, EarnedInv
<1> QED BY <1>1, <1>2 DEF Minor

\* The major driver: an old collection that clears soft references begins with
\* everybody who has stalled owed no other, and they alone fail at its end.
LEMMA MajorStep ==
  ASSUME ScavengeBeforeFullGC, IInv, Major
  PROVE  IInv'
<1>0. "major" \in Drivers /\ driver \in [Drivers -> Labels]
  BY DEF Drivers, IInv, EarnedInv
<1>1. CASE MajorMarkStartPreclean
  <2>1. /\ MarkStart(FALSE) /\ driver' = [driver EXCEPT !["major"] = "young_preclean"]
        /\ driver["major"] = "mark_start_preclean"
        /\ UNCHANGED <<alloc, result, clear, preclean, earned>>
    BY <1>1 DEF MajorMarkStartPreclean, Goto
  <2>2. StalledInv' /\ ResultInv'
    BY <2>1, MarkStartStep
  <2>3. EarnedInv' /\ OutOfMemoryIsEarned'
    BY <1>0, <2>1 DEF IInv, EarnedInv, Labels, Collecting, OutOfMemoryIsEarned
  <2> QED BY <2>2, <2>3 DEF IInv
<1>2. CASE MajorMarkStartRoots
  <2>1. /\ MarkStart(TRUE) /\ driver' = [driver EXCEPT !["major"] = "young_roots"]
        /\ driver["major"] = "mark_start_roots"
        /\ UNCHANGED <<alloc, result, clear, preclean>>
    BY <1>2 DEF MajorMarkStartRoots, Goto
  <2>2. earned' = earned \cup (IF clear /\ preclean THEN ThreadsOf(stalled) ELSE {})
    BY <1>2 DEF MajorMarkStartRoots
  <2>3. /\ StalledInv' /\ ResultInv' /\ DOMAIN stalled' = DOMAIN stalled
        /\ \A i \in DOMAIN stalled : stalled'[i].thread = stalled[i].thread
    BY <2>1, MarkStartStep
  <2>4. preclean
    BY <2>1 DEF IInv, EarnedInv
  <2>5. EarnedInv' /\ OutOfMemoryIsEarned'
    BY <1>0, <2>1, <2>2, <2>3, <2>4 DEF IInv, EarnedInv, Labels, Collecting, ThreadsOf, OutOfMemoryIsEarned
  <2> QED BY <2>3, <2>5 DEF IInv
<1>3. CASE MajorHandleStalls
  <2>1. PICK k \in 0..Len(stalled) :
          /\ Answered(k, "oom")
          /\ \A j \in 1..k : clear /\ stalled[j].seenOld
    <3>1. OutOfMemory \in 0..Len(stalled) /\ \A j \in 1..OutOfMemory : stalled[j].seenOld
      BY OutOfMemoryTyped DEF IInv
    <3>2. CASE clear
      BY <1>3, <3>1, <3>2 DEF MajorHandleStalls, Answered
    <3>3. CASE ~clear
      <4>1. Answered(0, "oom")
        BY <1>3, <3>3 DEF MajorHandleStalls, Answered
      <4> QED BY <3>1, <4>1
    <3> QED BY <3>2, <3>3
  <2>2. /\ driver["major"] = "handle_stalls" /\ UNCHANGED <<alloc, earned>>
        /\ clear' = FALSE /\ driver' = [driver EXCEPT !["major"] = "receive"]
    BY <1>3 DEF MajorHandleStalls, Goto
  <2>3. /\ stalled' \in Seq(Stalls)
        /\ \A i \in DOMAIN stalled' : i + k \in DOMAIN stalled /\ stalled'[i] = stalled[i + k]
        /\ \A i, j \in DOMAIN stalled' : stalled'[i].thread = stalled'[j].thread => i = j
        /\ \A i \in DOMAIN stalled' : result'[stalled'[i].thread] = "none"
        /\ result' \in [Allocators -> {"none", "page", "oom"}]
        /\ \A t \in Allocators : result'[t] # result[t] =>
             /\ result'[t] = "oom" /\ alloc[t] \in {"request", "wait"}
             /\ \E i \in 1..k : stalled[i].thread = t
    BY <2>1, AnsweredStep DEF IInv
  <2>4. StalledInv' /\ ResultInv'
    BY <2>2, <2>3 DEF IInv, StalledInv, ResultInv
  <2>5. ASSUME NEW i \in 1..k PROVE stalled[i].thread \in earned
    <3>1. i \in DOMAIN stalled
      BY StallsTyped DEF IInv, StalledInv
    <3> QED BY <2>1, <2>2, <3>1 DEF IInv, EarnedInv, Labels, Collecting
  <2>6. OutOfMemoryIsEarned'
    BY <2>2, <2>3, <2>5 DEF IInv, OutOfMemoryIsEarned
  <2>7. EarnedInv'
    BY <1>0, <2>2 DEF EarnedInv, Labels
  <2> QED BY <2>4, <2>6, <2>7 DEF IInv
<1>4. CASE MajorPreclean
  <2>1. /\ UNCHANGED <<stalled, alloc, result, earned, clear>>
        /\ preclean' /\ driver' = [driver EXCEPT !["major"] = "mark_start_preclean"]
    BY <1>4 DEF MajorPreclean, ShouldPreclean, Goto, allocVars
  <2> QED BY <1>0, <2>1, DriverKept DEF Labels, Collecting
<1>5. CASE ReceiveRequest("major") \/ MajorStart
  <2>1. /\ UNCHANGED <<stalled, alloc, result, earned, preclean>>
        /\ \E l \in {"start", "preclean"} : driver' = [driver EXCEPT !["major"] = l]
    BY <1>5 DEF ReceiveRequest, MajorStart, Goto, allocVars
  <2> QED BY <1>0, <2>1, DriverKept DEF Labels, Collecting
<1>6. CASE MajorPrecleanEnd
  <2>1. /\ UNCHANGED <<stalled, alloc, result, earned, clear, preclean>>
        /\ driver["major"] = "young_preclean"
        /\ driver' = [driver EXCEPT !["major"] = "mark_start_roots"]
    BY <1>6 DEF MajorPrecleanEnd, Goto, allocVars
  <2> QED BY <1>0, <2>1, DriverKept DEF IInv, EarnedInv, Labels, Collecting
<1>7. ASSUME MajorHandleYoung \/ MajorRelocateStart \/ MajorRelocate \/ MajorEnd \/ MajorAck
      PROVE  IInv'
  <2>1. /\ UNCHANGED <<stalled, alloc, result, earned, clear, preclean>>
        /\ driver["major"] \in Collecting
        /\ \E l \in Collecting : driver' = [driver EXCEPT !["major"] = l]
    BY <1>7 DEF MajorHandleYoung, MajorRelocateStart, MajorRelocate, MajorEnd, MajorAck,
                AckRequest, Goto, allocVars, Collecting
  <2> QED BY <1>0, <2>1, DriverKept DEF IInv, EarnedInv, Labels, Collecting
<1> QED BY <1>1, <1>2, <1>3, <1>4, <1>5, <1>6, <1>7 DEF Major

-----------------------------------------------------------------------------
LEMMA InitInv ==
  ASSUME Init
  PROVE  IInv
<1>1. stalled = <<>> /\ DOMAIN stalled = {} /\ stalled \in Seq(Stalls)
  BY DEF Init
<1>2. StalledInv /\ ResultInv /\ OutOfMemoryIsEarned
  BY <1>1 DEF Init, StalledInv, ResultInv, AllocLabels, OutOfMemoryIsEarned
<1>3. EarnedInv
  BY DEF Init, EarnedInv, Drivers, Labels, Collecting
<1> QED BY <1>2, <1>3 DEF IInv

LEMMA StepInv ==
  ASSUME ScavengeBeforeFullGC, IInv, [Next]_vars
  PROVE  IInv'
<1>1. CASE UNCHANGED vars
  <2>1. UNCHANGED <<stalled, alloc, result, earned, driver, clear, preclean>>
    BY <1>1 DEF vars, allocVars, driverVars
  <2> QED BY <2>1, DriverKept DEF IInv, EarnedInv
<1>2. CASE Next
  BY <1>2, AllocPageStep, AllocatorStep, RequestStep, MemoryStep, MinorStep, MajorStep DEF Next
<1> QED BY <1>1, <1>2

\* Nobody is told that the heap is exhausted before the whole of it has been
\* collected for that thread (PageAllocator::handle_alloc_stalling_for_old and
\* the drivers), if young collections precede full ones, the default.
THEOREM OutOfMemoryEarned ==
  ScavengeBeforeFullGC => (Spec => []OutOfMemoryIsEarned)
<1> SUFFICES ASSUME ScavengeBeforeFullGC PROVE Spec => []OutOfMemoryIsEarned
  OBVIOUS
<1>1. Init => IInv
  BY InitInv
<1>2. IInv /\ [Next]_vars => IInv'
  BY StepInv
<1>3. IInv => OutOfMemoryIsEarned
  BY DEF IInv
<1> QED BY <1>1, <1>2, <1>3, PTL DEF Spec

-----------------------------------------------------------------------------
(* The director: a generation never has, or is asked to have, no worker or *)
(* more than its flag allows.  What it decides rests on samples that may   *)
(* be out of date, so that the invariant says of every place where a       *)
(* number waits on its way that it is within the limits of its generation: *)
(* in a request to a driver, in a sample, in a selection.                  *)
(*                                                                         *)
(* A sample of a generation that is not active is zero.  It becomes a      *)
(* number of workers only where both generations together have more than   *)
(* ConcGCThreads, so that neither sample is zero.                          *)

Y == flags.ZYoungGCThreads
O == flags.ZOldGCThreads
C == flags.ConcGCThreads

\* The flags the VM starts with, with enough threads for the young generation.
FlagsInv == C \in Nat /\ Y \in 1 .. C /\ O \in 1 .. C /\ O <= Y

\* The workers of each generation.
Limited(workers, limit) ==
  workers \in [is_active : BOOLEAN, active_workers : 1 .. limit,
              requested_nworkers : 0 .. limit]
PoolsInv == Limited(young, Y) /\ Limited(old, O)

\* What was asked of the drivers.
Phases == {"idle", "sent", "young", "roots", "between", "old", "remap", "relocate", "ending"}
Causes == {"none", "java", "timer", "warmup", "proactive", "allocation_rate"}
Request(n, o) == [young : n, old : o, cause : Causes]
RequestsInv ==
  /\ minor \in [phase : Phases, request : Request(0 .. Y, {0})]
  /\ minor.phase # "idle" => minor.request.young \in 1 .. Y
  /\ major \in [phase : Phases, request : Request(0 .. Y, 0 .. O)]
  /\ major.phase # "idle" => major.request.young \in 1 .. Y /\ major.request.old \in 1 .. O

\* What the director has sampled: a generation that is active has workers.
Sampled(limit) == {s \in [is_active : BOOLEAN, nworkers_current : 0 .. limit] :
                     s.is_active => s.nworkers_current > 0}
SamplesInv == stats \in [young : Sampled(Y), old : Sampled(O)]

\* What the director has selected and not yet put into effect.
Selections == [young : 1 .. Y, old : 1 .. O]
ChoiceInv == pc \in {"start_minor", "adjust_old", "adjust_young"} => choice \in Selections

LimitsInv == FlagsInv /\ PoolsInv /\ RequestsInv /\ SamplesInv /\ ChoiceInv

\* Clamping to a limit gives a number of workers.
LEMMA Clamps ==
  ASSUME NEW n \in Int, NEW hi \in Nat \ {0}
  PROVE  D!Clamp(n, 1, hi) \in 1 .. hi
BY DEF D!Clamp, D!Smaller, D!Larger

\* The flags are those of ZArguments::select_max_gc_threads that it accepts.
LEMMA SettingsLegal ==
  ASSUME D!DirectorAssumption, NEW f \in D!Settings
  PROVE  /\ f.ConcGCThreads \in Nat
         /\ f.ZYoungGCThreads \in 1 .. f.ConcGCThreads
         /\ f.ZOldGCThreads \in 1 .. f.ConcGCThreads
<1>1. PICK cmd \in [conc : ThreadFlags, young : ThreadFlags, old : ThreadFlags,
                   dynamic : BOOLEAN] :
        f = D!SelectMaxGCThreads(cmd)
  BY DEF D!Settings
<1>2. f.ZYoungGCThreads <= f.ConcGCThreads /\ f.ZOldGCThreads <= f.ConcGCThreads
  BY DEF D!Settings
<1>3. cmd.conc \in Nat /\ cmd.young \in Nat /\ cmd.old \in Nat /\ cmd.dynamic \in BOOLEAN
  BY DEF D!DirectorAssumption
<1> DEFINE generation == IF cmd.conc = 0 THEN Concurrent ELSE cmd.conc
           conc == IF cmd.conc = 0
                     THEN D!Larger(generation, D!Larger(cmd.young, cmd.old)) ELSE cmd.conc
<1>4. generation \in Nat \ {0} /\ conc \in Nat
  BY <1>3 DEF D!DirectorAssumption, D!Larger
<1>5. D!Larger((generation * 9) \div 10, 1) \in Nat \ {0}
  BY <1>4 DEF D!Larger
<1>6. f.ConcGCThreads = conc
  BY <1>1 DEF D!SelectMaxGCThreads
<1>7. f.ZYoungGCThreads \in Nat \ {0}
  <2> HIDE DEF generation
  <2>1. f.ZYoungGCThreads \in {cmd.young, generation, D!Larger((generation * 9) \div 10, 1)}
        /\ (f.ZYoungGCThreads = cmd.young => cmd.young # 0 \/ cmd.young = generation
               \/ cmd.young = D!Larger((generation * 9) \div 10, 1))
    BY <1>1, <1>3 DEF D!SelectMaxGCThreads, generation
  <2> QED BY <2>1, <1>3, <1>4, <1>5
<1>8. f.ZOldGCThreads \in Nat \ {0}
  <2> HIDE DEF generation, conc
  <2>1. D!Larger(conc - f.ZYoungGCThreads, 1) \in Nat \ {0}
    BY <1>4, <1>7 DEF D!Larger
  <2>2. f.ZOldGCThreads \in {cmd.old, generation, D!Larger(conc - f.ZYoungGCThreads, 1)}
        /\ (f.ZOldGCThreads = cmd.old => cmd.old # 0 \/ cmd.old = generation
               \/ cmd.old = D!Larger(conc - f.ZYoungGCThreads, 1))
    BY <1>1, <1>3 DEF D!SelectMaxGCThreads, generation, conc
  <2> QED BY <2>1, <2>2, <1>3, <1>4
<1> QED BY <1>2, <1>4, <1>6, <1>7, <1>8

\* Ratios of efficiencies give numbers, whatever they are.
LEMMA TimesAreNumbers ==
  ASSUME FlagsInv, Efficiencies \subseteq Nat, NEW n \in Nat, NEW r \in D!Ratios
  PROVE  D!Times(n, r) \subseteq Int /\ D!TimesYoungShare(n, r) \subseteq Int
<1>1. r[1] \in Nat /\ r[2] \in Nat
  BY DEF D!Ratios
<1>2. C \in Int
  BY DEF FlagsInv
<1>3. CASE r[2] = 0
  BY <1>2, <1>3 DEF D!Times, D!TimesYoungShare, C
<1>4. CASE r[2] # 0
  <2>1. n * r[1] \in Nat /\ n * r[2] \in Nat
    BY <1>1
  <2>2. (n * r[1]) \div r[2] \in Int
    BY <1>1, <1>4, <2>1
  <2>3. (n * r[2]) \div (r[1] + r[2]) \in Int
    BY <1>1, <1>4, <2>1
  <2> QED BY <1>4, <2>2, <2>3 DEF D!Times, D!TimesYoungShare
<1> QED BY <1>3, <1>4

\* select_worker_threads, from a number of young workers within the limit.
LEMMA SelectsLegal ==
  ASSUME FlagsInv, SamplesInv, Efficiencies \subseteq Nat, NEW n \in 1 .. Y, NEW type
  PROVE  D!SelectWorkerThreads(n, type) \subseteq Selections
<1> SUFFICES ASSUME NEW s \in D!SelectWorkerThreads(n, type)
    PROVE  s \in Selections
  OBVIOUS
<1>1. CASE allocStalling
  BY <1>1 DEF D!SelectWorkerThreads, D!Selection, Selections, FlagsInv, Y, O, C
<1>2. CASE ~allocStalling /\ stats.young.nworkers_current + stats.old.nworkers_current > C
  <2>1. s = D!Selection(stats.young.nworkers_current, stats.old.nworkers_current)
    BY <1>2 DEF D!SelectWorkerThreads, C
  <2>2. stats.young.nworkers_current \in 0 .. Y /\ stats.old.nworkers_current \in 0 .. O
    BY DEF SamplesInv, Sampled
  <2>3. C \in Nat /\ Y \in Nat /\ O \in Nat /\ Y <= C /\ O <= C
    BY DEF FlagsInv
  <2>4. stats.young.nworkers_current \in 1 .. Y /\ stats.old.nworkers_current \in 1 .. O
    <3> HIDE DEF Y, O, C
    <3> QED BY <1>2, <2>2, <2>3
  <2> QED BY <2>1, <2>4 DEF D!Selection, Selections
<1>3. CASE ~allocStalling /\ ~(stats.young.nworkers_current + stats.old.nworkers_current > C)
  <2>1. s \in D!ByRatio(n, type)
    BY <1>3 DEF D!SelectWorkerThreads, C
  <2>0. PICK r \in D!Ratios : \E o \in D!Times(n, r), y \in D!TimesYoungShare(C, r) :
          \/ s = D!Selection(n, D!Clamp(o, 1, O))
          \/ s = D!Selection(D!Larger(D!OldClamped(D!Clamp(y, 1, Y)), n),
               D!OldClamped(D!Clamp(y, 1, Y)))
          \/ s = D!Selection(D!Clamp(y, 1, Y), D!OldClamped(D!Clamp(y, 1, Y)))
    BY <2>1 DEF D!ByRatio, Y, O, C
  <2>2. PICK o \in D!Times(n, r), y \in D!TimesYoungShare(C, r) :
          \/ s = D!Selection(n, D!Clamp(o, 1, O))
          \/ s = D!Selection(D!Larger(D!OldClamped(D!Clamp(y, 1, Y)), n),
               D!OldClamped(D!Clamp(y, 1, Y)))
          \/ s = D!Selection(D!Clamp(y, 1, Y), D!OldClamped(D!Clamp(y, 1, Y)))
    BY <2>0
  <2>3. C \in Nat /\ Y \in Nat \ {0} /\ O \in Nat \ {0} /\ O <= Y /\ n \in Nat
    BY DEF FlagsInv
  <2>4. o \in Int /\ y \in Int
    BY <2>3, TimesAreNumbers
  <2>5. D!Clamp(o, 1, O) \in 1 .. O /\ D!Clamp(y, 1, Y) \in 1 .. Y
    BY <2>3, <2>4, Clamps
  <2>6. D!OldClamped(D!Clamp(y, 1, Y)) \in 1 .. O
    <3>1. C - D!Clamp(y, 1, Y) \in Int
      BY <2>3, <2>5
    <3> QED BY <3>1, <2>3, Clamps DEF D!OldClamped, C, O
  <2>7. D!Larger(D!OldClamped(D!Clamp(y, 1, Y)), n) \in 1 .. Y
    <3> DEFINE m == D!OldClamped(D!Clamp(y, 1, Y))
    <3> HIDE DEF m, Y, O, C
    <3>1. m \in 1 .. O /\ n \in 1 .. Y
      BY <2>6 DEF m
    <3>2. D!Larger(m, n) \in 1 .. Y
      BY <3>1, <2>3 DEF D!Larger
    <3> QED BY <3>2 DEF m
  <2> QED BY <2>2, <2>5, <2>6, <2>7 DEF D!Selection, Selections
<1> QED BY <1>1, <1>2, <1>3

\* initial_workers, for the collection to be started.
LEMMA InitialLegal ==
  ASSUME FlagsInv, SamplesInv, Efficiencies \subseteq Nat, NEW type
  PROVE  /\ D!SelectYoungGCWorkers \subseteq 1 .. Y
         /\ D!InitialWorkers(type) \subseteq Selections
<1>1. Y \in 1 .. Y /\ O \in 1 .. O
  BY DEF FlagsInv
<1>2. D!SelectYoungGCWorkers \subseteq 1 .. Y
  BY <1>1 DEF D!SelectYoungGCWorkers, Y
<1>3. CASE flags.UseDynamicNumberOfGCThreads
  BY <1>2, <1>3, SelectsLegal DEF D!InitialWorkers
<1>4. CASE ~flags.UseDynamicNumberOfGCThreads
  <2>1. D!InitialWorkers(type) = {D!Selection(Y, O)}
    BY <1>4 DEF D!InitialWorkers, Y, O
  <2>2. D!Selection(Y, O) \in Selections
    BY <1>1 DEF D!Selection, Selections
  <2> QED BY <2>1, <2>2, <1>2
<1> QED BY <1>2, <1>3, <1>4

\* What is done to the workers of a generation keeps to its limit.
LEMMA Resizes ==
  ASSUME NEW limit \in Nat, NEW workers, Limited(workers, limit), NEW n \in 1 .. limit
  PROVE  /\ Limited(D!RequestResizeWorkers(workers, n), limit)
         /\ Limited(D!SetActiveWorkers(workers, n), limit)
         /\ Limited(D!SetActive(workers), limit)
         /\ Limited(D!SetInactive(workers), limit)
         /\ D!NeedsRestart(workers) => Limited(D!RestartTask(workers), limit)
<1> DEFINE a == workers.is_active
           k == workers.active_workers
           q == workers.requested_nworkers
           yes == TRUE
           no == FALSE
<1>1. workers = [is_active |-> a, active_workers |-> k, requested_nworkers |-> q]
      /\ a \in BOOLEAN /\ k \in 1 .. limit /\ q \in 0 .. limit
  BY DEF Limited
<1>2. D!RequestResizeWorkers(workers, n)
        \in {workers, [is_active |-> a, active_workers |-> k, requested_nworkers |-> n]}
  BY <1>1 DEF D!RequestResizeWorkers
<1>3. D!SetActiveWorkers(workers, n) = [is_active |-> a, active_workers |-> n,
     requested_nworkers |-> q]
  BY <1>1 DEF D!SetActiveWorkers
<1>y. yes \in BOOLEAN /\ no \in BOOLEAN
  OBVIOUS
<1>s. /\ D!SetActive(workers) = [workers EXCEPT !.is_active = yes, !.requested_nworkers = 0]
      /\ D!SetInactive(workers) = [workers EXCEPT !.is_active = no]
  BY DEF D!SetActive, D!SetInactive
<1>z. D!NeedsRestart(workers) => q # 0
  BY DEF D!NeedsRestart
<1> HIDE DEF a, k, q, yes, no
<1>4. D!SetActive(workers) = [is_active |-> yes, active_workers |-> k,
     requested_nworkers |-> 0]
  BY <1>1, <1>s
<1>5. D!SetInactive(workers) = [is_active |-> no, active_workers |-> k,
     requested_nworkers |-> q]
  BY <1>1, <1>s
<1>6. D!RestartTask(workers) = [is_active |-> a, active_workers |-> q,
     requested_nworkers |-> 0]
  <2>1. D!RestartTask(workers) = [workers EXCEPT !.active_workers = q, !.requested_nworkers
       = 0]
    BY DEF D!RestartTask, q
  <2> QED BY <1>1, <2>1
<1>7. D!NeedsRestart(workers) => q \in 1 .. limit
  BY <1>1, <1>z
<1>8. 0 \in 0 .. limit /\ n \in 0 .. limit
  OBVIOUS
<1>9. \A b \in BOOLEAN, n1 \in 1 .. limit, n2 \in 0 .. limit :
           Limited([is_active |-> b, active_workers |-> n1, requested_nworkers |-> n2], limit)
  BY DEF Limited
<1> QED BY <1>1, <1>2, <1>3, <1>4, <1>5, <1>6, <1>7, <1>8, <1>9, <1>y

\* Flags do not change.
LEMMA FlagsStay == ASSUME [D!Next]_(D!vars) PROVE flags' = flags
BY DEF D!Next, D!Director, D!Driver, D!Application, D!vars, D!driverVars, D!directorVars,
     D!SampleYoung, D!SampleOld,
   D!DecideMajor, D!DecideMinor, D!MergeIntoMajor, D!SelectMinor, D!StartMinor,
        D!NoAdjustment, D!AdjustSelect,
   D!AdjustOld, D!AdjustYoung, D!MinorStart, D!MinorEnd, D!MajorStart, D!MajorRoots,
        D!MajorYoungEnd,
   D!MajorOldStart, D!RemapStart, D!RemapEnd, D!MajorOldEnd, D!MajorAck, D!Restart,
        D!AllocStall, D!StallEnds,
   D!Collect, D!AllocationRateChanges

\* The invariant at the start.
LEMMA LimitsInitially ==
  ASSUME D!DirectorAssumption, D!Init, O <= Y
  PROVE  LimitsInv
<1>1. FlagsInv
  BY SettingsLegal DEF D!Init, FlagsInv, Y, O, C
<1>2. Y \in 1 .. Y /\ O \in 1 .. O /\ 0 \in 0 .. Y /\ 0 \in 0 .. O
  BY <1>1 DEF FlagsInv
<1>3. PoolsInv
  BY <1>2 DEF D!Init, PoolsInv, Limited, D!Workers, Y, O
<1>4. RequestsInv
  BY <1>2 DEF D!Init, RequestsInv, Request, D!NoRequest, Phases, Causes
<1>5. SamplesInv
  BY <1>2 DEF D!Init, SamplesInv, Sampled, D!NoStats, D!Unsampled
<1>6. ChoiceInv
  BY DEF D!Init, ChoiceInv
<1> QED BY <1>1, <1>3, <1>4, <1>5, <1>6 DEF LimitsInv

\* And in every step, of the director, the drivers and the application.
LEMMA LimitsStep ==
  ASSUME D!DirectorAssumption, LimitsInv, [D!Next]_(D!vars)
  PROVE  LimitsInv'
<1> USE DEF LimitsInv
<1>0. Efficiencies \subseteq Nat
  BY DEF D!DirectorAssumption
<1>f. flags' = flags
  BY FlagsStay
<1>1. Y' = Y /\ O' = O /\ C' = C
  BY <1>f DEF Y, O, C
<1>2. FlagsInv'
  BY <1>1 DEF FlagsInv
<1>3. Y \in 1 .. Y /\ O \in 1 .. O /\ 0 \in 0 .. Y /\ 0 \in 0 .. O
  BY DEF FlagsInv
<1>p. Y \in Nat /\ O \in Nat
  BY <1>3
<1>4. Selections' = Selections
  BY <1>1 DEF Selections
<1>5. ASSUME NEW n \in 1 .. Y, D!SendMinor(n)
      PROVE  /\ minor' \in [phase : Phases, request : Request(0 .. Y, {0})]
             /\ minor'.phase # "idle" => minor'.request.young \in 1 .. Y
  <2>1. [D!NoRequest EXCEPT !.young = n] = [young |-> n, old |-> 0, cause |-> "none"]
    BY DEF D!NoRequest
  <2>2. [D!NoRequest EXCEPT !.young = n] \in Request(0 .. Y, {0})
    BY <2>1, <1>3 DEF Request, Causes
  <2>3. CASE D!MinorIsBusy
    BY <2>3, <1>5 DEF D!SendMinor, RequestsInv
  <2>4. CASE ~D!MinorIsBusy
    <3>1. minor' = [phase |-> "sent", request |-> [D!NoRequest EXCEPT !.young = n]]
      BY <2>4, <1>5 DEF D!SendMinor
    <3> QED BY <3>1, <2>1, <2>2 DEF Phases
  <2> QED BY <2>3, <2>4
<1>6. ASSUME NEW r \in Request(1 .. Y, 1 .. O), D!SendMajor(r)
      PROVE  /\ major' \in [phase : Phases, request : Request(0 .. Y, 0 .. O)]
             /\ major'.phase # "idle" => major'.request.young \in 1 .. Y
                  /\ major'.request.old \in 1 .. O
  <2>1. r \in Request(0 .. Y, 0 .. O) /\ r.young \in 1 .. Y /\ r.old \in 1 .. O
    BY <1>3 DEF Request
  <2>2. CASE D!MajorIsBusy
    BY <2>2, <1>6 DEF D!SendMajor, RequestsInv
  <2>3. CASE ~D!MajorIsBusy
    <3>1. major' = [phase |-> "sent", request |-> r]
      BY <2>3, <1>6 DEF D!SendMajor
    <3> QED BY <3>1, <2>1 DEF Phases
  <2> QED BY <2>2, <2>3
<1>n. D!NoStats \in [young : Sampled(Y), old : Sampled(O)]
  BY <1>3 DEF D!NoStats, D!Unsampled, Sampled
<1>s. \A workers, limit : limit \in Nat /\ Limited(workers, limit)
     => D!Sample(workers) \in Sampled(limit)
  BY DEF Limited, D!Sample, Sampled
<1>r. \A workers, limit, n : limit \in Nat /\ Limited(workers, limit) /\ n \in 1 .. limit =>
        /\ Limited(D!RequestResizeWorkers(workers, n), limit)
        /\ Limited(D!SetActiveWorkers(workers, n), limit)
        /\ Limited(D!SetActive(workers), limit)
        /\ Limited(D!SetInactive(workers), limit)
        /\ D!NeedsRestart(workers) => Limited(D!RestartTask(workers), limit)
  BY Resizes
<1>7. CASE UNCHANGED D!vars
  BY <1>7, <1>1, <1>2, <1>4 DEF D!vars, D!driverVars, D!directorVars, PoolsInv, RequestsInv,
       SamplesInv, ChoiceInv
<1>8. CASE D!Director
  <2>1. CASE D!SampleYoung
    <3>1. stats' = [young |-> D!Sample(young), old |-> D!NoStats.old]
      BY <2>1 DEF D!SampleYoung, D!NoStats
    <3>2. D!Sample(young) \in Sampled(Y) /\ D!NoStats.old \in Sampled(O)
      BY <1>n, <1>3, <1>s DEF PoolsInv
    <3>3. SamplesInv'
      BY <3>1, <3>2, <1>1 DEF SamplesInv
    <3> QED BY <2>1, <3>3, <1>1, <1>2, <1>4 DEF D!SampleYoung, D!driverVars, PoolsInv,
         RequestsInv, ChoiceInv
  <2>2. CASE D!SampleOld
    BY <2>2, <1>1, <1>2, <1>4, <1>3, <1>s DEF D!SampleOld, D!driverVars, PoolsInv, RequestsInv,
       SamplesInv, ChoiceInv
  <2>3. CASE D!DecideMajor
    <3>1. PICK why \in D!MajorCauses :
            IF why = "none" THEN pc' = "minor" /\ UNCHANGED <<choice, stats, major>>
            ELSE \E s \in D!InitialWorkers("start_major") :
                   /\ pc' = "tick" /\ choice' = s /\ stats' = D!NoStats
                   /\ D!SendMajor([young |-> s.young, old |-> s.old, cause |-> why])
      BY <2>3 DEF D!DecideMajor
    <3>2. UNCHANGED <<flags, young, old, minor>>
      BY <2>3 DEF D!DecideMajor
    <3>3. CASE why = "none"
      BY <3>1, <3>2, <3>3, <1>1, <1>2, <1>4 DEF PoolsInv, RequestsInv, SamplesInv, ChoiceInv
    <3>4. CASE why # "none"
      <4>1. PICK s \in D!InitialWorkers("start_major") :
              /\ pc' = "tick" /\ choice' = s /\ stats' = D!NoStats
              /\ D!SendMajor([young |-> s.young, old |-> s.old, cause |-> why])
        BY <3>1, <3>4
      <4>2. s \in Selections
        BY <4>1, <1>0, InitialLegal
      <4>3. why \in Causes
        BY DEF D!MajorCauses, D!RuleMajorTimer, D!RuleMajorWarmup, D!RuleMajorProactive, Causes
      <4>4. [young |-> s.young, old |-> s.old, cause |-> why] \in Request(1 .. Y, 1 .. O)
        BY <4>2, <4>3 DEF Request, Selections
      <4> QED BY <4>1, <4>4, <3>2, <1>6, <1>n, <1>1, <1>2
            DEF PoolsInv, RequestsInv, SamplesInv, ChoiceInv
    <3> QED BY <3>3, <3>4
  <2>4. CASE D!DecideMinor
    BY <2>4, <1>1, <1>2, <1>4 DEF D!DecideMinor, D!driverVars, PoolsInv, RequestsInv,
         SamplesInv, ChoiceInv
  <2>5. CASE D!MergeIntoMajor
    <3>1. PICK s \in D!InitialWorkers("start_major") :
            D!SendMajor([young |-> s.young, old |-> s.old, cause |-> "allocation_rate"])
      BY <2>5 DEF D!MergeIntoMajor
    <3>2. s \in Selections
      BY <3>1, <1>0, InitialLegal
    <3>3. [young |-> s.young, old |-> s.old, cause |-> "allocation_rate"] \in Request(1 .. Y,
         1 .. O)
      BY <3>2 DEF Request, Selections, Causes
    <3> QED BY <2>5, <3>1, <3>3, <1>6, <1>n, <1>1, <1>2
          DEF D!MergeIntoMajor, PoolsInv, RequestsInv, SamplesInv, ChoiceInv
  <2>6. CASE D!SelectMinor
    BY <2>6, <1>0, <1>1, <1>2, <1>4, InitialLegal DEF D!SelectMinor, D!driverVars, PoolsInv,
         RequestsInv, SamplesInv, ChoiceInv
  <2>7. CASE D!StartMinor
    <3>1. choice \in Selections /\ D!SendMinor(choice.young)
      BY <2>7 DEF D!StartMinor, ChoiceInv
    <3>2. choice.young \in 1 .. Y /\ choice.old \in 1 .. O
      BY <3>1 DEF Selections
    <3>3. Limited(old', O)
      <4>1. Limited(D!RequestResizeWorkers(old, choice.old), O)
        BY <3>2, <1>p, Resizes DEF PoolsInv
      <4> QED BY <2>7, <4>1 DEF D!StartMinor, PoolsInv
    <3> QED BY <2>7, <3>1, <3>2, <3>3, <1>5, <1>n, <1>1, <1>2
          DEF D!StartMinor, PoolsInv, RequestsInv, SamplesInv, ChoiceInv
  <2>8. CASE D!NoAdjustment
    BY <2>8, <1>n, <1>1, <1>2, <1>4 DEF D!NoAdjustment, D!driverVars, PoolsInv, RequestsInv,
         SamplesInv, ChoiceInv
  <2>9. CASE D!AdjustSelect
    <3>1. PICK n \in D!SelectYoungGCWorkers, type \in {"minor_during_old", "normal"} :
            choice' \in D!SelectWorkerThreads(D!DesiredYoungWorkers(n), type)
      BY <2>9 DEF D!AdjustSelect
    <3>2. n \in 1 .. Y
      BY <3>1, <1>0, InitialLegal
    <3>3. stats.young.nworkers_current \in 1 .. Y
      BY <2>9 DEF D!AdjustSelect, SamplesInv, Sampled
    <3>4. D!DesiredYoungWorkers(n) \in 1 .. Y
      BY <3>2, <3>3, <1>3 DEF D!DesiredYoungWorkers, D!Smaller, Y
    <3>5. choice' \in Selections
      BY <3>1, <3>4, <1>0, SelectsLegal
    <3> QED BY <2>9, <3>5, <1>1, <1>2, <1>4
          DEF D!AdjustSelect, D!driverVars, PoolsInv, RequestsInv, SamplesInv, ChoiceInv
  <2>10. CASE D!AdjustOld
    <3>1. choice \in Selections
      BY <2>10 DEF D!AdjustOld, ChoiceInv
    <3>2. Limited(old', O)
      <4>1. Limited(D!RequestResizeWorkers(old, choice.old), O)
        BY <3>1, <1>p, Resizes DEF PoolsInv, Selections
      <4> QED BY <2>10, <4>1 DEF D!AdjustOld, PoolsInv
    <3> QED BY <2>10, <3>1, <3>2, <1>1, <1>2, <1>4
          DEF D!AdjustOld, D!driverVars, PoolsInv, RequestsInv, SamplesInv, ChoiceInv
  <2>11. CASE D!AdjustYoung
    <3>1. choice \in Selections
      BY <2>11 DEF D!AdjustYoung, ChoiceInv
    <3>2. Limited(young', Y)
      <4>1. Limited(D!RequestResizeWorkers(young, choice.young), Y)
        BY <3>1, <1>p, Resizes DEF PoolsInv, Selections
      <4> QED BY <2>11, <4>1 DEF D!AdjustYoung, PoolsInv
    <3> QED BY <2>11, <3>2, <1>n, <1>1, <1>2, <1>4
          DEF D!AdjustYoung, D!driverVars, PoolsInv, RequestsInv, SamplesInv, ChoiceInv
  <2> QED BY <1>8, <2>1, <2>2, <2>3, <2>4, <2>5, <2>6, <2>7, <2>8, <2>9, <2>10,
       <2>11 DEF D!Director
<1>9. CASE D!Driver
  <2>1. UNCHANGED <<pc, stats, choice>>
    BY <1>9 DEF D!Driver, D!directorVars, D!MinorStart, D!MinorEnd, D!MajorStart,
         D!MajorRoots, D!MajorYoungEnd,
       D!MajorOldStart, D!RemapStart, D!RemapEnd, D!MajorOldEnd, D!MajorAck, D!Restart
  <2>2. SamplesInv' /\ ChoiceInv'
    BY <2>1, <1>1, <1>4 DEF SamplesInv, ChoiceInv
  <2>3. PoolsInv'
    <3> SUFFICES Limited(young', Y) /\ Limited(old', O)
      BY <1>1 DEF PoolsInv
    <3> USE <1>r, <1>p DEF PoolsInv, RequestsInv
    <3>1. CASE D!MinorStart
      BY <3>1 DEF D!MinorStart
    <3>2. CASE D!MinorEnd
      BY <3>2, <1>3 DEF D!MinorEnd
    <3>3. CASE D!MajorStart
      BY <3>3 DEF D!MajorStart
    <3>4. CASE D!MajorRoots \/ D!MajorYoungEnd
      <4>1. Limited(D!SetInactive(young), Y)
        BY <1>3
      <4>2. Limited(D!SetActive(D!SetInactive(young)), Y)
        BY <4>1, <1>3
      <4> QED BY <3>4, <4>1, <4>2 DEF D!MajorRoots, D!MajorYoungEnd
    <3>5. CASE D!MajorOldStart \/ D!MajorOldEnd \/ D!MajorAck
      <4>1. Limited(D!SetActive(old), O) /\ Limited(D!SetInactive(old), O)
        BY <1>3
      <4> QED BY <3>5, <4>1 DEF D!MajorOldStart, D!MajorOldEnd, D!MajorAck
    <3>6. CASE D!RemapStart
      <4>1. young.active_workers + old.active_workers \in Int
        BY DEF Limited
      <4>2. D!Clamp(young.active_workers + old.active_workers, 1, O) \in 1 .. O
        BY <4>1, <1>3, Clamps
      <4> QED BY <3>6, <4>2 DEF D!RemapStart, O
    <3>7. CASE D!RemapEnd
      BY <3>7 DEF D!RemapEnd
    <3>8. CASE D!Restart
      BY <3>8, <1>3 DEF D!Restart
    <3> QED BY <1>9, <3>1, <3>2, <3>3, <3>4, <3>5, <3>6, <3>7, <3>8 DEF D!Driver
  <2>4. RequestsInv'
    <3> USE <1>1 DEF RequestsInv, Phases
    <3>1. CASE D!MinorStart
      BY <3>1 DEF D!MinorStart
    <3>2. CASE D!MinorEnd
      BY <3>2, <1>3 DEF D!MinorEnd, D!NoRequest, Request, Causes
    <3>3. CASE D!MajorStart \/ D!MajorRoots \/ D!MajorYoungEnd \/ D!MajorOldStart
         \/ D!RemapEnd \/ D!MajorOldEnd
      BY <3>3 DEF D!MajorStart, D!MajorRoots, D!MajorYoungEnd, D!MajorOldStart, D!RemapEnd,
           D!MajorOldEnd
    <3>4. CASE D!RemapStart
      <4>1. old.active_workers \in 1 .. O
        BY DEF PoolsInv, Limited
      <4>2. major' = [phase |-> "remap",
                      request |-> [young |-> major.request.young, old |-> old.active_workers,
                                   cause |-> major.request.cause]]
        BY <3>4 DEF D!RemapStart, Request
      <4>3. major.request.young \in 1 .. Y /\ major.request.cause \in Causes
        BY <3>4 DEF D!RemapStart, Request
      <4> HIDE DEF RequestsInv
      <4>4. minor' = minor
        BY <3>4 DEF D!RemapStart
      <4>5. old.active_workers \in 0 .. O /\ major.request.young \in 0 .. Y
        BY <4>1, <4>3, <1>3
      <4> QED BY <4>1, <4>2, <4>3, <4>4, <4>5 DEF Request, RequestsInv
    <3>5. CASE D!MajorAck
      BY <3>5, <1>3 DEF D!MajorAck, D!NoRequest, Request, Causes
    <3>6. CASE D!Restart
      BY <3>6 DEF D!Restart, D!driverVars
    <3> QED BY <1>9, <3>1, <3>2, <3>3, <3>4, <3>5, <3>6 DEF D!Driver
  <2> QED BY <1>2, <2>2, <2>3, <2>4
<1>10. CASE D!Application
  <2>1. UNCHANGED <<young, old, pc, stats, choice>>
    BY <1>10 DEF D!Application, D!AllocStall, D!StallEnds, D!Collect,
         D!AllocationRateChanges, D!directorVars
  <2>2. PoolsInv' /\ SamplesInv' /\ ChoiceInv'
    BY <2>1, <1>1, <1>4 DEF PoolsInv, SamplesInv, ChoiceInv
  <2>3. RequestsInv'
    <3>1. CASE D!AllocStall
      BY <3>1, <1>1, <1>3, <1>5 DEF D!AllocStall, RequestsInv, Y
    <3>2. CASE D!Collect
      <4>1. [young |-> Y, old |-> O, cause |-> "java"] \in Request(1 .. Y, 1 .. O)
        BY <1>3 DEF Request, Causes
      <4> QED BY <3>2, <4>1, <1>1, <1>6 DEF D!Collect, RequestsInv, Y, O
    <3>3. CASE D!StallEnds \/ D!AllocationRateChanges
      BY <3>3, <1>1 DEF D!StallEnds, D!AllocationRateChanges, D!driverVars, RequestsInv
    <3> QED BY <1>10, <3>1, <3>2, <3>3 DEF D!Application
  <2> QED BY <1>2, <2>2, <2>3
<1> QED BY <1>7, <1>8, <1>9, <1>10 DEF D!Next

\* Whatever was sampled when and whatever changed since, no generation runs, or
\* is asked to run, without a worker or with more than its flag allows, for any
\* flags, efficiencies and number of processors, if the young generation has at
\* least as many threads as the old one (select_worker_threads, adjust_gc,
\* ZWorkers::request_resize_workers).
THEOREM WorkersLimited == DirectorSpec => []WorkersWithinLimits
<1> DEFINE Within == O <= Y => LimitsInv
<1>1. D!Init => Within
  BY LimitsInitially, WorkersAssumption
<1>2. Within /\ [D!Next]_(D!vars) => Within'
  <2> SUFFICES ASSUME Within, [D!Next]_(D!vars), (O <= Y)' PROVE LimitsInv'
    OBVIOUS
  <2>1. O <= Y
    BY FlagsStay DEF O, Y
  <2> QED BY <2>1, LimitsStep, WorkersAssumption
<1>3. Within => WorkersWithinLimits
  BY DEF LimitsInv, PoolsInv, Limited, WorkersWithinLimits, D!WorkersWithinLimits,
         D!WithinLimits, O, Y
<1> QED BY <1>1, <1>2, <1>3, PTL DEF DirectorSpec, D!Spec
=============================================================================

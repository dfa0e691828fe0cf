------------------------- MODULE MCRelocation_proofs -------------------------
(***************************************************************************)
(* Proofs for the data structures of relocation.                           *)
(*                                                                         *)
(* First the forwarding table of a page, for any number of threads and     *)
(* objects and any hash function: the entries on every probe sequence are  *)
(* such that neither a lookup nor an insertion can pass the entry it looks *)
(* for, so an object gets one entry and all threads get the same address.  *)
(*                                                                         *)
(* Then the relocation queue, the JNI critical regions and the object      *)
(* allocator, each for any values of its constants, and last the theorems  *)
(* about the parts carried over to behaviours that exercise one part at a  *)
(* time: a part's inductive invariant is preserved by its own steps, and   *)
(* by the steps of the others, which leave the part as it is.              *)
(***************************************************************************)
EXTENDS MCRelocation, FiniteSetTheorems, TLAPS

\* The first n slots probed for k hold entries of other objects.
TakenByOthers(k, n) ==
  \A i \in 0..(n - 1) : Populated(Slot(k, i)) /\ entries[Slot(k, i)].from # k

\* Every entry is where a probe for its object arrives, past full slots only.
Reachable ==
  \A s \in DOMAIN entries :
    \E n \in Nat : Slot(entries[s].from, n) = s /\ TakenByOthers(entries[s].from, n)

Searching == {"find", "insert_cas", "insert_probe"}

LocalsInv ==
  /\ \A t \in Threads : pc[t] # "idle" => key[t] \in Keys
  /\ \A t \in Threads : pc[t] \in Searching => TakenByOthers(key[t], probe[t])
  /\ \A t \in Threads : pc[t] = "return" =>
       \E s \in DOMAIN entries : entries[s] = [from |-> key[t], to |-> result[t]]

IInv == TypeOK /\ Reachable /\ LocalsInv

LEMMA InitInv == Init => IInv
<1> SUFFICES ASSUME Init PROVE IInv
  OBVIOUS
<1>1. DOMAIN entries = {}
  BY DEF Init
<1>2. entries \in [DOMAIN entries -> Entry]
  BY <1>1 DEF Init
<1>3. TypeOK
  BY <1>2 DEF Init, TypeOK
<1> QED
  BY <1>1, <1>3 DEF Init, IInv, Reachable, LocalsInv, Searching

\* One entry per object: two entries would be reached by the same probe
\* sequence, and the longer probe would have passed the other entry.
LEMMA OneEntry == IInv => NoDuplicates
<1> SUFFICES ASSUME IInv, NEW s \in DOMAIN entries, NEW r \in DOMAIN entries,
                    entries[s].from = entries[r].from
             PROVE  s = r
  BY DEF NoDuplicates
<1> DEFINE k == entries[s].from
<1>1. PICK n \in Nat : Slot(k, n) = s /\ TakenByOthers(k, n)
  BY DEF IInv, Reachable
<1>2. PICK m \in Nat : Slot(k, m) = r /\ TakenByOthers(k, m)
  BY DEF IInv, Reachable
<1>3. ~(n < m) /\ ~(m < n)
  BY <1>1, <1>2 DEF TakenByOthers
<1> QED
  BY <1>1, <1>2, <1>3

\* The table's address for an object with an entry is that entry's.
LEMMA EntryIsForwarding ==
  ASSUME NoDuplicates, NEW s \in DOMAIN entries
  PROVE  ForwardedTo(entries[s].from) = entries[s].to
BY DEF NoDuplicates, ForwardedTo

\* A step that leaves the entries alone and is about thread t only.
LEMMA ReadStep ==
  ASSUME IInv, NEW t \in Threads,
         \/ \E k \in Keys : FindFirst(t, k)
         \/ Advance(t) \/ Match(t) \/ Miss(t) \/ InsertLoses(t)
         \/ ReturnAddress(t) \/ GiveUp(t)
  PROVE  IInv'
<1> USE DEF FindFirst, Advance, Match, Miss, InsertLoses, ReturnAddress, GiveUp, Return,
            Goto, Cursor, IInv
<1>1. entries' = entries /\ Reachable'
  BY DEF Reachable, TakenByOthers, Populated
<1>2. TypeOK'
  <2>1. pc' \in [Threads -> {"idle", "find", "insert_cas", "insert_probe", "return"}]
    BY DEF TypeOK
  <2>2. key' \in [Threads -> Keys \cup {NoKey}] /\ probe' \in [Threads -> Nat]
    BY DEF TypeOK
  <2>3. result' \in [Threads -> Threads \cup {NoAddress}]
    BY DEF TypeOK, Populated, Entry
  <2> QED
    BY <1>1, <2>1, <2>2, <2>3 DEF TypeOK
<1>3. \A u \in Threads \ {t} :
        pc'[u] = pc[u] /\ key'[u] = key[u] /\ probe'[u] = probe[u] /\ result'[u] = result[u]
  BY DEF TypeOK
<1>4. pc'[t] # "idle" => key'[t] \in Keys
  BY DEF TypeOK, LocalsInv
<1>5. pc'[t] \in Searching => TakenByOthers(key[t], probe[t])'
  <2>1. CASE \E k \in Keys : FindFirst(t, k)
    BY <2>1 DEF TypeOK, TakenByOthers
  <2>2. CASE Advance(t)
    <3>1. TakenByOthers(key[t], probe[t])
      BY <2>2 DEF LocalsInv, Searching
    <3>2. TakenByOthers(key[t], probe[t] + 1)
      BY <2>2, <3>1 DEF TakenByOthers, TypeOK
    <3> QED
      BY <1>1, <2>2, <3>2 DEF TypeOK, TakenByOthers, Populated
  <2>3. CASE Miss(t) \/ InsertLoses(t)
    <3>1. TakenByOthers(key[t], probe[t])
      BY <2>3 DEF LocalsInv, Searching
    <3> QED
      BY <1>1, <2>3, <3>1 DEF TypeOK, TakenByOthers, Populated
  <2>4. CASE Match(t) \/ ReturnAddress(t) \/ GiveUp(t)
    BY <2>4 DEF TypeOK, Searching
  <2> QED
    BY <2>1, <2>2, <2>3, <2>4
<1>6. pc'[t] = "return" =>
        \E s \in DOMAIN entries : entries[s] = [from |-> key'[t], to |-> result'[t]]
  <2>1. pc'[t] = "return" => Match(t)
    BY DEF TypeOK
  <2>2. ASSUME Match(t)
        PROVE  entries[Cursor(t)] = [from |-> key'[t], to |-> result'[t]]
    BY <2>2 DEF TypeOK, Populated, Entry
  <2> QED
    BY <2>1, <2>2 DEF Populated
<1>7. LocalsInv'
  <2>1. ASSUME NEW u \in Threads PROVE pc'[u] # "idle" => key'[u] \in Keys
    BY <1>3, <1>4 DEF LocalsInv
  <2>2. ASSUME NEW u \in Threads, pc'[u] \in Searching PROVE TakenByOthers(key[u], probe[u])'
    BY <1>1, <1>3, <1>5, <2>2 DEF LocalsInv, TakenByOthers, Populated
  <2>3. ASSUME NEW u \in Threads, pc'[u] = "return"
        PROVE  \E s \in DOMAIN entries' : entries'[s] = [from |-> key'[u], to |-> result'[u]]
    BY <1>1, <1>3, <1>6, <2>3 DEF LocalsInv
  <2> QED
    BY <2>1, <2>2, <2>3 DEF LocalsInv, TakenByOthers, Populated
<1> QED
  BY <1>1, <1>2, <1>7

\* The write: thread t fills the empty slot its probe for the object ended at.
LEMMA WriteStep ==
  ASSUME IInv, NEW t \in Threads, InsertWins(t)
  PROVE  IInv'
<1> USE DEF InsertWins, Goto, IInv
<1> DEFINE c == Cursor(t)  k == key[t]
<1>1. k \in Keys /\ TakenByOthers(k, probe[t]) /\ c \notin DOMAIN entries /\ probe[t] \in Nat
  BY DEF LocalsInv, TypeOK, Searching, Populated
<1>2. /\ DOMAIN entries' = DOMAIN entries \cup {c}
      /\ entries'[c] = [from |-> k, to |-> t]
      /\ \A s \in DOMAIN entries : entries'[s] = entries[s]
  BY <1>1
<1>3. TypeOK'
  <2>1. entries' \in [DOMAIN entries' -> Entry]
    BY <1>1, <1>2 DEF TypeOK, Entry
  <2>2. pc' \in [Threads -> {"idle", "find", "insert_cas", "insert_probe", "return"}]
    BY DEF TypeOK
  <2>3. result' \in [Threads -> Threads \cup {NoAddress}]
    BY DEF TypeOK
  <2> QED
    BY <2>1, <2>2, <2>3 DEF TypeOK
<1>4. ASSUME NEW j \in Keys, NEW n \in Nat, TakenByOthers(j, n)
      PROVE  TakenByOthers(j, n)'
  BY <1>2, <1>4 DEF TakenByOthers, Populated
<1>5. Reachable'
  <2> SUFFICES ASSUME NEW s \in DOMAIN entries'
               PROVE  \E n \in Nat : /\ Slot(entries'[s].from, n) = s
                                     /\ TakenByOthers(entries[s].from, n)'
    BY DEF Reachable
  <2>1. CASE s = c
    BY <1>1, <1>2, <1>4, <2>1 DEF Cursor
  <2>2. CASE s # c
    <3>1. s \in DOMAIN entries /\ entries[s].from \in Keys /\ entries'[s] = entries[s]
      BY <1>2, <2>2 DEF TypeOK, Entry
    <3>2. PICK n \in Nat : Slot(entries[s].from, n) = s /\ TakenByOthers(entries[s].from, n)
      BY <3>1 DEF Reachable
    <3>3. TakenByOthers(entries[s].from, n)'
      BY <1>4, <3>1, <3>2
    <3> QED
      BY <3>1, <3>2, <3>3
  <2> QED
    BY <2>1, <2>2
<1>6. \A u \in Threads : key'[u] = key[u] /\ probe'[u] = probe[u]
  OBVIOUS
<1>7. \A u \in Threads \ {t} : pc'[u] = pc[u] /\ result'[u] = result[u]
  BY DEF TypeOK
<1>8. pc'[t] = "return" /\ result'[t] = t
  BY DEF TypeOK
<1>9. LocalsInv'
  <2>1. ASSUME NEW u \in Threads PROVE pc'[u] # "idle" => key'[u] \in Keys
    BY <1>1, <1>6, <1>7 DEF LocalsInv
  <2>2. ASSUME NEW u \in Threads, pc'[u] \in Searching PROVE TakenByOthers(key[u], probe[u])'
    <3>1. u # t /\ pc[u] \in Searching
      BY <1>7, <1>8, <2>2 DEF Searching
    <3>2. key[u] \in Keys /\ probe[u] \in Nat /\ TakenByOthers(key[u], probe[u])
      BY <3>1 DEF LocalsInv, TypeOK, Searching
    <3>3. \A i \in 0..(probe[u] - 1) :
            Populated(Slot(key[u], i))' /\ entries'[Slot(key[u], i)].from # key[u]
      BY <1>2, <3>2 DEF TakenByOthers, Populated
    <3> QED
      BY <1>6, <3>3 DEF TakenByOthers, Populated
  <2>3. ASSUME NEW u \in Threads, pc'[u] = "return"
        PROVE  \E s \in DOMAIN entries' : entries'[s] = [from |-> key'[u], to |-> result'[u]]
    <3>1. CASE u = t
      BY <1>2, <1>6, <1>8, <3>1
    <3>2. CASE u # t
      <4>1. PICK s \in DOMAIN entries : entries[s] = [from |-> key[u], to |-> result[u]]
        BY <1>7, <2>3, <3>2 DEF LocalsInv
      <4> QED
        BY <1>2, <1>6, <1>7, <3>2, <4>1
    <3> QED
      BY <3>1, <3>2
  <2> QED
    BY <2>1, <2>2, <2>3 DEF LocalsInv
<1> QED
  BY <1>3, <1>5, <1>9

LEMMA NextInv == IInv /\ [Next]_vars => IInv'
<1> SUFFICES ASSUME IInv, [Next]_vars PROVE IInv'
  OBVIOUS
<1>1. CASE UNCHANGED vars
  BY <1>1 DEF vars, IInv, TypeOK, Reachable, LocalsInv, TakenByOthers, Populated
<1>2. CASE Next
  BY <1>2, ReadStep, WriteStep DEF Next, Step
<1> QED
  BY <1>1, <1>2

LEMMA InductiveInvariant == Spec => []IInv
BY InitInv, NextInv, PTL DEF Spec
-----------------------------------------------------------------------------
\* Every variable of the table keeps its type.
THEOREM TypeCorrect == Spec => []TypeOK
BY InductiveInvariant, PTL DEF IInv

\* No object gets two entries, however the inserts race.
THEOREM NoDuplicatesHold == Spec => []NoDuplicates
BY InductiveInvariant, OneEntry, PTL

\* No cursor passes an entry of the object it looks for.
THEOREM CursorsNeverPass == Spec => []CursorNeverPasses
<1>1. IInv => CursorNeverPasses
  BY DEF IInv, LocalsInv, Searching, CursorNeverPasses, TakenByOthers
<1> QED
  BY <1>1, InductiveInvariant, PTL

LEMMA AgreedResults == IInv => ResultIsForwarding
<1> SUFFICES ASSUME IInv, NEW t \in Threads, pc[t] = "return"
             PROVE  result[t] = ForwardedTo(key[t])
  BY DEF ResultIsForwarding
<1>1. PICK s \in DOMAIN entries : entries[s] = [from |-> key[t], to |-> result[t]]
  BY DEF IInv, LocalsInv
<1>2. ForwardedTo(entries[s].from) = entries[s].to
  BY OneEntry, EntryIsForwarding
<1> QED
  BY <1>1, <1>2

\* All threads are told the address the table forwards the object to.
THEOREM ResultsAgree == Spec => []ResultIsForwarding
BY AgreedResults, InductiveInvariant, PTL

\* An insertion forwards one object that was not forwarded, and leaves the
\* addresses of the others; no other step changes the table.
LEMMA MapStep ==
  ASSUME IInv, NoDuplicates, NoDuplicates', [Next]_vars
  PROVE  [Map!MapNext]_([k \in Keys |-> ForwardedTo(k)])
<1> DEFINE fwd == [k \in Keys |-> ForwardedTo(k)]
<1>1. CASE entries' = entries
  BY <1>1 DEF ForwardedTo
<1>2. ASSUME NEW t \in Threads, InsertWins(t),
             NEW c, c = Cursor(t), NEW k, k = key[t]
      PROVE  Map!MapNext
  <2>1. c \notin DOMAIN entries /\ k \in Keys
    BY <1>2 DEF InsertWins, Populated, IInv, LocalsInv
  <2>2. /\ DOMAIN entries' = DOMAIN entries \cup {c}
        /\ entries'[c] = [from |-> k, to |-> t]
        /\ \A s \in DOMAIN entries : entries'[s] = entries[s]
    BY <1>2, <2>1 DEF InsertWins
  <2>3. \A s \in DOMAIN entries : entries[s].from # k
    BY <2>1, <2>2 DEF NoDuplicates
  <2>4. ForwardedTo(k) = NoAddress
    BY <2>3 DEF ForwardedTo
  <2>5. ForwardedTo(k)' = t
    <3>1. \A s \in DOMAIN entries' : entries'[s].from = k => s = c
      BY <2>1, <2>2 DEF NoDuplicates
    <3> QED
      BY <2>2, <3>1 DEF ForwardedTo
  <2>6. ASSUME NEW j \in Keys, j # k
        PROVE  ForwardedTo(j)' = ForwardedTo(j)
    <3>1. \A s \in DOMAIN entries' :
            entries'[s].from = j <=> s \in DOMAIN entries /\ entries[s].from = j
      BY <2>2, <2>6
    <3>2. CASE \E s \in DOMAIN entries : entries[s].from = j
      <4>1. PICK s \in DOMAIN entries : entries[s].from = j
        BY <3>2
      <4>2. ForwardedTo(j) = entries[s].to
        BY <4>1 DEF ForwardedTo, NoDuplicates
      <4>3. ForwardedTo(j)' = entries'[s].to
        BY <2>2, <4>1 DEF ForwardedTo, NoDuplicates
      <4> QED
        BY <2>2, <4>2, <4>3
    <3>3. CASE ~\E s \in DOMAIN entries : entries[s].from = j
      BY <3>1, <3>3 DEF ForwardedTo
    <3> QED
      BY <3>2, <3>3
  <2>7. fwd[k] = NoAddress /\ fwd' = [fwd EXCEPT ![k] = t]
    <3>1. \A j \in Keys : (fwd')[j] = [fwd EXCEPT ![k] = t][j]
      BY <2>1, <2>5, <2>6
    <3> QED
      BY <2>1, <2>4, <3>1
  <2> QED
    BY <2>1, <2>7 DEF Map!MapNext, Map!Forward
<1>3. CASE UNCHANGED vars
  BY <1>1, <1>3 DEF vars
<1>4. ASSUME NEW t \in Threads,
             \/ \E k \in Keys : FindFirst(t, k)
             \/ Advance(t) \/ Match(t) \/ Miss(t) \/ InsertLoses(t)
             \/ ReturnAddress(t) \/ GiveUp(t)
      PROVE  entries' = entries
  BY <1>4 DEF FindFirst, Advance, Match, Miss, InsertLoses, ReturnAddress, GiveUp, Return
<1> QED
  BY <1>1, <1>2, <1>3, <1>4 DEF Next, Step

LEMMA MapInitially == Init => Map!MapInit
BY DEF Init, Map!MapInit, ForwardedTo

\* The table implements the write-once map.
THEOREM TableImplementsMap == Spec => ImplementsMap
<1>1. IInv /\ NoDuplicates /\ NoDuplicates' /\ [Next]_vars
        => [Map!MapNext]_([k \in Keys |-> ForwardedTo(k)])
  BY MapStep
<1> QED
  BY <1>1, MapInitially, InductiveInvariant, NoDuplicatesHold, PTL
  DEF Spec, ImplementsMap, Map!MapSpec
-----------------------------------------------------------------------------
(* The relocation queue, for any number of workers, threads that wait for  *)
(* pages, and pages: workers stand still at a safepoint, every page is     *)
(* relocated by one worker before the task ends, and neither the VM thread *)
(* nor a thread that waits for a page sleeps through the event it waits    *)
(* for.                                                                    *)

Parked == {w \in Workers : queuePc[w] = "parked"}
Synchronized == {w \in Workers : queuePc[w] = "synchronized"}

QueueLabelsInv ==
  /\ \A w \in Workers : queuePc[w] \in Q!WorkerPCs
  /\ \A m \in Mutators : queuePc[m] \in Q!MutatorPCs

\* The counters count.
QueueCountersInv ==
  /\ nworkers = Cardinality(Workers \ Parked)
  /\ nsynchronized = Cardinality(Synchronized)
  /\ needsAttention = (IF queue = {} THEN 0 ELSE 1) + (IF synchronize THEN 1 ELSE 0)
  /\ synchronize <=> vmThread # "run"

\* Which page a thread works on or waits for.
QueuePagesInv ==
  /\ done \subseteq claimed
  /\ \A w \in Workers : queuePc[w] = "claim" => forwarding[w] \in Forwardings
  /\ \A w \in Workers : Q!Relocating(w) => forwarding[w] \in claimed \ done
  /\ \A v, w \in Workers :
       Q!Relocating(v) /\ Q!Relocating(w) /\ forwarding[v] = forwarding[w] => v = w
  /\ \A m \in Mutators : queuePc[m] \in {"add", "wait"} => forwarding[m] \in Forwardings
  /\ \A m \in Mutators : queuePc[m] = "wait" /\ forwarding[m] \notin done => forwarding[m] \in queue
  /\ \A f \in queue \ done : \E m \in Mutators : queuePc[m] = "wait" /\ forwarding[m] = f

\* No page is lost between the iterator, the workers and done.
QueueCoverInv ==
  /\ \A f \in Forwardings \ (unvisited \cup claimed) :
       \E w \in Workers : queuePc[w] = "claim" /\ forwarding[w] = f
  /\ \A f \in claimed \ done : \E w \in Workers : Q!Relocating(w) /\ forwarding[w] = f

\* Workers leave when there is nothing left or when they are asked to.
QueueLeaveInv ==
  /\ resizeRequest = 0 /\ unvisited # {} =>
       /\ \A w \in Workers : queuePc[w] # "leave"
       /\ \E w \in Workers : queuePc[w] # "parked"
  /\ resizeRequest = 0 /\ Parked = Workers => queue = {}
  /\ ~isActive => resizeRequest = 0 /\ Parked = Workers

\* From when all workers are synchronized until the safepoint is over, workers
\* only relocate pages that a thread waits for.
QueueStopInv ==
  /\ vmThread \in {"stop", "safepoint"} =>
       \A w \in Workers :
         \/ queuePc[w] \in {"synchronized", "parked", "poll", "poll_lock"}
         \/ /\ Q!Relocating(w) /\ resume[w] = "poll"
            /\ \E m \in Mutators : queuePc[m] = "wait" /\ forwarding[m] = forwarding[w]
  /\ vmThread = "safepoint" => \A m \in Mutators : queuePc[m] = "run"

\* A thread that waits is still going to be told: the VM thread when the
\* workers are synchronized, the others when their page leaves the queue.
WaitersAreNoticed ==
  /\ Q!VMThread \in waiting => vmThread = "synchronize" /\ nworkers # nsynchronized
  /\ \A w \in Workers \cap waiting : queuePc[w] = "synchronized" /\ synchronize
  /\ \A m \in Mutators \cap waiting : queuePc[m] = "wait" /\ forwarding[m] \in queue

QueueIInv ==
  /\ Q!TypeOK /\ QueueLabelsInv /\ QueueCountersInv /\ QueuePagesInv
  /\ QueueCoverInv /\ QueueLeaveInv /\ QueueStopInv
  /\ WaitersAreNoticed
-----------------------------------------------------------------------------
\* The queue's module counts as this one does.
LEMMA QueueCounts ==
  \A S : (Q!IsFiniteSet(S) <=> IsFiniteSet(S)) /\ Q!Cardinality(S) = Cardinality(S)
BY DEF Q!IsFiniteSet, IsFiniteSet, Q!Cardinality, Cardinality

LEMMA FiniteSubsets ==
  ASSUME Q!QueueAssumption
  PROVE  /\ IsFiniteSet(Workers) /\ Cardinality(Workers) \in Nat \ {0}
         /\ \A S \in SUBSET Workers :
              /\ IsFiniteSet(S) /\ Cardinality(S) \in 0 .. Cardinality(Workers)
              /\ Cardinality(S) = 0 <=> S = {}
BY QueueCounts, FS_Subset, FS_CardinalityType, FS_EmptySet DEF Q!QueueAssumption

\* prune and its dec_needs_attention keep the attention counter.
LEMMA PrunedAttention ==
  ASSUME QueueCountersInv, queue' = Q!Pruned, needsAttention' = Q!AttentionAfterPrune,
         UNCHANGED synchronize
  PROVE  needsAttention' = (IF queue' = {} THEN 0 ELSE 1) + (IF synchronize' THEN 1 ELSE 0)
BY DEF QueueCountersInv, Q!Pruned, Q!PruneFinds, Q!AttentionAfterPrune

\* The counters are within their types.
LEMMA CountersTyped ==
  ASSUME Q!QueueAssumption, QueueCountersInv'
  PROVE  /\ nworkers' \in 0 .. Cardinality(Workers) /\ nsynchronized' \in 0 .. Cardinality(Workers)
         /\ needsAttention' \in 0 .. 2
BY FiniteSubsets DEF QueueCountersInv, Parked, Synchronized

LEMMA SynchronizedAreRunning ==
  ASSUME Q!QueueAssumption, QueueCountersInv
  PROVE  nsynchronized <= nworkers /\ (nsynchronized = nworkers => Synchronized = Workers \ Parked)
<1>1. Synchronized \in SUBSET (Workers \ Parked) /\ IsFiniteSet(Workers \ Parked)
  BY FiniteSubsets DEF Synchronized, Parked
<1> QED BY <1>1, FS_Subset DEF QueueCountersInv

\* When nobody holds a page and none is left to visit, all are done.
LEMMA NothingLeft ==
  ASSUME QueueCoverInv, unvisited = {}, \A w \in Workers : queuePc[w] \in {"leave", "parked"}
  PROVE  Forwardings \subseteq done
BY DEF QueueCoverInv, Q!Relocating

LEMMA PollFastStep ==
  ASSUME Q!QueueAssumption, QueueIInv, NEW w \in Workers, Q!PollFast(w)
  PROVE  QueueIInv'
<1> USE DEF QueueIInv, Q!QueueThreads, Q!PollFast, Q!Goto, Q!queueVars, Q!pageVars,
            Q!localVars, Q!outerVars
<1>0. w \in Q!QueueThreads /\ w \notin Mutators /\ w # Q!VMThread
  BY DEF Q!QueueAssumption
<1>1. Parked' = Parked /\ Synchronized' = Synchronized
  BY <1>0 DEF Parked, Synchronized, Q!TypeOK, QueueLabelsInv, Q!WorkerPCs, Q!MutatorPCs
<1>2. QueueCountersInv'
  BY <1>1 DEF QueueCountersInv
<1>3. Q!TypeOK' /\ QueueLabelsInv'
  BY <1>0, <1>2, CountersTyped, QueueCounts DEF Q!TypeOK, QueueLabelsInv, Q!WorkerPCs, Q!MutatorPCs
<1>4. QueuePagesInv'
  BY <1>0, <1>1, <1>2 DEF QueuePagesInv, Q!TypeOK, QueueLabelsInv, Q!Relocating
<1>5. QueueCoverInv'
  BY <1>0, <1>1, <1>2 DEF QueueCoverInv, Q!TypeOK, QueueLabelsInv, QueuePagesInv, Q!Relocating
<1>6. QueueLeaveInv'
  BY <1>0, <1>1, <1>2 DEF QueueLeaveInv, Q!TypeOK, QueueLabelsInv, QueuePagesInv, Parked
<1>7. QueueStopInv'
  BY <1>0, <1>1, <1>2 DEF QueueStopInv, Q!TypeOK, QueueLabelsInv, QueuePagesInv, Q!Relocating,
                          QueueCountersInv
<1>8. WaitersAreNoticed'
  BY <1>0, <1>1, <1>2 DEF WaitersAreNoticed, Q!TypeOK, QueueLabelsInv, QueuePagesInv,
                          QueueCountersInv
<1> QED BY <1>2, <1>3, <1>4, <1>5, <1>6, <1>7, <1>8

LEMMA PollClaimsStep ==
  ASSUME Q!QueueAssumption, QueueIInv, NEW w \in Workers, Q!PollClaims(w)
  PROVE  QueueIInv'
<1> USE DEF QueueIInv, Q!QueueThreads, Q!PollClaims, Q!Goto, Q!ClaimQueued, Q!Take, Q!Pruned,
            Q!PruneFinds, Q!Unclaimed, Q!queueVars, Q!pageVars, Q!localVars, Q!outerVars
<1>0. w \in Q!QueueThreads /\ w \notin Mutators /\ w # Q!VMThread
  BY DEF Q!QueueAssumption
<1>1. Parked' = Parked /\ Synchronized' = Synchronized
  BY <1>0 DEF Parked, Synchronized, Q!TypeOK, QueueLabelsInv, Q!WorkerPCs, Q!MutatorPCs
<1>2. QueueCountersInv'
  BY <1>1, PrunedAttention DEF QueueCountersInv
<1>3. Q!TypeOK' /\ QueueLabelsInv'
  BY <1>0, <1>2, CountersTyped, QueueCounts DEF Q!TypeOK, QueueLabelsInv, Q!WorkerPCs, Q!MutatorPCs
<1>4. QueuePagesInv'
  BY <1>0, <1>1, <1>2 DEF QueuePagesInv, Q!TypeOK, QueueLabelsInv, Q!Relocating
<1>5. QueueCoverInv'
  BY <1>0, <1>1, <1>2 DEF QueueCoverInv, Q!TypeOK, QueueLabelsInv, QueuePagesInv, Q!Relocating
<1>6. QueueLeaveInv'
  BY <1>0, <1>1, <1>2 DEF QueueLeaveInv, Q!TypeOK, QueueLabelsInv, QueuePagesInv, Parked
<1>7. QueueStopInv'
  BY <1>0, <1>1, <1>2 DEF QueueStopInv, Q!TypeOK, QueueLabelsInv, QueuePagesInv, Q!Relocating,
                          QueueCountersInv
<1>8. WaitersAreNoticed'
  BY <1>0, <1>1, <1>2 DEF WaitersAreNoticed, Q!TypeOK, QueueLabelsInv, QueuePagesInv,
                          QueueCountersInv
<1> QED BY <1>2, <1>3, <1>4, <1>5, <1>6, <1>7, <1>8

LEMMA PollReturnsStep ==
  ASSUME Q!QueueAssumption, QueueIInv, NEW w \in Workers, Q!PollReturns(w)
  PROVE  QueueIInv'
<1> USE DEF QueueIInv, Q!QueueThreads, Q!PollReturns, Q!Goto, Q!Pruned, Q!PruneFinds,
            Q!Unclaimed, Q!queueVars, Q!pageVars, Q!localVars, Q!outerVars
<1>0. w \in Q!QueueThreads /\ w \notin Mutators /\ w # Q!VMThread
  BY DEF Q!QueueAssumption
<1>1. Parked' = Parked /\ Synchronized' = Synchronized
  BY <1>0 DEF Parked, Synchronized, Q!TypeOK, QueueLabelsInv, Q!WorkerPCs, Q!MutatorPCs
<1>2. QueueCountersInv'
  BY <1>1, PrunedAttention DEF QueueCountersInv
<1>3. Q!TypeOK' /\ QueueLabelsInv'
  BY <1>0, <1>2, CountersTyped, QueueCounts DEF Q!TypeOK, QueueLabelsInv, Q!WorkerPCs, Q!MutatorPCs
<1>4. QueuePagesInv'
  BY <1>0, <1>1, <1>2 DEF QueuePagesInv, Q!TypeOK, QueueLabelsInv, Q!Relocating
<1>5. QueueCoverInv'
  BY <1>0, <1>1, <1>2 DEF QueueCoverInv, Q!TypeOK, QueueLabelsInv, QueuePagesInv, Q!Relocating
<1>6. QueueLeaveInv'
  BY <1>0, <1>1, <1>2 DEF QueueLeaveInv, Q!TypeOK, QueueLabelsInv, QueuePagesInv, Parked
<1>7. QueueStopInv'
  BY <1>0, <1>1, <1>2 DEF QueueStopInv, Q!TypeOK, QueueLabelsInv, QueuePagesInv, Q!Relocating,
                          QueueCountersInv
<1>8. WaitersAreNoticed'
  BY <1>0, <1>1, <1>2 DEF WaitersAreNoticed, Q!TypeOK, QueueLabelsInv, QueuePagesInv,
                          QueueCountersInv
<1> QED BY <1>2, <1>3, <1>4, <1>5, <1>6, <1>7, <1>8

LEMMA PollSynchronizesStep ==
  ASSUME Q!QueueAssumption, QueueIInv, NEW w \in Workers, Q!PollSynchronizes(w)
  PROVE  QueueIInv'
<1> USE DEF QueueIInv, Q!QueueThreads, Q!PollSynchronizes, Q!Goto, Q!Pruned, Q!PruneFinds,
            Q!Unclaimed, Q!queueVars, Q!pageVars, Q!localVars, Q!outerVars
<1>0. w \in Q!QueueThreads /\ w \notin Mutators /\ w # Q!VMThread
  BY DEF Q!QueueAssumption
<1>1. Parked' = Parked /\ Synchronized' = Synchronized \cup {w}
  BY <1>0 DEF Parked, Synchronized, Q!TypeOK, QueueLabelsInv, Q!WorkerPCs, Q!MutatorPCs
<1>a. w \notin Synchronized /\ Cardinality(Synchronized \cup {w}) = nsynchronized + 1
  <2>1. w \notin Synchronized
    BY DEF Synchronized
  <2>2. IsFiniteSet(Synchronized)
    BY FiniteSubsets DEF Synchronized
  <2>3. Cardinality(Synchronized) = nsynchronized
    BY DEF QueueCountersInv
  <2> QED BY <2>1, <2>2, <2>3, FS_AddElement, FS_RemoveElement
<1>2. QueueCountersInv'
  BY <1>1, PrunedAttention, <1>a DEF QueueCountersInv
<1>3. Q!TypeOK' /\ QueueLabelsInv'
  BY <1>0, <1>2, CountersTyped, QueueCounts DEF Q!TypeOK, QueueLabelsInv, Q!WorkerPCs, Q!MutatorPCs
<1>4. QueuePagesInv'
  BY <1>0, <1>1, <1>2 DEF QueuePagesInv, Q!TypeOK, QueueLabelsInv, Q!Relocating
<1>5. QueueCoverInv'
  BY <1>0, <1>1, <1>2 DEF QueueCoverInv, Q!TypeOK, QueueLabelsInv, QueuePagesInv, Q!Relocating
<1>6. QueueLeaveInv'
  BY <1>0, <1>1, <1>2 DEF QueueLeaveInv, Q!TypeOK, QueueLabelsInv, QueuePagesInv, Parked
<1>7. QueueStopInv'
  BY <1>0, <1>1, <1>2 DEF QueueStopInv, Q!TypeOK, QueueLabelsInv, QueuePagesInv, Q!Relocating,
                          QueueCountersInv
<1>8. WaitersAreNoticed'
  BY <1>0, <1>1, <1>2 DEF WaitersAreNoticed, Q!TypeOK, QueueLabelsInv, QueuePagesInv,
                          QueueCountersInv
<1> QED BY <1>2, <1>3, <1>4, <1>5, <1>6, <1>7, <1>8

LEMMA WokenClaimsStep ==
  ASSUME Q!QueueAssumption, QueueIInv, NEW w \in Workers, Q!WokenClaims(w)
  PROVE  QueueIInv'
<1> USE DEF QueueIInv, Q!QueueThreads, Q!WokenClaims, Q!Goto, Q!ClaimQueued, Q!Take, Q!Pruned,
            Q!PruneFinds, Q!Unclaimed, Q!queueVars, Q!pageVars, Q!localVars, Q!outerVars
<1>0. w \in Q!QueueThreads /\ w \notin Mutators /\ w # Q!VMThread
  BY DEF Q!QueueAssumption
<1>1. Parked' = Parked /\ Synchronized' = Synchronized \ {w}
  BY <1>0 DEF Parked, Synchronized, Q!TypeOK, QueueLabelsInv, Q!WorkerPCs, Q!MutatorPCs
<1>a. w \in Synchronized /\ Cardinality(Synchronized \ {w}) = nsynchronized - 1
  <2>1. w \in Synchronized
    BY DEF Synchronized
  <2>2. IsFiniteSet(Synchronized)
    BY FiniteSubsets DEF Synchronized
  <2>3. Cardinality(Synchronized) = nsynchronized
    BY DEF QueueCountersInv
  <2> QED BY <2>1, <2>2, <2>3, FS_AddElement, FS_RemoveElement
<1>2. QueueCountersInv'
  BY <1>1, PrunedAttention, <1>a DEF QueueCountersInv
<1>3. Q!TypeOK' /\ QueueLabelsInv'
  BY <1>0, <1>2, CountersTyped, QueueCounts DEF Q!TypeOK, QueueLabelsInv, Q!WorkerPCs, Q!MutatorPCs
<1>4. QueuePagesInv'
  BY <1>0, <1>1, <1>2 DEF QueuePagesInv, Q!TypeOK, QueueLabelsInv, Q!Relocating
<1>5. QueueCoverInv'
  BY <1>0, <1>1, <1>2 DEF QueueCoverInv, Q!TypeOK, QueueLabelsInv, QueuePagesInv, Q!Relocating
<1>6. QueueLeaveInv'
  BY <1>0, <1>1, <1>2 DEF QueueLeaveInv, Q!TypeOK, QueueLabelsInv, QueuePagesInv, Parked
<1>7. QueueStopInv'
  BY <1>0, <1>1, <1>2 DEF QueueStopInv, Q!TypeOK, QueueLabelsInv, QueuePagesInv, Q!Relocating,
                          QueueCountersInv
<1>8. WaitersAreNoticed'
  BY <1>0, <1>1, <1>2, <1>a, SynchronizedAreRunning DEF WaitersAreNoticed, Q!TypeOK,
                                        QueueLabelsInv, QueuePagesInv, QueueCountersInv
<1> QED BY <1>2, <1>3, <1>4, <1>5, <1>6, <1>7, <1>8

LEMMA WokenReturnsStep ==
  ASSUME Q!QueueAssumption, QueueIInv, NEW w \in Workers, Q!WokenReturns(w)
  PROVE  QueueIInv'
<1> USE DEF QueueIInv, Q!QueueThreads, Q!WokenReturns, Q!Goto, Q!Pruned, Q!PruneFinds,
            Q!Unclaimed, Q!queueVars, Q!pageVars, Q!localVars, Q!outerVars
<1>0. w \in Q!QueueThreads /\ w \notin Mutators /\ w # Q!VMThread
  BY DEF Q!QueueAssumption
<1>1. Parked' = Parked /\ Synchronized' = Synchronized \ {w}
  BY <1>0 DEF Parked, Synchronized, Q!TypeOK, QueueLabelsInv, Q!WorkerPCs, Q!MutatorPCs
<1>a. w \in Synchronized /\ Cardinality(Synchronized \ {w}) = nsynchronized - 1
  <2>1. w \in Synchronized
    BY DEF Synchronized
  <2>2. IsFiniteSet(Synchronized)
    BY FiniteSubsets DEF Synchronized
  <2>3. Cardinality(Synchronized) = nsynchronized
    BY DEF QueueCountersInv
  <2> QED BY <2>1, <2>2, <2>3, FS_AddElement, FS_RemoveElement
<1>2. QueueCountersInv'
  BY <1>1, PrunedAttention, <1>a DEF QueueCountersInv
<1>3. Q!TypeOK' /\ QueueLabelsInv'
  BY <1>0, <1>2, CountersTyped, QueueCounts DEF Q!TypeOK, QueueLabelsInv, Q!WorkerPCs, Q!MutatorPCs
<1>4. QueuePagesInv'
  BY <1>0, <1>1, <1>2 DEF QueuePagesInv, Q!TypeOK, QueueLabelsInv, Q!Relocating
<1>5. QueueCoverInv'
  BY <1>0, <1>1, <1>2 DEF QueueCoverInv, Q!TypeOK, QueueLabelsInv, QueuePagesInv, Q!Relocating
<1>6. QueueLeaveInv'
  BY <1>0, <1>1, <1>2 DEF QueueLeaveInv, Q!TypeOK, QueueLabelsInv, QueuePagesInv, Parked
<1>7. QueueStopInv'
  BY <1>0, <1>1, <1>2 DEF QueueStopInv, Q!TypeOK, QueueLabelsInv, QueuePagesInv, Q!Relocating,
                          QueueCountersInv
<1>8. WaitersAreNoticed'
  BY <1>0, <1>1, <1>2 DEF WaitersAreNoticed, Q!TypeOK, QueueLabelsInv, QueuePagesInv,
                          QueueCountersInv
<1> QED BY <1>2, <1>3, <1>4, <1>5, <1>6, <1>7, <1>8

LEMMA WokenWaitsStep ==
  ASSUME Q!QueueAssumption, QueueIInv, NEW w \in Workers, Q!WokenWaits(w)
  PROVE  QueueIInv'
<1> USE DEF QueueIInv, Q!QueueThreads, Q!WokenWaits, Q!Goto, Q!Pruned, Q!PruneFinds,
            Q!Unclaimed, Q!queueVars, Q!pageVars, Q!localVars, Q!outerVars
<1>0. w \in Q!QueueThreads /\ w \notin Mutators /\ w # Q!VMThread
  BY DEF Q!QueueAssumption
<1>1. Parked' = Parked /\ Synchronized' = Synchronized
  BY <1>0 DEF Parked, Synchronized, Q!TypeOK, QueueLabelsInv, Q!WorkerPCs, Q!MutatorPCs
<1>2. QueueCountersInv'
  BY <1>1, PrunedAttention DEF QueueCountersInv
<1>3. Q!TypeOK' /\ QueueLabelsInv'
  BY <1>0, <1>2, CountersTyped, QueueCounts DEF Q!TypeOK, QueueLabelsInv, Q!WorkerPCs, Q!MutatorPCs
<1>4. QueuePagesInv'
  BY <1>0, <1>1, <1>2 DEF QueuePagesInv, Q!TypeOK, QueueLabelsInv, Q!Relocating
<1>5. QueueCoverInv'
  BY <1>0, <1>1, <1>2 DEF QueueCoverInv, Q!TypeOK, QueueLabelsInv, QueuePagesInv, Q!Relocating
<1>6. QueueLeaveInv'
  BY <1>0, <1>1, <1>2 DEF QueueLeaveInv, Q!TypeOK, QueueLabelsInv, QueuePagesInv, Parked
<1>7. QueueStopInv'
  BY <1>0, <1>1, <1>2 DEF QueueStopInv, Q!TypeOK, QueueLabelsInv, QueuePagesInv, Q!Relocating,
                          QueueCountersInv
<1>8. WaitersAreNoticed'
  BY <1>0, <1>1, <1>2 DEF WaitersAreNoticed, Q!TypeOK, QueueLabelsInv, QueuePagesInv,
                          QueueCountersInv
<1> QED BY <1>2, <1>3, <1>4, <1>5, <1>6, <1>7, <1>8

LEMMA ReleasePageStep ==
  ASSUME Q!QueueAssumption, QueueIInv, NEW w \in Workers, Q!ReleasePage(w)
  PROVE  QueueIInv'
<1> USE DEF QueueIInv, Q!QueueThreads, Q!ReleasePage, Q!Goto, Q!queueVars, Q!pageVars,
            Q!localVars, Q!outerVars
<1>0. w \in Q!QueueThreads /\ w \notin Mutators /\ w # Q!VMThread
  BY DEF Q!QueueAssumption
<1>1. Parked' = Parked /\ Synchronized' = Synchronized
  BY <1>0 DEF Parked, Synchronized, Q!TypeOK, QueueLabelsInv, Q!WorkerPCs, Q!MutatorPCs
<1>2. QueueCountersInv'
  BY <1>1 DEF QueueCountersInv
<1>3. Q!TypeOK' /\ QueueLabelsInv'
  BY <1>0, <1>2, CountersTyped, QueueCounts DEF Q!TypeOK, QueueLabelsInv, Q!WorkerPCs, Q!MutatorPCs,
                                   QueuePagesInv, Q!Relocating
<1>4. QueuePagesInv'
  BY <1>0, <1>1, <1>2 DEF QueuePagesInv, Q!TypeOK, QueueLabelsInv, Q!Relocating
<1>5. QueueCoverInv'
  BY <1>0, <1>1, <1>2 DEF QueueCoverInv, Q!TypeOK, QueueLabelsInv, QueuePagesInv, Q!Relocating
<1>6. QueueLeaveInv'
  BY <1>0, <1>1, <1>2 DEF QueueLeaveInv, Q!TypeOK, QueueLabelsInv, QueuePagesInv, Parked
<1>7. QueueStopInv'
  BY <1>0, <1>1, <1>2 DEF QueueStopInv, Q!TypeOK, QueueLabelsInv, QueuePagesInv, Q!Relocating,
                          QueueCountersInv
<1>8. WaitersAreNoticed'
  BY <1>0, <1>1, <1>2 DEF WaitersAreNoticed, Q!TypeOK, QueueLabelsInv, QueuePagesInv,
                          QueueCountersInv
<1> QED BY <1>2, <1>3, <1>4, <1>5, <1>6, <1>7, <1>8

LEMMA MarkDoneStep ==
  ASSUME Q!QueueAssumption, QueueIInv, NEW w \in Workers, Q!MarkDone(w)
  PROVE  QueueIInv'
<1> USE DEF QueueIInv, Q!QueueThreads, Q!MarkDone, Q!Goto, Q!Take, Q!queueVars, Q!pageVars,
            Q!localVars, Q!outerVars
<1>0. w \in Q!QueueThreads /\ w \notin Mutators /\ w # Q!VMThread
  BY DEF Q!QueueAssumption
<1>1. Parked' = Parked /\ Synchronized' = Synchronized
  BY <1>0 DEF Parked, Synchronized, Q!TypeOK, QueueLabelsInv, Q!WorkerPCs, Q!MutatorPCs
<1>2. QueueCountersInv'
  BY <1>1 DEF QueueCountersInv
<1>3. Q!TypeOK' /\ QueueLabelsInv'
  BY <1>0, <1>2, CountersTyped, QueueCounts DEF Q!TypeOK, QueueLabelsInv, Q!WorkerPCs, Q!MutatorPCs,
                                   QueuePagesInv, Q!Relocating
<1>4. QueuePagesInv'
  BY <1>0, <1>1, <1>2 DEF QueuePagesInv, Q!TypeOK, QueueLabelsInv, Q!Relocating
<1>5. QueueCoverInv'
  BY <1>0, <1>1, <1>2 DEF QueueCoverInv, Q!TypeOK, QueueLabelsInv, QueuePagesInv, Q!Relocating
<1>6. QueueLeaveInv'
  BY <1>0, <1>1, <1>2 DEF QueueLeaveInv, Q!TypeOK, QueueLabelsInv, QueuePagesInv, Parked
<1>7. QueueStopInv'
  BY <1>0, <1>1, <1>2 DEF QueueStopInv, Q!TypeOK, QueueLabelsInv, QueuePagesInv, Q!Relocating,
                          QueueCountersInv
<1>8. WaitersAreNoticed'
  BY <1>0, <1>1, <1>2 DEF WaitersAreNoticed, Q!TypeOK, QueueLabelsInv, QueuePagesInv,
                          QueueCountersInv
<1> QED BY <1>2, <1>3, <1>4, <1>5, <1>6, <1>7, <1>8

LEMMA NextForwardingStep ==
  ASSUME Q!QueueAssumption, QueueIInv, NEW w \in Workers, Q!NextForwarding(w)
  PROVE  QueueIInv'
<1> USE DEF QueueIInv, Q!QueueThreads, Q!NextForwarding, Q!Goto, Q!Take, Q!queueVars,
            Q!pageVars, Q!localVars, Q!outerVars
<1>0. w \in Q!QueueThreads /\ w \notin Mutators /\ w # Q!VMThread
  BY DEF Q!QueueAssumption
<1>1. Parked' = Parked /\ Synchronized' = Synchronized
  BY <1>0 DEF Parked, Synchronized, Q!TypeOK, QueueLabelsInv, Q!WorkerPCs, Q!MutatorPCs
<1>2. QueueCountersInv'
  BY <1>1 DEF QueueCountersInv
<1>3. Q!TypeOK' /\ QueueLabelsInv'
  BY <1>0, <1>2, CountersTyped, QueueCounts DEF Q!TypeOK, QueueLabelsInv, Q!WorkerPCs, Q!MutatorPCs
<1>4. QueuePagesInv'
  BY <1>0, <1>1, <1>2 DEF QueuePagesInv, Q!TypeOK, QueueLabelsInv, Q!Relocating
<1>5. QueueCoverInv'
  BY <1>0, <1>1, <1>2 DEF QueueCoverInv, Q!TypeOK, QueueLabelsInv, QueuePagesInv, Q!Relocating
<1>6. QueueLeaveInv'
  BY <1>0, <1>1, <1>2 DEF QueueLeaveInv, Q!TypeOK, QueueLabelsInv, QueuePagesInv, Parked
<1>7. QueueStopInv'
  BY <1>0, <1>1, <1>2 DEF QueueStopInv, Q!TypeOK, QueueLabelsInv, QueuePagesInv, Q!Relocating,
                          QueueCountersInv
<1>8. WaitersAreNoticed'
  BY <1>0, <1>1, <1>2 DEF WaitersAreNoticed, Q!TypeOK, QueueLabelsInv, QueuePagesInv,
                          QueueCountersInv
<1> QED BY <1>2, <1>3, <1>4, <1>5, <1>6, <1>7, <1>8

LEMMA NoMoreWorkStep ==
  ASSUME Q!QueueAssumption, QueueIInv, NEW w \in Workers, Q!NoMoreWork(w)
  PROVE  QueueIInv'
<1> USE DEF QueueIInv, Q!QueueThreads, Q!NoMoreWork, Q!Goto, Q!queueVars, Q!pageVars,
            Q!localVars, Q!outerVars
<1>0. w \in Q!QueueThreads /\ w \notin Mutators /\ w # Q!VMThread
  BY DEF Q!QueueAssumption
<1>1. Parked' = Parked /\ Synchronized' = Synchronized
  BY <1>0 DEF Parked, Synchronized, Q!TypeOK, QueueLabelsInv, Q!WorkerPCs, Q!MutatorPCs
<1>2. QueueCountersInv'
  BY <1>1 DEF QueueCountersInv
<1>3. Q!TypeOK' /\ QueueLabelsInv'
  BY <1>0, <1>2, CountersTyped, QueueCounts DEF Q!TypeOK, QueueLabelsInv, Q!WorkerPCs, Q!MutatorPCs
<1>4. QueuePagesInv'
  BY <1>0, <1>1, <1>2 DEF QueuePagesInv, Q!TypeOK, QueueLabelsInv, Q!Relocating
<1>5. QueueCoverInv'
  BY <1>0, <1>1, <1>2 DEF QueueCoverInv, Q!TypeOK, QueueLabelsInv, QueuePagesInv, Q!Relocating
<1>6. QueueLeaveInv'
  BY <1>0, <1>1, <1>2 DEF QueueLeaveInv, Q!TypeOK, QueueLabelsInv, QueuePagesInv, Parked
<1>7. QueueStopInv'
  BY <1>0, <1>1, <1>2 DEF QueueStopInv, Q!TypeOK, QueueLabelsInv, QueuePagesInv, Q!Relocating,
                          QueueCountersInv
<1>8. WaitersAreNoticed'
  BY <1>0, <1>1, <1>2 DEF WaitersAreNoticed, Q!TypeOK, QueueLabelsInv, QueuePagesInv,
                          QueueCountersInv
<1> QED BY <1>2, <1>3, <1>4, <1>5, <1>6, <1>7, <1>8

LEMMA ClaimVisitedStep ==
  ASSUME Q!QueueAssumption, QueueIInv, NEW w \in Workers, Q!ClaimVisited(w)
  PROVE  QueueIInv'
<1> USE DEF QueueIInv, Q!QueueThreads, Q!ClaimVisited, Q!Goto, Q!Take, Q!queueVars,
            Q!pageVars, Q!localVars, Q!outerVars
<1>0. w \in Q!QueueThreads /\ w \notin Mutators /\ w # Q!VMThread
  BY DEF Q!QueueAssumption
<1>1. Parked' = Parked /\ Synchronized' = Synchronized
  BY <1>0 DEF Parked, Synchronized, Q!TypeOK, QueueLabelsInv, Q!WorkerPCs, Q!MutatorPCs
<1>2. QueueCountersInv'
  BY <1>1 DEF QueueCountersInv
<1>3. Q!TypeOK' /\ QueueLabelsInv'
  BY <1>0, <1>2, CountersTyped, QueueCounts DEF Q!TypeOK, QueueLabelsInv, Q!WorkerPCs, Q!MutatorPCs,
                                   QueuePagesInv, Q!Relocating
<1>4. QueuePagesInv'
  BY <1>0, <1>1, <1>2 DEF QueuePagesInv, Q!TypeOK, QueueLabelsInv, Q!Relocating
<1>5. QueueCoverInv'
  BY <1>0, <1>1, <1>2 DEF QueueCoverInv, Q!TypeOK, QueueLabelsInv, QueuePagesInv, Q!Relocating
<1>6. QueueLeaveInv'
  BY <1>0, <1>1, <1>2 DEF QueueLeaveInv, Q!TypeOK, QueueLabelsInv, QueuePagesInv, Parked
<1>7. QueueStopInv'
  BY <1>0, <1>1, <1>2 DEF QueueStopInv, Q!TypeOK, QueueLabelsInv, QueuePagesInv, Q!Relocating,
                          QueueCountersInv
<1>8. WaitersAreNoticed'
  BY <1>0, <1>1, <1>2 DEF WaitersAreNoticed, Q!TypeOK, QueueLabelsInv, QueuePagesInv,
                          QueueCountersInv
<1> QED BY <1>2, <1>3, <1>4, <1>5, <1>6, <1>7, <1>8

LEMMA CheckResizeStep ==
  ASSUME Q!QueueAssumption, QueueIInv, NEW w \in Workers, Q!CheckResize(w)
  PROVE  QueueIInv'
<1> USE DEF QueueIInv, Q!QueueThreads, Q!CheckResize, Q!Goto, Q!queueVars, Q!pageVars,
            Q!localVars, Q!outerVars
<1>0. w \in Q!QueueThreads /\ w \notin Mutators /\ w # Q!VMThread
  BY DEF Q!QueueAssumption
<1>1. Parked' = Parked /\ Synchronized' = Synchronized
  BY <1>0 DEF Parked, Synchronized, Q!TypeOK, QueueLabelsInv, Q!WorkerPCs, Q!MutatorPCs
<1>2. QueueCountersInv'
  BY <1>1 DEF QueueCountersInv
<1>3. Q!TypeOK' /\ QueueLabelsInv'
  BY <1>0, <1>2, CountersTyped, QueueCounts DEF Q!TypeOK, QueueLabelsInv, Q!WorkerPCs, Q!MutatorPCs
<1>4. QueuePagesInv'
  BY <1>0, <1>1, <1>2 DEF QueuePagesInv, Q!TypeOK, QueueLabelsInv, Q!Relocating
<1>5. QueueCoverInv'
  BY <1>0, <1>1, <1>2 DEF QueueCoverInv, Q!TypeOK, QueueLabelsInv, QueuePagesInv, Q!Relocating
<1>6. QueueLeaveInv'
  BY <1>0, <1>1, <1>2 DEF QueueLeaveInv, Q!TypeOK, QueueLabelsInv, QueuePagesInv, Parked
<1>7. QueueStopInv'
  BY <1>0, <1>1, <1>2 DEF QueueStopInv, Q!TypeOK, QueueLabelsInv, QueuePagesInv, Q!Relocating,
                          QueueCountersInv
<1>8. WaitersAreNoticed'
  BY <1>0, <1>1, <1>2 DEF WaitersAreNoticed, Q!TypeOK, QueueLabelsInv, QueuePagesInv,
                          QueueCountersInv
<1> QED BY <1>2, <1>3, <1>4, <1>5, <1>6, <1>7, <1>8

LEMMA LeaveTaskStep ==
  ASSUME Q!QueueAssumption, QueueIInv, NEW w \in Workers, Q!Leave(w)
  PROVE  QueueIInv'
<1> USE DEF QueueIInv, Q!QueueThreads, Q!Leave, Q!Goto, Q!Pruned, Q!PruneFinds, Q!Unclaimed,
            Q!queueVars, Q!pageVars, Q!localVars, Q!outerVars
<1>0. w \in Q!QueueThreads /\ w \notin Mutators /\ w # Q!VMThread
  BY DEF Q!QueueAssumption
<1>1. Parked' = Parked \cup {w} /\ Synchronized' = Synchronized
  BY <1>0 DEF Parked, Synchronized, Q!TypeOK, QueueLabelsInv, Q!WorkerPCs, Q!MutatorPCs
<1>a. Cardinality(Workers \ (Parked \cup {w})) = nworkers - 1
  <2>1. Workers \ (Parked \cup {w}) = (Workers \ Parked) \ {w} /\ w \in Workers \ Parked
    BY DEF Parked
  <2> QED BY <2>1, FiniteSubsets, FS_RemoveElement DEF QueueCountersInv
<1>2. QueueCountersInv'
  BY <1>1, PrunedAttention, <1>a DEF QueueCountersInv
<1>3. Q!TypeOK' /\ QueueLabelsInv'
  BY <1>0, <1>2, CountersTyped, QueueCounts DEF Q!TypeOK, QueueLabelsInv, Q!WorkerPCs, Q!MutatorPCs
<1>4. QueuePagesInv'
  BY <1>0, <1>1, <1>2 DEF QueuePagesInv, Q!TypeOK, QueueLabelsInv, Q!Relocating
<1>5. QueueCoverInv'
  BY <1>0, <1>1, <1>2 DEF QueueCoverInv, Q!TypeOK, QueueLabelsInv, QueuePagesInv, Q!Relocating
<1>6. QueueLeaveInv'
  BY <1>0, <1>1, <1>2, NothingLeft DEF QueueLeaveInv, Q!TypeOK, QueueLabelsInv, QueuePagesInv,
                                       Parked
<1>7. QueueStopInv'
  BY <1>0, <1>1, <1>2 DEF QueueStopInv, Q!TypeOK, QueueLabelsInv, QueuePagesInv, Q!Relocating,
                          QueueCountersInv
<1>8. WaitersAreNoticed'
  BY <1>0, <1>1, <1>2 DEF WaitersAreNoticed, Q!TypeOK, QueueLabelsInv, QueuePagesInv,
                          QueueCountersInv
<1> QED BY <1>2, <1>3, <1>4, <1>5, <1>6, <1>7, <1>8

LEMMA AddReturnsStep ==
  ASSUME Q!QueueAssumption, QueueIInv, NEW m \in Mutators, Q!AddReturns(m)
  PROVE  QueueIInv'
<1> USE DEF QueueIInv, Q!QueueThreads, Q!AddReturns, Q!Goto, Q!Take, Q!queueVars, Q!pageVars,
            Q!localVars, Q!outerVars
<1>0. m \in Q!QueueThreads /\ m \notin Workers /\ m # Q!VMThread
  BY DEF Q!QueueAssumption
<1>1. Parked' = Parked /\ Synchronized' = Synchronized
  BY <1>0 DEF Parked, Synchronized, Q!TypeOK, QueueLabelsInv, Q!WorkerPCs, Q!MutatorPCs
<1>2. QueueCountersInv'
  BY <1>1 DEF QueueCountersInv
<1>3. Q!TypeOK' /\ QueueLabelsInv'
  BY <1>0, <1>2, CountersTyped, QueueCounts DEF Q!TypeOK, QueueLabelsInv, Q!WorkerPCs, Q!MutatorPCs
<1>4. QueuePagesInv'
  BY <1>0, <1>1, <1>2 DEF QueuePagesInv, Q!TypeOK, QueueLabelsInv, Q!Relocating
<1>5. QueueCoverInv'
  BY <1>0, <1>1, <1>2 DEF QueueCoverInv, Q!TypeOK, QueueLabelsInv, QueuePagesInv, Q!Relocating
<1>6. QueueLeaveInv'
  BY <1>0, <1>1, <1>2 DEF QueueLeaveInv, Q!TypeOK, QueueLabelsInv, QueuePagesInv, Parked
<1>7. QueueStopInv'
  BY <1>0, <1>1, <1>2 DEF QueueStopInv, Q!TypeOK, QueueLabelsInv, QueuePagesInv, Q!Relocating,
                          QueueCountersInv
<1>8. WaitersAreNoticed'
  BY <1>0, <1>1, <1>2 DEF WaitersAreNoticed, Q!TypeOK, QueueLabelsInv, QueuePagesInv,
                          QueueCountersInv
<1> QED BY <1>2, <1>3, <1>4, <1>5, <1>6, <1>7, <1>8

LEMMA AddWaitsStep ==
  ASSUME Q!QueueAssumption, QueueIInv, NEW m \in Mutators, Q!AddWaits(m)
  PROVE  QueueIInv'
<1> USE DEF QueueIInv, Q!QueueThreads, Q!AddWaits, Q!Goto, Q!queueVars, Q!pageVars,
            Q!localVars, Q!outerVars
<1>0. m \in Q!QueueThreads /\ m \notin Workers /\ m # Q!VMThread
  BY DEF Q!QueueAssumption
<1>1. Parked' = Parked /\ Synchronized' = Synchronized
  BY <1>0 DEF Parked, Synchronized, Q!TypeOK, QueueLabelsInv, Q!WorkerPCs, Q!MutatorPCs
<1>2. QueueCountersInv'
  BY <1>1 DEF QueueCountersInv
<1>3. Q!TypeOK' /\ QueueLabelsInv'
  BY <1>0, <1>2, CountersTyped, QueueCounts DEF Q!TypeOK, QueueLabelsInv, Q!WorkerPCs, Q!MutatorPCs,
                                   QueuePagesInv, Q!Relocating
<1>4. QueuePagesInv'
  BY <1>0, <1>1, <1>2 DEF QueuePagesInv, Q!TypeOK, QueueLabelsInv, Q!Relocating
<1>5. QueueCoverInv'
  BY <1>0, <1>1, <1>2 DEF QueueCoverInv, Q!TypeOK, QueueLabelsInv, QueuePagesInv, Q!Relocating
<1>6. QueueLeaveInv'
  BY <1>0, <1>1, <1>2, NothingLeft DEF QueueLeaveInv, Q!TypeOK, QueueLabelsInv, QueuePagesInv,
                                       Parked
<1>7. QueueStopInv'
  BY <1>0, <1>1, <1>2 DEF QueueStopInv, Q!TypeOK, QueueLabelsInv, QueuePagesInv, Q!Relocating,
                          QueueCountersInv
<1>8. WaitersAreNoticed'
  BY <1>0, <1>1, <1>2 DEF WaitersAreNoticed, Q!TypeOK, QueueLabelsInv, QueuePagesInv,
                          QueueCountersInv
<1> QED BY <1>2, <1>3, <1>4, <1>5, <1>6, <1>7, <1>8

LEMMA WaitReturnsStep ==
  ASSUME Q!QueueAssumption, QueueIInv, NEW m \in Mutators, Q!WaitReturns(m)
  PROVE  QueueIInv'
<1> USE DEF QueueIInv, Q!QueueThreads, Q!WaitReturns, Q!Goto, Q!Take, Q!queueVars, Q!pageVars,
            Q!localVars, Q!outerVars
<1>0. m \in Q!QueueThreads /\ m \notin Workers /\ m # Q!VMThread
  BY DEF Q!QueueAssumption
<1>1. Parked' = Parked /\ Synchronized' = Synchronized
  BY <1>0 DEF Parked, Synchronized, Q!TypeOK, QueueLabelsInv, Q!WorkerPCs, Q!MutatorPCs
<1>2. QueueCountersInv'
  BY <1>1 DEF QueueCountersInv
<1>3. Q!TypeOK' /\ QueueLabelsInv'
  BY <1>0, <1>2, CountersTyped, QueueCounts DEF Q!TypeOK, QueueLabelsInv, Q!WorkerPCs, Q!MutatorPCs
<1>4. QueuePagesInv'
  BY <1>0, <1>1, <1>2 DEF QueuePagesInv, Q!TypeOK, QueueLabelsInv, Q!Relocating
<1>5. QueueCoverInv'
  BY <1>0, <1>1, <1>2 DEF QueueCoverInv, Q!TypeOK, QueueLabelsInv, QueuePagesInv, Q!Relocating
<1>6. QueueLeaveInv'
  BY <1>0, <1>1, <1>2 DEF QueueLeaveInv, Q!TypeOK, QueueLabelsInv, QueuePagesInv, Parked
<1>7. QueueStopInv'
  BY <1>0, <1>1, <1>2 DEF QueueStopInv, Q!TypeOK, QueueLabelsInv, QueuePagesInv, Q!Relocating,
                          QueueCountersInv
<1>8. WaitersAreNoticed'
  BY <1>0, <1>1, <1>2 DEF WaitersAreNoticed, Q!TypeOK, QueueLabelsInv, QueuePagesInv,
                          QueueCountersInv
<1> QED BY <1>2, <1>3, <1>4, <1>5, <1>6, <1>7, <1>8

LEMMA WaitAgainStep ==
  ASSUME Q!QueueAssumption, QueueIInv, NEW m \in Mutators, Q!WaitAgain(m)
  PROVE  QueueIInv'
<1> USE DEF QueueIInv, Q!QueueThreads, Q!WaitAgain, Q!Goto, Q!queueVars, Q!pageVars,
            Q!localVars, Q!outerVars
<1>0. m \in Q!QueueThreads /\ m \notin Workers /\ m # Q!VMThread
  BY DEF Q!QueueAssumption
<1>1. Parked' = Parked /\ Synchronized' = Synchronized
  BY <1>0 DEF Parked, Synchronized, Q!TypeOK, QueueLabelsInv, Q!WorkerPCs, Q!MutatorPCs
<1>2. QueueCountersInv'
  BY <1>1 DEF QueueCountersInv
<1>3. Q!TypeOK' /\ QueueLabelsInv'
  BY <1>0, <1>2, CountersTyped, QueueCounts DEF Q!TypeOK, QueueLabelsInv, Q!WorkerPCs, Q!MutatorPCs
<1>4. QueuePagesInv'
  BY <1>0, <1>1, <1>2 DEF QueuePagesInv, Q!TypeOK, QueueLabelsInv, Q!Relocating
<1>5. QueueCoverInv'
  BY <1>0, <1>1, <1>2 DEF QueueCoverInv, Q!TypeOK, QueueLabelsInv, QueuePagesInv, Q!Relocating
<1>6. QueueLeaveInv'
  BY <1>0, <1>1, <1>2 DEF QueueLeaveInv, Q!TypeOK, QueueLabelsInv, QueuePagesInv, Parked
<1>7. QueueStopInv'
  BY <1>0, <1>1, <1>2 DEF QueueStopInv, Q!TypeOK, QueueLabelsInv, QueuePagesInv, Q!Relocating,
                          QueueCountersInv
<1>8. WaitersAreNoticed'
  BY <1>0, <1>1, <1>2 DEF WaitersAreNoticed, Q!TypeOK, QueueLabelsInv, QueuePagesInv,
                          QueueCountersInv
<1> QED BY <1>2, <1>3, <1>4, <1>5, <1>6, <1>7, <1>8

-----------------------------------------------------------------------------
(* The threads around the task.                                            *)

LEMMA RequestResizeStep ==
  ASSUME Q!QueueAssumption, QueueIInv, NEW n \in Resizes, Q!RequestResize(n)
  PROVE  QueueIInv'
<1> USE DEF QueueIInv, Q!RequestResize, Q!queueVars, Q!pageVars, Q!localVars
<1>1. n \in 1 .. Cardinality(Workers)
  BY QueueCounts DEF Q!QueueAssumption
<1>2. QueueCountersInv'
  BY DEF QueueCountersInv, Parked, Synchronized
<1>3. Q!TypeOK' /\ QueueLabelsInv' /\ QueuePagesInv' /\ QueueCoverInv'
  BY <1>1, FiniteSubsets, QueueCounts
     DEF Q!TypeOK, QueueLabelsInv, QueuePagesInv, QueueCoverInv, Q!Relocating
<1>4. QueueLeaveInv' /\ QueueStopInv' /\ WaitersAreNoticed'
  BY <1>1, FiniteSubsets DEF QueueLeaveInv, QueueStopInv, WaitersAreNoticed, Parked,
                             Q!Relocating, Q!TypeOK
<1> QED BY <1>2, <1>3, <1>4

LEMMA RestartStep ==
  ASSUME Q!QueueAssumption, QueueIInv, Q!Restart
  PROVE  QueueIInv'
<1> USE DEF QueueIInv, Q!QueueThreads, Q!pageVars, Q!localVars
<1>1. PICK W \in SUBSET Workers :
        /\ Cardinality(W) = resizeRequest
        /\ queuePc' = [t \in Q!QueueThreads |-> IF t \in W THEN "poll" ELSE queuePc[t]]
  BY QueueCounts DEF Q!Restart
<1>2. W # {} /\ Synchronized = {} /\ \A w \in Workers : queuePc[w] = "parked"
  BY <1>1, FiniteSubsets DEF Q!Restart, Q!AllParked, Synchronized
<1>3. Workers \ Parked' = W /\ Synchronized' = {}
  BY <1>1, <1>2 DEF Parked, Synchronized
<1>4. QueueCountersInv'
  BY <1>1, <1>2, <1>3, FiniteSubsets DEF QueueCountersInv, Q!Restart
<1>5. Q!TypeOK' /\ QueueLabelsInv'
  <2>1. queuePc' \in [Q!QueueThreads -> Q!WorkerPCs \cup Q!MutatorPCs] /\ QueueLabelsInv'
    BY <1>1 DEF Q!TypeOK, QueueLabelsInv, Q!WorkerPCs, Q!QueueAssumption
  <2>2. resizeRequest \in 1 .. Cardinality(Workers)
    BY FiniteSubsets, QueueCounts DEF Q!TypeOK, Q!Restart
  <2> QED BY <2>1, <2>2, FiniteSubsets, QueueCounts DEF Q!TypeOK, Q!Restart
<1>6. \A m \in Mutators : queuePc'[m] = queuePc[m]
  BY <1>1 DEF Q!QueueAssumption
<1>7. QueuePagesInv' /\ QueueCoverInv'
  BY <1>1, <1>2, <1>6 DEF QueuePagesInv, QueueCoverInv, Q!Relocating, Q!Restart
<1>8. QueueLeaveInv' /\ QueueStopInv'
  BY <1>1, <1>2, <1>3, <1>6 DEF QueueLeaveInv, QueueStopInv, Q!Restart, Q!AllParked, Parked,
                                Q!Relocating
<1>9. WaitersAreNoticed'
  BY <1>1, <1>2, <1>4, <1>3, <1>6, FS_EmptySet, FiniteSubsets
     DEF WaitersAreNoticed, Q!Restart, QueueCountersInv, Q!TypeOK, Q!QueueAssumption
<1> QED BY <1>4, <1>5, <1>7, <1>8, <1>9

LEMMA DeactivateStep ==
  ASSUME Q!QueueAssumption, QueueIInv, Q!Deactivate
  PROVE  QueueIInv'
<1> USE DEF QueueIInv, Q!Deactivate, Q!queueVars, Q!pageVars, Q!localVars
<1>1. Q!TypeOK' /\ QueueLabelsInv'
  BY DEF Q!TypeOK, QueueLabelsInv
<1>3. QueueCountersInv' /\ QueuePagesInv' /\ QueueCoverInv'
  BY DEF QueueCountersInv, QueuePagesInv, QueueCoverInv, Parked, Synchronized, Q!Relocating
<1>2. QueueLeaveInv' /\ QueueStopInv' /\ WaitersAreNoticed'
  BY DEF QueueLeaveInv, QueueStopInv, WaitersAreNoticed, Q!AllParked, Parked, Q!Relocating
<1> QED BY <1>1, <1>2, <1>3

LEMMA StallStep ==
  ASSUME Q!QueueAssumption, QueueIInv, NEW m \in Mutators, NEW f \in Forwardings, Q!Stall(m, f)
  PROVE  QueueIInv'
<1> USE DEF QueueIInv, Q!QueueThreads, Q!Stall, Q!Take, Q!Goto, Q!queueVars, Q!pageVars,
            Q!outerVars
<1>0. m \in Q!QueueThreads /\ m \notin Workers /\ m # Q!VMThread
  BY DEF Q!QueueAssumption
<1>1. Parked' = Parked /\ Synchronized' = Synchronized
  BY <1>0 DEF Parked, Synchronized, Q!TypeOK
<1>2. QueueCountersInv' /\ Q!TypeOK' /\ QueueLabelsInv'
  BY <1>0, <1>1 DEF QueueCountersInv, Q!TypeOK, QueueLabelsInv, Q!WorkerPCs, Q!MutatorPCs
<1>3. QueuePagesInv' /\ QueueCoverInv'
  BY <1>0 DEF QueuePagesInv, QueueCoverInv, Q!Relocating, Q!TypeOK, QueueLabelsInv
<1>4. QueueLeaveInv' /\ QueueStopInv' /\ WaitersAreNoticed'
  BY <1>0, <1>1 DEF QueueLeaveInv, QueueStopInv, WaitersAreNoticed, Parked, Q!Relocating,
                    Q!TypeOK, QueueLabelsInv
<1> QED BY <1>2, <1>3, <1>4

\* The VM thread stops when all workers in the task are synchronized.
LEMMA SynchronizeStep ==
  ASSUME Q!QueueAssumption, QueueIInv, Q!SynchronizeBegin \/ Q!SynchronizeWoken
  PROVE  QueueIInv'
<1> USE DEF QueueIInv, Q!QueueThreads, Q!SynchronizeBegin, Q!SynchronizeWoken, Q!queueVars,
            Q!pageVars, Q!localVars
<1>1. Parked' = Parked /\ Synchronized' = Synchronized
  BY DEF Parked, Synchronized
<1>2. QueueCountersInv'
  BY <1>1 DEF QueueCountersInv
<1>3. Q!TypeOK' /\ QueueLabelsInv'
  <2>1. needsAttention' \in 0 .. 2
    BY <1>2 DEF QueueCountersInv, Q!TypeOK
  <2> QED BY <2>1 DEF Q!TypeOK, QueueLabelsInv
<1>6. QueuePagesInv' /\ QueueCoverInv' /\ QueueLeaveInv'
  BY <1>1 DEF QueuePagesInv, QueueCoverInv, QueueLeaveInv, Q!Relocating
<1>4. QueueStopInv'
  BY SynchronizedAreRunning DEF QueueStopInv, Synchronized, Parked, Q!Relocating
<1>5. WaitersAreNoticed'
  BY DEF WaitersAreNoticed, Q!TypeOK, QueueCountersInv, Q!QueueAssumption
<1> QED BY <1>2, <1>3, <1>4, <1>5, <1>6

LEMMA SafepointStep ==
  ASSUME Q!QueueAssumption, QueueIInv, Q!Safepoint \/ Q!Desynchronize
  PROVE  QueueIInv'
<1> USE DEF QueueIInv, Q!QueueThreads, Q!Safepoint, Q!Desynchronize, Q!queueVars, Q!pageVars,
            Q!localVars
<1>1. Parked' = Parked /\ Synchronized' = Synchronized
  BY DEF Parked, Synchronized
<1>2. QueueCountersInv'
  BY <1>1 DEF QueueCountersInv
<1>3. Q!TypeOK' /\ QueueLabelsInv'
  <2>1. needsAttention' \in 0 .. 2
    BY <1>2 DEF QueueCountersInv, Q!TypeOK
  <2> QED BY <2>1 DEF Q!TypeOK, QueueLabelsInv
<1>6. QueuePagesInv' /\ QueueCoverInv' /\ QueueLeaveInv'
  BY <1>1 DEF QueuePagesInv, QueueCoverInv, QueueLeaveInv, Q!Relocating
<1>4. QueueStopInv' /\ WaitersAreNoticed'
  BY DEF QueueStopInv, WaitersAreNoticed, Q!Relocating
<1> QED BY <1>2, <1>3, <1>4, <1>6

LEMMA WakeupStep ==
  ASSUME Q!QueueAssumption, QueueIInv, NEW t \in Q!QueueThreads \cup {Q!VMThread}, Q!SpuriousWakeup(t)
  PROVE  QueueIInv'
BY DEF QueueIInv, Q!SpuriousWakeup, Q!pageVars, Q!localVars, Q!outerVars, QueueCountersInv,
       Q!TypeOK, QueueLabelsInv, QueuePagesInv,
       QueueCoverInv, QueueLeaveInv, QueueStopInv, WaitersAreNoticed, Parked, Synchronized, Q!Relocating

-----------------------------------------------------------------------------
LEMMA QueueInitInv == Q!QueueAssumption /\ Q!Init => QueueIInv
<1> SUFFICES ASSUME Q!QueueAssumption, Q!Init PROVE QueueIInv
  OBVIOUS
<1> USE DEF Q!Init, Q!QueueThreads
<1>0. Workers # {} /\ Workers \cap Mutators = {}
  BY DEF Q!QueueAssumption
<1>1. Parked = {} /\ Synchronized = {}
  BY DEF Parked, Synchronized
<1>2. QueueCountersInv
  BY <1>1, FS_EmptySet, QueueCounts DEF QueueCountersInv
<1>3. Q!TypeOK /\ QueueLabelsInv
  BY <1>0, FiniteSubsets, QueueCounts DEF Q!TypeOK, QueueLabelsInv, Q!WorkerPCs, Q!MutatorPCs
<1>4. QueuePagesInv /\ QueueCoverInv /\ QueueLeaveInv /\ QueueStopInv /\ WaitersAreNoticed
  BY <1>0, <1>1 DEF QueuePagesInv, QueueCoverInv, QueueLeaveInv, QueueStopInv,
                    WaitersAreNoticed, Q!Relocating
<1> QED BY <1>2, <1>3, <1>4 DEF QueueIInv

LEMMA QueueStepInv == Q!QueueAssumption /\ QueueIInv /\ [Q!Next]_(Q!vars) => QueueIInv'
<1> SUFFICES ASSUME Q!QueueAssumption, QueueIInv, [Q!Next]_(Q!vars) PROVE QueueIInv'
  OBVIOUS
<1>1. ASSUME NEW w \in Workers, Q!Worker(w) PROVE QueueIInv'
  BY <1>1, PollFastStep, PollClaimsStep, PollReturnsStep, PollSynchronizesStep, WokenClaimsStep,
     WokenReturnsStep, WokenWaitsStep, ReleasePageStep, MarkDoneStep, NextForwardingStep,
     NoMoreWorkStep, ClaimVisitedStep, CheckResizeStep, LeaveTaskStep DEF Q!Worker
<1>2. ASSUME NEW m \in Mutators, Q!Mutator(m) PROVE QueueIInv'
  BY <1>2, AddReturnsStep, AddWaitsStep, WaitReturnsStep, WaitAgainStep DEF Q!Mutator
<1>3. ASSUME UNCHANGED Q!vars PROVE QueueIInv'
  BY <1>3 DEF Q!vars, Q!queueVars, Q!pageVars, Q!localVars, Q!outerVars, QueueIInv,
              QueueCountersInv, Q!TypeOK, QueueLabelsInv,
              QueuePagesInv, QueueCoverInv, QueueLeaveInv, QueueStopInv, WaitersAreNoticed, Parked, Synchronized,
              Q!Relocating
<1> QED BY <1>1, <1>2, <1>3, StallStep, RequestResizeStep, RestartStep, DeactivateStep,
           SynchronizeStep, SafepointStep, WakeupStep DEF Q!Next

\* What it says of the safepoint and of the end of the task.
LEMMA InvQuiescent == QueueIInv => Q!SafepointQuiescent
BY DEF QueueIInv, QueueStopInv, Q!SafepointQuiescent, Q!Relocating

LEMMA InvCompletes == Q!QueueAssumption /\ QueueIInv => Q!TaskCompletes
<1> SUFFICES ASSUME Q!QueueAssumption, QueueIInv, ~isActive
             PROVE  nworkers = 0 /\ queue = {} /\ done = Forwardings
  BY DEF Q!TaskCompletes
<1>1. Parked = Workers /\ resizeRequest = 0 /\ queue = {} /\ unvisited = {}
  BY DEF QueueIInv, QueueLeaveInv, Parked
<1>2. nworkers = 0
  BY <1>1, FS_EmptySet DEF QueueIInv, QueueCountersInv
<1>3. Forwardings \subseteq done
  BY <1>1, NothingLeft DEF QueueIInv, Parked
<1> QED BY <1>1, <1>2, <1>3 DEF QueueIInv, Q!TypeOK

LEMMA QueueInductive == Q!QueueAssumption => (Q!Spec => []QueueIInv)
<1> SUFFICES ASSUME Q!QueueAssumption PROVE Q!Spec => []QueueIInv
  OBVIOUS
<1>1. Q!Init => QueueIInv
  BY QueueInitInv
<1>2. QueueIInv /\ [Q!Next]_(Q!vars) => QueueIInv'
  BY QueueStepInv
<1> QED BY <1>1, <1>2, PTL DEF Q!Spec

\* Type correctness, in particular of the three counters.
THEOREM QueueTypeCorrect == Q!QueueAssumption => (Q!Spec => []Q!TypeOK)
<1> SUFFICES ASSUME Q!QueueAssumption PROVE Q!Spec => []Q!TypeOK
  OBVIOUS
<1>1. QueueIInv => Q!TypeOK
  BY DEF QueueIInv
<1> QED BY <1>1, QueueInductive, PTL

\* _nworkers, _nsynchronized and _needs_attention say what they are for, so
\* that synchronize_poll may look at _needs_attention without the lock.
THEOREM QueueCountersCorrect == Q!QueueAssumption => (Q!Spec => []QueueCountersInv)
<1> SUFFICES ASSUME Q!QueueAssumption PROVE Q!Spec => []QueueCountersInv
  OBVIOUS
<1>1. QueueIInv => QueueCountersInv
  BY DEF QueueIInv
<1> QED BY <1>1, QueueInductive, PTL

\* No worker relocates at a safepoint (the comment at zRelocate.cpp:1201-1207).
THEOREM QueueQuiescent == Q!QueueAssumption => (Q!Spec => []Q!SafepointQuiescent)
<1> SUFFICES ASSUME Q!QueueAssumption PROVE Q!Spec => []Q!SafepointQuiescent
  OBVIOUS
<1> QED BY QueueInductive, InvQuiescent, PTL

\* The task ends with every page relocated and nobody in the queue (clear).
THEOREM QueueCompletes == Q!QueueAssumption => (Q!Spec => []Q!TaskCompletes)
<1> SUFFICES ASSUME Q!QueueAssumption PROVE Q!Spec => []Q!TaskCompletes
  OBVIOUS
<1>1. QueueIInv => Q!TaskCompletes
  BY InvCompletes
<1> QED BY <1>1, QueueInductive, PTL

\* No wait misses its notification (synchronize, add_and_wait).
THEOREM NobodyWaitsUnnoticed == Q!QueueAssumption => (Q!Spec => []WaitersAreNoticed)
<1> SUFFICES ASSUME Q!QueueAssumption PROVE Q!Spec => []WaitersAreNoticed
  OBVIOUS
<1>1. QueueIInv => WaitersAreNoticed
  BY DEF QueueIInv
<1> QED BY <1>1, QueueInductive, PTL

-----------------------------------------------------------------------------
(* JNI critical regions, for any number of Java threads and drivers: what  *)
(* the count means, that a driver that has blocked the critical regions is *)
(* alone, and that no wake-up is lost although the count is changed        *)
(* without the lock.                                                       *)

JavaPCs == {"idle", "enter_inner", "enter_wait", "enter_cas", "entered",
            "exit_inner", "exit_cas", "exit_blocked", "notify"}
DriverPCs == {"idle", "block", "block_others", "block_cas", "block_wait", "blocked"}

CriticalTypeOK ==
  /\ _count \in Int
  /\ criticalWaiting \subseteq J!Entrants
  /\ seen \in [J!Entrants -> Int]
  /\ depth \in [JavaThreads -> Nat]
  /\ criticalPc \in [J!Entrants -> JavaPCs \cup DriverPCs]
  /\ \A t \in JavaThreads : criticalPc[t] \in JavaPCs
  /\ \A d \in Drivers : criticalPc[d] \in DriverPCs

Insiders == {t \in JavaThreads : J!Inside(t)}
Blocks(d) == criticalPc[d] \in {"block_wait", "blocked"}

\* The count is the number of threads inside, complemented while a driver
\* blocks.
CriticalCountInv ==
  IF \E d \in Drivers : Blocks(d)
    THEN _count = -(Cardinality(Insiders) + 1)
    ELSE _count = Cardinality(Insiders)

CriticalBlockInv ==
  /\ \A d, e \in Drivers : Blocks(d) /\ Blocks(e) => d = e
  /\ \A d \in Drivers : criticalPc[d] = "blocked" => _count = -1

\* A thread that is about to swap the count has seen it on its side of zero.
CriticalSeenInv ==
  /\ \A t \in JavaThreads :
       /\ criticalPc[t] \in {"enter_cas", "exit_cas"} => seen[t] >= 0
       /\ criticalPc[t] = "exit_blocked" => seen[t] < 0
  /\ \A d \in Drivers : criticalPc[d] = "block_cas" => seen[d] >= 0

CriticalDepthInv == \A t \in JavaThreads : criticalPc[t] # "idle" => depth[t] = 0

CriticalIInv ==
  /\ CriticalTypeOK /\ CriticalCountInv /\ CriticalBlockInv
  /\ CriticalSeenInv /\ CriticalDepthInv /\ J!NoLostWakeup

-----------------------------------------------------------------------------
LEMMA InsidersFinite ==
  ASSUME J!CriticalAssumption
  PROVE  IsFiniteSet(Insiders) /\ Cardinality(Insiders) \in Nat
<1>1. Insiders \subseteq JavaThreads
  BY DEF Insiders
<1>2. IsFiniteSet(JavaThreads)
  BY DEF J!CriticalAssumption, J!IsFiniteSet, IsFiniteSet
<1> QED BY <1>1, <1>2, FS_Subset, FS_CardinalityType

\* One thread more, or one less.
LEMMA InsiderEnters ==
  ASSUME J!CriticalAssumption, NEW t \in JavaThreads, ~J!Inside(t), Insiders' = Insiders \cup {t}
  PROVE  Cardinality(Insiders') = Cardinality(Insiders) + 1
BY InsidersFinite, FS_AddElement DEF Insiders

LEMMA InsiderLeaves ==
  ASSUME J!CriticalAssumption, NEW t \in JavaThreads, J!Inside(t), Insiders' = Insiders \ {t}
  PROVE  Cardinality(Insiders') = Cardinality(Insiders) - 1
BY InsidersFinite, FS_RemoveElement DEF Insiders

LEMMA CriticalInitInv == J!CriticalAssumption /\ J!Init => CriticalIInv
<1> SUFFICES ASSUME J!CriticalAssumption, J!Init PROVE CriticalIInv
  OBVIOUS
<1>1. Insiders = {}
  BY DEF J!Init, Insiders, J!Inside, J!Entrants
<1>2. Cardinality(Insiders) = 0
  BY <1>1, FS_EmptySet
<1>3. CriticalTypeOK
  BY DEF J!Init, CriticalTypeOK, J!Entrants, JavaPCs, DriverPCs
<1>4. CriticalCountInv /\ CriticalBlockInv
  BY <1>2 DEF J!Init, CriticalCountInv, CriticalBlockInv, Blocks, J!Entrants
<1>5. CriticalSeenInv /\ CriticalDepthInv /\ J!NoLostWakeup
  BY DEF J!Init, CriticalSeenInv, CriticalDepthInv, J!NoLostWakeup, J!Entrants
<1> QED BY <1>3, <1>4, <1>5 DEF CriticalIInv

-----------------------------------------------------------------------------
\* A step that moves thread t from one label to another, and neither into nor
\* out of a critical region, nor a driver into or out of blocking.
LEMMA CountKept ==
  ASSUME J!CriticalAssumption, CriticalIInv, UNCHANGED _count,
         \A t \in JavaThreads : J!Inside(t)' <=> J!Inside(t),
         \A d \in Drivers : Blocks(d)' <=> Blocks(d)
  PROVE  CriticalCountInv'
<1>1. Insiders' = Insiders
  BY DEF Insiders
<1> QED BY <1>1 DEF CriticalIInv, CriticalCountInv

\* Java threads.
LEMMA JavaThreadStep ==
  ASSUME J!CriticalAssumption, CriticalIInv, NEW t \in JavaThreads, J!JavaThread(t)
  PROVE  CriticalIInv'
<1> USE DEF CriticalIInv, J!CriticalAssumption, J!Entrants
<1>0. t \notin Drivers /\ t \in J!Entrants /\ IsFiniteSet(Insiders) /\ Cardinality(Insiders) \in Nat
  BY InsidersFinite
<1>1. CASE J!EnterNested(t)
  <2>1. \A u \in JavaThreads : J!Inside(u)' <=> J!Inside(u)
    BY <1>1 DEF J!EnterNested, J!Inside, CriticalTypeOK
  <2>2. CriticalCountInv'
    BY <1>1, <2>1, CountKept DEF J!EnterNested, Blocks
  <2>3. CriticalTypeOK' /\ CriticalBlockInv' /\ CriticalSeenInv' /\ CriticalDepthInv' /\ J!NoLostWakeup'
    BY <1>1 DEF J!EnterNested, CriticalTypeOK, CriticalBlockInv, CriticalSeenInv,
                CriticalDepthInv, J!NoLostWakeup, Blocks
  <2> QED BY <2>2, <2>3
<1>2. CASE J!Enter(t)
  <2>1. \A u \in JavaThreads : J!Inside(u)' <=> J!Inside(u)
    BY <1>2 DEF J!Enter, J!Goto, J!Inside, CriticalTypeOK
  <2>2. CriticalCountInv'
    BY <1>2, <2>1, <1>0, CountKept DEF J!Enter, J!Goto, Blocks, CriticalTypeOK
  <2>3. CriticalTypeOK' /\ CriticalBlockInv' /\ CriticalSeenInv' /\ CriticalDepthInv'
    BY <1>2, <1>0 DEF J!Enter, J!Goto, CriticalTypeOK, CriticalBlockInv, CriticalSeenInv,
                      CriticalDepthInv, Blocks, JavaPCs
  <2>4. J!NoLostWakeup'
    BY <1>2, <1>0 DEF J!Enter, J!Goto, CriticalTypeOK, J!NoLostWakeup
  <2> QED BY <2>2, <2>3, <2>4
<1>3. CASE J!EnterLoad(t) \/ J!ExitLoad(t)
  <2>1. \A u \in JavaThreads : J!Inside(u)' <=> J!Inside(u)
    BY <1>3, <1>0 DEF J!EnterLoad, J!ExitLoad, J!LoadCount, J!Goto, J!Inside, CriticalTypeOK
  <2>2. CriticalCountInv'
    BY <1>3, <2>1, <1>0, CountKept DEF J!EnterLoad, J!ExitLoad, J!LoadCount, J!Goto, Blocks,
                                       CriticalTypeOK
  <2>3. CriticalTypeOK' /\ CriticalBlockInv' /\ CriticalDepthInv'
    BY <1>3, <1>0 DEF J!EnterLoad, J!ExitLoad, J!LoadCount, J!Goto, CriticalTypeOK,
                      CriticalBlockInv, CriticalDepthInv, Blocks, JavaPCs
  <2>4. CriticalSeenInv'
    BY <1>3, <1>0 DEF J!EnterLoad, J!ExitLoad, J!LoadCount, J!Goto, CriticalTypeOK,
                      CriticalSeenInv
  <2>5. J!NoLostWakeup'
    BY <1>3, <1>0 DEF J!EnterLoad, J!ExitLoad, J!LoadCount, J!Goto, CriticalTypeOK,
                      J!NoLostWakeup
  <2> QED BY <2>2, <2>3, <2>4, <2>5
<1>4. CASE J!EnterWait(t)
  <2>1. \A u \in JavaThreads : J!Inside(u)' <=> J!Inside(u)
    BY <1>4, <1>0 DEF J!EnterWait, J!WaitWhile, J!Goto, J!Inside, CriticalTypeOK
  <2>2. CriticalCountInv'
    BY <1>4, <2>1, <1>0, CountKept DEF J!EnterWait, J!WaitWhile, J!Goto, Blocks, CriticalTypeOK
  <2>3. CriticalTypeOK' /\ CriticalBlockInv' /\ CriticalSeenInv' /\ CriticalDepthInv'
    BY <1>4, <1>0 DEF J!EnterWait, J!WaitWhile, J!Goto, CriticalTypeOK, CriticalBlockInv,
                      CriticalSeenInv, CriticalDepthInv, Blocks, JavaPCs
  <2>4. J!NoLostWakeup'
    BY <1>4, <1>0 DEF J!EnterWait, J!WaitWhile, J!Goto, CriticalTypeOK, J!NoLostWakeup
  <2> QED BY <2>2, <2>3, <2>4
<1>5. CASE J!EnterCas(t)
  <2>1. CASE _count # seen[t]
    <3>1. \A u \in JavaThreads : J!Inside(u)' <=> J!Inside(u)
      BY <1>5, <2>1, <1>0 DEF J!EnterCas, J!CasCount, J!Goto, J!Inside, CriticalTypeOK
    <3>2. CriticalCountInv'
      BY <1>5, <2>1, <3>1, <1>0, CountKept DEF J!EnterCas, J!CasCount, J!Goto, Blocks,
                                        CriticalTypeOK
    <3>3. CriticalTypeOK' /\ CriticalBlockInv' /\ CriticalSeenInv' /\ CriticalDepthInv'
      BY <1>5, <2>1, <1>0 DEF J!EnterCas, J!CasCount, J!Goto, CriticalTypeOK,
                              CriticalBlockInv, CriticalSeenInv, CriticalDepthInv, Blocks,
                              JavaPCs
    <3>4. J!NoLostWakeup'
      BY <1>5, <2>1, <1>0 DEF J!EnterCas, J!CasCount, J!Goto, CriticalTypeOK, J!NoLostWakeup
    <3> QED BY <3>2, <3>3, <3>4
  <2>2. CASE _count = seen[t]
    <3>1. _count >= 0 /\ \A d \in Drivers : ~Blocks(d)
      BY <1>5, <2>2, <1>0 DEF J!EnterCas, J!CasCount, CriticalSeenInv, CriticalCountInv,
                              CriticalTypeOK
    <3>2. ~J!Inside(t) /\ Insiders' = Insiders \cup {t}
      BY <1>5, <2>2, <1>0 DEF J!EnterCas, J!CasCount, J!Goto, Insiders, J!Inside,
                              CriticalTypeOK, CriticalDepthInv
    <3>3. CriticalCountInv'
      BY <1>5, <2>2, <3>1, <3>2, <1>0, InsiderEnters
         DEF J!EnterCas, J!CasCount, J!Goto, CriticalCountInv, Blocks, CriticalTypeOK
    <3>4. CriticalTypeOK' /\ CriticalBlockInv' /\ CriticalSeenInv' /\ CriticalDepthInv'
      BY <1>5, <2>2, <3>1, <1>0
         DEF J!EnterCas, J!CasCount, J!Goto, CriticalTypeOK, CriticalBlockInv,
             CriticalSeenInv, CriticalDepthInv, Blocks, JavaPCs
    <3>5. criticalWaiting = {}
      BY <3>1, <1>0 DEF J!NoLostWakeup, CriticalTypeOK, Blocks, JavaPCs
    <3>6. J!NoLostWakeup'
      BY <1>5, <3>5 DEF J!EnterCas, J!CasCount, J!NoLostWakeup
    <3> QED BY <3>3, <3>4, <3>6
  <2> QED BY <2>1, <2>2
<1>6. CASE J!Entered(t)
  <2>1. \A u \in JavaThreads : J!Inside(u)' <=> J!Inside(u)
    BY <1>6, <1>0 DEF J!Entered, J!Goto, J!Inside, CriticalTypeOK
  <2>2. CriticalCountInv'
    BY <1>6, <2>1, <1>0, CountKept DEF J!Entered, J!Goto, Blocks, CriticalTypeOK
  <2>3. CriticalTypeOK' /\ CriticalBlockInv' /\ CriticalSeenInv' /\ CriticalDepthInv'
    BY <1>6, <1>0 DEF J!Entered, J!Goto, CriticalTypeOK, CriticalBlockInv, CriticalSeenInv,
                      CriticalDepthInv, Blocks, JavaPCs
  <2>4. J!NoLostWakeup'
    BY <1>6, <1>0 DEF J!Entered, J!Goto, CriticalTypeOK, J!NoLostWakeup
  <2> QED BY <2>2, <2>3, <2>4
<1>7. CASE J!Exit(t)
  <2>1. \A u \in JavaThreads : J!Inside(u)' <=> J!Inside(u)
    BY <1>7, <1>0 DEF J!Exit, J!Goto, J!Inside, CriticalTypeOK
  <2>2. CriticalCountInv'
    BY <1>7, <2>1, <1>0, CountKept DEF J!Exit, J!Goto, Blocks, CriticalTypeOK
  <2>3. CriticalTypeOK' /\ CriticalBlockInv' /\ CriticalSeenInv' /\ CriticalDepthInv'
    BY <1>7, <1>0 DEF J!Exit, J!Goto, CriticalTypeOK, CriticalBlockInv, CriticalSeenInv,
                      CriticalDepthInv, Blocks, JavaPCs
  <2>4. J!NoLostWakeup'
    BY <1>7, <1>0 DEF J!Exit, J!Goto, CriticalTypeOK, J!NoLostWakeup
  <2> QED BY <2>2, <2>3, <2>4
<1>8. CASE J!ExitCas(t)
  <2>1. CASE _count # seen[t]
    <3>1. \A u \in JavaThreads : J!Inside(u)' <=> J!Inside(u)
      BY <1>8, <2>1, <1>0 DEF J!ExitCas, J!CasCount, J!Goto, J!Inside, CriticalTypeOK
    <3>2. CriticalCountInv'
      BY <1>8, <2>1, <3>1, <1>0, CountKept DEF J!ExitCas, J!CasCount, J!Goto, Blocks,
                                        CriticalTypeOK
    <3>3. CriticalTypeOK' /\ CriticalBlockInv' /\ CriticalSeenInv' /\ CriticalDepthInv'
      BY <1>8, <2>1, <1>0 DEF J!ExitCas, J!CasCount, J!Goto, CriticalTypeOK, CriticalBlockInv,
                              CriticalSeenInv, CriticalDepthInv, Blocks, JavaPCs
    <3>4. J!NoLostWakeup'
      BY <1>8, <2>1, <1>0 DEF J!ExitCas, J!CasCount, J!Goto, CriticalTypeOK, J!NoLostWakeup
    <3> QED BY <3>2, <3>3, <3>4
  <2>2. CASE _count = seen[t]
    <3>1. _count >= 0 /\ \A d \in Drivers : ~Blocks(d)
      BY <1>8, <2>2, <1>0 DEF J!ExitCas, J!CasCount, CriticalSeenInv, CriticalCountInv,
                              CriticalTypeOK
    <3>2. J!Inside(t) /\ Insiders' = Insiders \ {t}
      BY <1>8, <2>2, <1>0 DEF J!ExitCas, J!CasCount, J!Goto, Insiders, J!Inside,
                              CriticalTypeOK, CriticalDepthInv
    <3>3. CriticalCountInv'
      BY <1>8, <2>2, <3>1, <3>2, <1>0, InsiderLeaves
         DEF J!ExitCas, J!CasCount, J!Goto, CriticalCountInv, Blocks, CriticalTypeOK
    <3>4. CriticalTypeOK' /\ CriticalBlockInv' /\ CriticalSeenInv' /\ CriticalDepthInv'
      BY <1>8, <2>2, <3>1, <1>0
         DEF J!ExitCas, J!CasCount, J!Goto, CriticalTypeOK, CriticalBlockInv, CriticalSeenInv,
             CriticalDepthInv, Blocks, JavaPCs
    <3>5. criticalWaiting = {}
      BY <3>1, <1>0 DEF J!NoLostWakeup, CriticalTypeOK, Blocks, JavaPCs
    <3>6. J!NoLostWakeup'
      BY <1>8, <3>5 DEF J!ExitCas, J!CasCount, J!NoLostWakeup
    <3> QED BY <3>3, <3>4, <3>6
  <2> QED BY <2>1, <2>2
<1>9. CASE J!ExitBlocked(t)
  <2>1. CASE _count # seen[t]
    <3>1. \A u \in JavaThreads : J!Inside(u)' <=> J!Inside(u)
      BY <1>9, <2>1, <1>0 DEF J!ExitBlocked, J!CasCount, J!Goto, J!Inside, CriticalTypeOK
    <3>2. CriticalCountInv'
      BY <1>9, <2>1, <3>1, <1>0, CountKept DEF J!ExitBlocked, J!CasCount, J!Goto, Blocks,
                                        CriticalTypeOK
    <3>3. CriticalTypeOK' /\ CriticalBlockInv' /\ CriticalSeenInv' /\ CriticalDepthInv'
      BY <1>9, <2>1, <1>0 DEF J!ExitBlocked, J!CasCount, J!Goto, CriticalTypeOK,
                              CriticalBlockInv, CriticalSeenInv, CriticalDepthInv, Blocks,
                              JavaPCs
    <3>4. J!NoLostWakeup'
      BY <1>9, <2>1, <1>0 DEF J!ExitBlocked, J!CasCount, J!Goto, CriticalTypeOK, J!NoLostWakeup
    <3> QED BY <3>2, <3>3, <3>4
  <2>2. CASE _count = seen[t]
    <3>1. _count < 0 /\ \E d \in Drivers : Blocks(d)
      BY <1>9, <2>2, <1>0 DEF J!ExitBlocked, J!CasCount, CriticalSeenInv, CriticalCountInv,
                              CriticalTypeOK
    <3>2. J!Inside(t) /\ Insiders' = Insiders \ {t}
      BY <1>9, <2>2, <1>0 DEF J!ExitBlocked, J!CasCount, J!Goto, Insiders, J!Inside,
                              CriticalTypeOK, CriticalDepthInv
    <3>0. Cardinality(Insiders) # 0
      BY <3>2, <1>0, FS_EmptySet DEF Insiders
    <3>3. _count # -1 /\ _count' = _count + 1 /\ _count' < 0
      BY <1>9, <2>2, <3>0, <3>1, <1>0 DEF J!ExitBlocked, J!CasCount, CriticalCountInv,
                                        CriticalTypeOK
    <3>4. CriticalCountInv'
      <4>1. \A d \in Drivers : Blocks(d)' <=> Blocks(d)
        BY <1>9, <1>0 DEF J!ExitBlocked, J!CasCount, J!Goto, Blocks, CriticalTypeOK
      <4>2. Cardinality(Insiders') = Cardinality(Insiders) - 1
        BY <3>2, InsiderLeaves
      <4> QED
        BY <3>1, <3>3, <4>1, <4>2, <1>0 DEF CriticalCountInv, CriticalTypeOK
    <3>5. CriticalTypeOK' /\ CriticalBlockInv' /\ CriticalSeenInv' /\ CriticalDepthInv'
      BY <1>9, <2>2, <3>3, <1>0
         DEF J!ExitBlocked, J!CasCount, J!Goto, CriticalTypeOK, CriticalBlockInv,
             CriticalSeenInv, CriticalDepthInv, Blocks, JavaPCs
    <3>6. J!NoLostWakeup'
      BY <1>9, <2>2, <3>3, <1>0 DEF J!ExitBlocked, J!CasCount, J!Goto, CriticalTypeOK,
                                    J!NoLostWakeup
    <3> QED BY <3>4, <3>5, <3>6
  <2> QED BY <2>1, <2>2
<1>10. CASE J!Notify(t)
  <2>1. \A u \in JavaThreads : J!Inside(u)' <=> J!Inside(u)
    BY <1>10, <1>0 DEF J!Notify, J!Goto, J!Inside, CriticalTypeOK
  <2>2. CriticalCountInv'
    BY <1>10, <2>1, <1>0, CountKept DEF J!Notify, J!Goto, Blocks, CriticalTypeOK
  <2>3. CriticalTypeOK' /\ CriticalBlockInv' /\ CriticalSeenInv' /\ CriticalDepthInv'
    BY <1>10, <1>0 DEF J!Notify, J!Goto, CriticalTypeOK, CriticalBlockInv, CriticalSeenInv,
                       CriticalDepthInv, Blocks, JavaPCs
  <2>4. J!NoLostWakeup'
    BY <1>10 DEF J!Notify, J!NoLostWakeup
  <2> QED BY <2>2, <2>3, <2>4
<1> QED BY <1>1, <1>2, <1>3, <1>4, <1>5, <1>6, <1>7, <1>8, <1>9, <1>10 DEF J!JavaThread

\* Drivers.
LEMMA DriverStep ==
  ASSUME J!CriticalAssumption, CriticalIInv, NEW d \in Drivers, J!Driver(d)
  PROVE  CriticalIInv'
<1> USE DEF CriticalIInv, J!CriticalAssumption, J!Entrants
<1>0. d \notin JavaThreads /\ d \in J!Entrants /\ IsFiniteSet(Insiders) /\ Cardinality(Insiders) \in Nat
  BY InsidersFinite
<1>1. Insiders' = Insiders /\ CriticalDepthInv'
  BY <1>0 DEF J!Driver, J!Block, J!BlockLoad, J!BlockOthers, J!BlockCas, J!BlockWait,
              J!Unblock, J!LoadCount,
              J!CasCount, J!WaitWhile, J!Goto, Insiders, J!Inside, CriticalTypeOK, CriticalDepthInv
<1>2. CASE J!Block(d) \/ J!BlockLoad(d)
  <2>1. CriticalCountInv'
    BY <1>2, <1>1, <1>0 DEF J!Block, J!BlockLoad, J!LoadCount, J!Goto, Blocks, CriticalTypeOK,
                            CriticalCountInv
  <2>2. CriticalTypeOK' /\ CriticalBlockInv' /\ CriticalSeenInv'
    BY <1>2, <1>0 DEF J!Block, J!BlockLoad, J!LoadCount, J!Goto, CriticalTypeOK,
                      CriticalBlockInv, CriticalSeenInv, Blocks, DriverPCs
  <2>3. J!NoLostWakeup'
    BY <1>2, <1>0 DEF J!Block, J!BlockLoad, J!LoadCount, J!Goto, CriticalTypeOK, J!NoLostWakeup
  <2> QED BY <1>1, <2>1, <2>2, <2>3
<1>3. CASE J!BlockOthers(d)
  <2>1. CriticalCountInv'
    BY <1>3, <1>1, <1>0 DEF J!BlockOthers, J!WaitWhile, J!Goto, Blocks, CriticalTypeOK,
                            CriticalCountInv
  <2>2. CriticalTypeOK' /\ CriticalBlockInv' /\ CriticalSeenInv'
    BY <1>3, <1>0 DEF J!BlockOthers, J!WaitWhile, J!Goto, CriticalTypeOK, CriticalBlockInv,
                      CriticalSeenInv, Blocks, DriverPCs
  <2>3. J!NoLostWakeup'
    BY <1>3, <1>0 DEF J!BlockOthers, J!WaitWhile, J!Goto, CriticalTypeOK, J!NoLostWakeup
  <2> QED BY <1>1, <2>1, <2>2, <2>3
<1>4. CASE J!BlockCas(d)
  <2>1. CASE _count # seen[d]
    <3>1. CriticalCountInv'
      BY <1>4, <2>1, <1>1, <1>0 DEF J!BlockCas, J!CasCount, J!Goto, Blocks, CriticalTypeOK,
                                    CriticalCountInv
    <3>2. CriticalTypeOK' /\ CriticalBlockInv' /\ CriticalSeenInv'
      BY <1>4, <2>1, <1>0 DEF J!BlockCas, J!CasCount, J!Goto, CriticalTypeOK,
                              CriticalBlockInv, CriticalSeenInv, Blocks, DriverPCs
    <3>3. J!NoLostWakeup'
      BY <1>4, <2>1, <1>0 DEF J!BlockCas, J!CasCount, J!Goto, CriticalTypeOK, J!NoLostWakeup
    <3> QED BY <1>1, <3>1, <3>2, <3>3
  <2>2. CASE _count = seen[d]
    <3>1. _count >= 0 /\ \A e \in Drivers : ~Blocks(e)
      BY <1>4, <2>2, <1>0 DEF J!BlockCas, J!CasCount, CriticalSeenInv, CriticalCountInv,
                              CriticalTypeOK
    <3>2. Blocks(d)' /\ _count' = -(_count + 1) /\ _count = Cardinality(Insiders)
      BY <1>4, <2>2, <3>1, <1>0 DEF J!BlockCas, J!CasCount, J!Goto, Blocks, CriticalTypeOK,
                                    CriticalCountInv
    <3>3. CriticalCountInv'
      BY <3>2, <1>1 DEF CriticalCountInv
    <3>4. CriticalTypeOK' /\ CriticalBlockInv' /\ CriticalSeenInv'
      BY <1>4, <2>2, <3>1, <3>2, <1>0
         DEF J!BlockCas, J!CasCount, J!Goto, CriticalTypeOK, CriticalBlockInv,
             CriticalSeenInv, Blocks, DriverPCs
    <3>5. criticalWaiting = {}
      BY <3>1, <1>0 DEF J!NoLostWakeup, CriticalTypeOK, Blocks, JavaPCs
    <3>6. J!NoLostWakeup'
      BY <1>4, <3>5 DEF J!BlockCas, J!CasCount, J!NoLostWakeup
    <3> QED BY <1>1, <3>3, <3>4, <3>6
  <2> QED BY <2>1, <2>2
<1>5. CASE J!BlockWait(d)
  <2>1. CriticalCountInv'
    BY <1>5, <1>1, <1>0 DEF J!BlockWait, J!WaitWhile, J!Goto, Blocks, CriticalTypeOK,
                            CriticalCountInv
  <2>2. CriticalTypeOK' /\ CriticalBlockInv' /\ CriticalSeenInv'
    BY <1>5, <1>0 DEF J!BlockWait, J!WaitWhile, J!Goto, CriticalTypeOK, CriticalBlockInv,
                      CriticalSeenInv, Blocks, DriverPCs
  <2>3. J!NoLostWakeup'
    BY <1>5, <1>0 DEF J!BlockWait, J!WaitWhile, J!Goto, CriticalTypeOK, J!NoLostWakeup
  <2> QED BY <1>1, <2>1, <2>2, <2>3
<1>6. CASE J!Unblock(d)
  <2>1. _count = -1 /\ Cardinality(Insiders) = 0 /\ \A e \in Drivers \ {d} : ~Blocks(e)
    BY <1>6, <1>0 DEF J!Unblock, CriticalBlockInv, Blocks, CriticalCountInv
  <2>2. CriticalCountInv'
    BY <1>6, <2>1, <1>1, <1>0 DEF J!Unblock, J!Goto, Blocks, CriticalTypeOK, CriticalCountInv
  <2>3. CriticalTypeOK' /\ CriticalBlockInv' /\ CriticalSeenInv'
    BY <1>6, <2>1, <1>0 DEF J!Unblock, J!Goto, CriticalTypeOK, CriticalBlockInv,
                            CriticalSeenInv, Blocks, DriverPCs
  <2>4. J!NoLostWakeup'
    BY <1>6 DEF J!Unblock, J!NoLostWakeup
  <2> QED BY <1>1, <2>2, <2>3, <2>4
<1> QED BY <1>2, <1>3, <1>4, <1>5, <1>6 DEF J!Driver

\* The invariant is inductive.
LEMMA CriticalStepInv == J!CriticalAssumption /\ CriticalIInv /\ [J!Next]_(J!vars) => CriticalIInv'
<1> SUFFICES ASSUME J!CriticalAssumption, CriticalIInv, [J!Next]_(J!vars) PROVE CriticalIInv'
  OBVIOUS
<1>1. ASSUME NEW t \in JavaThreads, J!JavaThread(t) PROVE CriticalIInv'
  BY <1>1, JavaThreadStep
<1>2. ASSUME NEW d \in Drivers, J!Driver(d) PROVE CriticalIInv'
  BY <1>2, DriverStep
<1>3. ASSUME NEW t \in J!Entrants, J!SpuriousWakeup(t) PROVE CriticalIInv'
  BY <1>3 DEF J!SpuriousWakeup, CriticalIInv, CriticalTypeOK, CriticalCountInv,
              CriticalBlockInv, CriticalSeenInv, CriticalDepthInv, J!NoLostWakeup,
              Insiders, J!Inside, Blocks
<1>4. ASSUME UNCHANGED J!vars PROVE CriticalIInv'
  BY <1>4 DEF J!vars, CriticalIInv, CriticalTypeOK, CriticalCountInv, CriticalBlockInv,
              CriticalSeenInv, CriticalDepthInv, J!NoLostWakeup,
              Insiders, J!Inside, Blocks
<1> QED BY <1>1, <1>2, <1>3, <1>4 DEF J!Next

-----------------------------------------------------------------------------
\* What the invariant says of a driver that has blocked the regions.
LEMMA InvBlocks == J!CriticalAssumption /\ CriticalIInv => J!BlockedIsExclusive /\ J!NoLostWakeup
<1> SUFFICES ASSUME J!CriticalAssumption, CriticalIInv PROVE J!BlockedIsExclusive /\ J!NoLostWakeup
  OBVIOUS
<1>1. ASSUME NEW d \in Drivers, criticalPc[d] = "blocked"
      PROVE  /\ \A t \in JavaThreads : ~J!Inside(t)
             /\ \A e \in Drivers \ {d} : criticalPc[e] # "blocked"
  <2>1. Cardinality(Insiders) = 0
    BY <1>1, InsidersFinite DEF CriticalIInv, CriticalBlockInv, CriticalCountInv, Blocks
  <2>2. Insiders = {}
    BY <2>1, InsidersFinite, FS_EmptySet
  <2> QED BY <1>1, <2>2 DEF Insiders, CriticalIInv, CriticalBlockInv, Blocks
<1> QED BY <1>1 DEF J!BlockedIsExclusive, CriticalIInv

LEMMA CriticalInductive == J!CriticalAssumption => (J!Spec => []CriticalIInv)
<1> SUFFICES ASSUME J!CriticalAssumption PROVE J!Spec => []CriticalIInv
  OBVIOUS
<1>1. J!Init => CriticalIInv
  BY CriticalInitInv
<1>2. CriticalIInv /\ [J!Next]_(J!vars) => CriticalIInv'
  BY CriticalStepInv
<1> QED BY <1>1, <1>2, PTL DEF J!Spec

\* The count, the labels of the threads and what they have loaded stay within
\* their types.
THEOREM CriticalTypeCorrect == J!CriticalAssumption => (J!Spec => []CriticalTypeOK)
<1> SUFFICES ASSUME J!CriticalAssumption PROVE J!Spec => []CriticalTypeOK
  OBVIOUS
<1>1. CriticalIInv => CriticalTypeOK
  BY DEF CriticalIInv
<1> QED BY <1>1, CriticalInductive, PTL

\* The count is the number of threads inside a critical region, and its
\* complement while a driver blocks (the comment at zJNICritical.cpp:36-46).
THEOREM CriticalCountCorrect == J!CriticalAssumption => (J!Spec => []CriticalCountInv)
<1> SUFFICES ASSUME J!CriticalAssumption PROVE J!Spec => []CriticalCountInv
  OBVIOUS
<1>1. CriticalIInv => CriticalCountInv
  BY DEF CriticalIInv
<1> QED BY <1>1, CriticalInductive, PTL

\* A driver that has blocked the regions finds nobody inside, and no other
\* driver has blocked them (ZJNICritical::block).
THEOREM BlockingExcludes == J!CriticalAssumption => (J!Spec => []J!BlockedIsExclusive)
<1> SUFFICES ASSUME J!CriticalAssumption PROVE J!Spec => []J!BlockedIsExclusive
  OBVIOUS
<1>1. CriticalIInv => J!BlockedIsExclusive
  BY InvBlocks
<1> QED BY <1>1, CriticalInductive, PTL

\* Nobody sleeps through the change it waits for (exit_inner, unblock).
THEOREM NoWakeupIsLost == J!CriticalAssumption => (J!Spec => []J!NoLostWakeup)
<1> SUFFICES ASSUME J!CriticalAssumption PROVE J!Spec => []J!NoLostWakeup
  OBVIOUS
<1>1. CriticalIInv => J!NoLostWakeup
  BY InvBlocks
<1> QED BY <1>1, CriticalInductive, PTL

-----------------------------------------------------------------------------
(* Shared pages, for any number of threads, CPUs, sizes and pages: the     *)
(* memory handed out is disjoint and never lies in a page that was given   *)
(* back.                                                                   *)

AllocatorPCs == {"idle", "top", "bump", "alloc_page", "install", "undo"}
Calls == [slot : O!Slots \cup {O!Large}, words : Nat, page : O!Pages \cup {O!Null},
          new : O!Pages \cup {O!Null}, top : Nat, in : O!Pages \cup {O!Null}]

AllocatorTypeOK ==
  /\ shared \in [O!Slots -> O!Pages \cup {O!Null}]
  /\ _used \in Nat /\ _undone \in Nat
  /\ size \in [O!Pages -> Nat] /\ pageTop \in [O!Pages -> Nat]
  /\ undone \subseteq O!Pages
  /\ objects \subseteq [page : O!Pages, start : Nat, words : Nat]
  /\ allocatorPc \in [Allocators -> AllocatorPCs]
  /\ call \in [Allocators -> Calls]

\* What a thread knows at each point of alloc_object_in_shared_page.
AllocatorCallsInv ==
  \A t \in Allocators :
    /\ allocatorPc[t] # "idle" => call[t].words \in 1 .. O!PageSize(call[t].slot, call[t].words)
    /\ allocatorPc[t] \in {"top", "bump", "install", "undo"} => call[t].slot \in O!Slots
    /\ allocatorPc[t] \in {"top", "bump"} => call[t].in # O!Null
    /\ allocatorPc[t] \in {"install", "undo"} => call[t].new # O!Null
    /\ allocatorPc[t] \in {"idle", "alloc_page"} => call[t].new = O!Null
    /\ allocatorPc[t] = "bump" => call[t].top + call[t].words <= size[call[t].in]

\* Objects lie below the top of their page, one after the other.
AllocatorObjectsInv ==
  /\ \A p \in O!Pages : pageTop[p] <= size[p]
  /\ \A o \in objects : o.words > 0 /\ o.start + o.words <= pageTop[o.page]
  /\ \A o, p \in objects :
       o # p /\ o.page = p.page => o.start + o.words <= p.start \/ p.start + p.words <= o.start

\* A page that threads can reach through a slot is in use.
AllocatorReachableInv ==
  /\ \A p \in undone : size[p] > 0 /\ \A o \in objects : o.page # p
  /\ \A s \in O!Slots : shared[s] # O!Null => size[shared[s]] > 0 /\ shared[s] \notin undone
  /\ \A t \in Allocators : call[t].in # O!Null => size[call[t].in] > 0 /\ call[t].in \notin undone

\* A page that is not installed yet belongs to the thread that allocated it.
AllocatorPrivateInv ==
  \A t \in Allocators : call[t].new # O!Null =>
    LET new == call[t].new IN
    /\ size[new] > 0 /\ new \notin undone
    /\ call[t].words <= pageTop[new]
    /\ \A o \in objects : o.page # new
    /\ \A s \in O!Slots : shared[s] # new
    /\ \A u \in Allocators : call[u].in # new
    /\ \A u \in Allocators \ {t} : call[u].new # new

\* A page without an object belongs to a thread that has still to decide.
AllocatorKeptInv ==
  \A p \in O!Allocated \ undone :
    (\E o \in objects : o.page = p) \/ (\E t \in Allocators : call[t].new = p)

AllocatorIInv ==
  /\ AllocatorTypeOK /\ AllocatorCallsInv /\ AllocatorObjectsInv
  /\ AllocatorReachableInv /\ AllocatorPrivateInv /\ AllocatorKeptInv

-----------------------------------------------------------------------------
USE DEF O!Null, O!Medium, O!Large

LEMMA AllocatorSizes ==
  ASSUME O!AllocatorAssumption,
         NEW words \in SmallObjects \cup MediumObjects \cup LargeObjects,
         NEW slot \in O!SlotsFor(words)
  PROVE  /\ words \in Nat \ {0} /\ words \in 1 .. O!PageSize(slot, words)
         /\ slot # O!Large => slot \in O!Slots
         /\ slot \in O!Slots \cup {O!Large}
BY DEF O!AllocatorAssumption, O!SlotsFor, O!PageSize, O!Slots

LEMMA NoCallTyped ==
  /\ O!NoCall \in Calls
  /\ O!NoCall.new = O!Null /\ O!NoCall.in = O!Null /\ O!NoCall.words = 0
BY DEF O!NoCall, Calls

LEMMA NewCall ==
  ASSUME NEW slot, NEW words, NEW page
  PROVE  [O!NoCall EXCEPT !.slot = slot, !.words = words, !.page = page, !.in = page] =
         [slot |-> slot, words |-> words, page |-> page, new |-> O!Null, top |-> 0, in |-> page]
<1> DEFINE Call(s, w, p, in) ==
             [slot |-> s, words |-> w, page |-> p, new |-> O!Null, top |-> 0, in |-> in]
<1>1. [O!NoCall EXCEPT !.slot = slot] = Call(slot, 0, O!Null, O!Null)
  BY DEF O!NoCall
<1>2. [Call(slot, 0, O!Null, O!Null) EXCEPT !.words = words] = Call(slot, words, O!Null, O!Null)
  OBVIOUS
<1>3. [Call(slot, words, O!Null, O!Null) EXCEPT !.page = page] = Call(slot, words, page, O!Null)
  OBVIOUS
<1>4. [Call(slot, words, page, O!Null) EXCEPT !.in = page] = Call(slot, words, page, page)
  OBVIOUS
<1> HIDE DEF Call
<1>5. [O!NoCall EXCEPT !.slot = slot, !.words = words, !.page = page, !.in = page] =
      [[[[O!NoCall EXCEPT !.slot = slot] EXCEPT !.words = words] EXCEPT !.page = page] EXCEPT !.in = page]
  OBVIOUS
<1> QED BY <1>1, <1>2, <1>3, <1>4, <1>5 DEF Call

LEMMA AllocObjectStep ==
  ASSUME O!AllocatorAssumption, AllocatorIInv, NEW t \in Allocators, O!AllocObject(t)
  PROVE  AllocatorIInv'
<1> USE DEF AllocatorIInv, O!pageVars
<1>0. PICK words \in SmallObjects \cup MediumObjects \cup LargeObjects :
        \E slot \in O!SlotsFor(words) :
          LET page == IF slot = O!Large THEN O!Null ELSE shared[slot] IN
          /\ call' = [call EXCEPT ![t] = [O!NoCall EXCEPT !.slot = slot, !.words = words,
                                                          !.page = page, !.in = page]]
          /\ O!Goto(t, IF page # O!Null THEN "top" ELSE "alloc_page")
  BY DEF O!AllocObject
<1>1. PICK slot \in O!SlotsFor(words) :
        LET page == IF slot = O!Large THEN O!Null ELSE shared[slot] IN
        /\ call' = [call EXCEPT ![t] = [O!NoCall EXCEPT !.slot = slot, !.words = words,
                                                        !.page = page, !.in = page]]
        /\ O!Goto(t, IF page # O!Null THEN "top" ELSE "alloc_page")
  BY <1>0
<1> DEFINE page == IF slot = O!Large THEN O!Null ELSE shared[slot]
           c == [slot |-> slot, words |-> words, page |-> page, new |-> O!Null, top |-> 0, in |-> page]
<1>2. /\ call' = [call EXCEPT ![t] = c]
      /\ allocatorPc' = [allocatorPc EXCEPT ![t] = IF page # O!Null THEN "top" ELSE "alloc_page"]
  BY <1>1, NewCall DEF O!Goto
<1>3. /\ words \in Nat \ {0} /\ words \in 1 .. O!PageSize(slot, words)
      /\ slot # O!Large => slot \in O!Slots
      /\ slot \in O!Slots \cup {O!Large}
  BY AllocatorSizes
<1>4. page \in O!Pages \cup {O!Null} /\ (page # O!Null => slot \in O!Slots /\ page = shared[slot])
  BY <1>3 DEF AllocatorTypeOK
<1>5. c \in Calls
  BY <1>3, <1>4 DEF Calls
<1> HIDE DEF page
<1>6. AllocatorTypeOK'
  BY <1>2, <1>5 DEF AllocatorTypeOK, O!AllocObject, AllocatorPCs
<1>7. AllocatorCallsInv'
  BY <1>2, <1>3, <1>4 DEF AllocatorCallsInv, AllocatorTypeOK, O!AllocObject
<1>8. AllocatorObjectsInv'
  BY DEF AllocatorObjectsInv, O!AllocObject
<1>9. AllocatorReachableInv'
  <2>1. UNCHANGED <<shared, size, undone, objects>>
    BY DEF O!AllocObject
  <2>2. \A u \in Allocators : call'[u] = IF u = t THEN c ELSE call[u]
    BY <1>2 DEF AllocatorTypeOK
  <2>3. c.in = page
    OBVIOUS
  <2>4. page # O!Null => size[page] > 0 /\ page \notin undone
    BY <1>4 DEF AllocatorReachableInv
  <2> HIDE DEF c
  <2> QED BY <2>1, <2>2, <2>3, <2>4 DEF AllocatorReachableInv
<1>10. AllocatorPrivateInv'
  <2>1. \A u \in Allocators : call[u].new # O!Null => page # call[u].new
    BY <1>4 DEF AllocatorPrivateInv
  <2>2. \A u \in Allocators : call'[u] = IF u = t THEN c ELSE call[u]
    BY <1>2 DEF AllocatorTypeOK
  <2>3. c.new = O!Null /\ c.in = page
    OBVIOUS
  <2> HIDE DEF c
  <2>4. UNCHANGED <<shared, size, pageTop, undone, objects>>
    BY DEF O!AllocObject
  <2> QED BY <2>1, <2>2, <2>3, <2>4 DEF AllocatorPrivateInv
<1>11. AllocatorKeptInv'
  BY <1>2, <1>3 DEF AllocatorKeptInv, O!Allocated, O!AllocObject, AllocatorTypeOK,
                    AllocatorCallsInv, O!Pages
<1> QED BY <1>6, <1>7, <1>8, <1>9, <1>10, <1>11

LEMMA LoadTopStep ==
  ASSUME O!AllocatorAssumption, AllocatorIInv, NEW t \in Allocators, O!LoadTop(t)
  PROVE  AllocatorIInv'
<1> USE DEF AllocatorIInv, O!pageVars, O!LoadTop, O!Goto
<1>0. /\ call[t] \in Calls /\ call[t].in \in O!Pages /\ call[t].in # O!Null
      /\ call[t].words \in Nat /\ pageTop[call[t].in] \in Nat /\ size[call[t].in] \in Nat
  BY DEF AllocatorTypeOK, AllocatorCallsInv, Calls
<1>1. PICK c \in Calls :
        /\ call' = [call EXCEPT ![t] = c]
        /\ c.slot = call[t].slot /\ c.words = call[t].words /\ c.new = call[t].new
        /\ c.in = call[t].in
        /\ \/ allocatorPc' = [allocatorPc EXCEPT ![t] = "alloc_page"] /\ c.new = O!Null
           \/ allocatorPc' = [allocatorPc EXCEPT ![t] = "install"] /\ c.new # O!Null
           \/ allocatorPc' = [allocatorPc EXCEPT ![t] = "bump"] /\ c.top + c.words <= size[c.in]
  <2>1. CASE pageTop[call[t].in] + call[t].words > size[call[t].in] /\ call[t].new = O!Null
    <3>1. call' = [call EXCEPT ![t] = call[t]]
      BY <2>1 DEF AllocatorTypeOK
    <3> QED BY <1>0, <2>1, <3>1
  <2>2. CASE pageTop[call[t].in] + call[t].words > size[call[t].in] /\ call[t].new # O!Null
    <3>1. [call[t] EXCEPT !.page = call[t].in] \in Calls
      BY <1>0 DEF Calls
    <3> QED BY <1>0, <2>2, <3>1 DEF Calls
  <2>3. CASE ~(pageTop[call[t].in] + call[t].words > size[call[t].in])
    <3>1. [call[t] EXCEPT !.top = pageTop[call[t].in]] \in Calls
      BY <1>0 DEF Calls
    <3> QED BY <1>0, <2>3, <3>1 DEF Calls
  <2> QED BY <2>1, <2>2, <2>3
<1>2. AllocatorTypeOK'
  BY <1>1 DEF AllocatorTypeOK, AllocatorPCs
<1>3. AllocatorCallsInv'
  BY <1>1 DEF AllocatorCallsInv, AllocatorTypeOK
<1>4. AllocatorObjectsInv' /\ AllocatorReachableInv' /\ AllocatorPrivateInv'
  BY <1>1 DEF AllocatorObjectsInv, AllocatorReachableInv, AllocatorPrivateInv, AllocatorTypeOK
<1>5. AllocatorKeptInv'
  BY <1>1 DEF AllocatorKeptInv, O!Allocated, AllocatorTypeOK
<1> QED BY <1>2, <1>3, <1>4, <1>5

\* The object lies between the top of the page and the new top.
LEMMA BumpStep ==
  ASSUME O!AllocatorAssumption, AllocatorIInv, NEW t \in Allocators, O!Bump(t)
  PROVE  AllocatorIInv'
<1> USE DEF AllocatorIInv, O!Bump, O!Goto
<1>0. /\ call[t] \in Calls /\ call[t].in \in O!Pages /\ call[t].in # O!Null
      /\ call[t].words \in Nat \ {0} /\ call[t].top \in Nat
      /\ call[t].top + call[t].words <= size[call[t].in]
      /\ call[t].in \notin undone
      /\ \A u \in Allocators : call[u].new # O!Null => call[u].new # call[t].in
  BY DEF AllocatorTypeOK, AllocatorCallsInv, Calls, AllocatorReachableInv, AllocatorPrivateInv
<1>1. CASE pageTop[call[t].in] # call[t].top
  <2>1. /\ allocatorPc' = [allocatorPc EXCEPT ![t] = "top"]
        /\ UNCHANGED <<shared, _used, _undone, size, pageTop, undone, objects, call>>
    BY <1>1
  <2>2. AllocatorTypeOK'
    BY <2>1 DEF AllocatorTypeOK, AllocatorPCs
  <2>3. AllocatorCallsInv'
    BY <1>0, <2>1 DEF AllocatorCallsInv, AllocatorTypeOK
  <2>4. AllocatorObjectsInv' /\ AllocatorReachableInv' /\ AllocatorPrivateInv'
    BY <2>1 DEF AllocatorObjectsInv, AllocatorReachableInv, AllocatorPrivateInv
  <2>5. AllocatorKeptInv'
    BY <2>1 DEF AllocatorKeptInv, O!Allocated
  <2> QED BY <2>2, <2>3, <2>4, <2>5
<1>2. CASE pageTop[call[t].in] = call[t].top
  <2> DEFINE p == call[t].in
             new == O!Object(p, call[t].top, call[t].words)
  <2>1. /\ pageTop' = [pageTop EXCEPT ![p] = call[t].top + call[t].words]
        /\ objects' = objects \cup {new}
        /\ UNCHANGED <<shared, _used, _undone, size, undone>>
    BY <1>2
  <2>2. new = [page |-> p, start |-> pageTop[p], words |-> call[t].words]
    BY <1>2 DEF O!Object
  <2>3. PICK c \in Calls :
          /\ call' = [call EXCEPT ![t] = c]
          /\ \/ c = call[t] /\ c.new # O!Null /\ allocatorPc' = [allocatorPc EXCEPT ![t] = "undo"]
             \/ c = O!NoCall /\ call[t].new = O!Null /\ allocatorPc' = [allocatorPc EXCEPT ![t] = "idle"]
    <3>1. CASE call[t].new = O!Null
      BY <1>2, <3>1, NoCallTyped DEF O!Return
    <3>2. CASE call[t].new # O!Null
      <4>1. call' = [call EXCEPT ![t] = call[t]]
        BY <1>2, <3>2 DEF AllocatorTypeOK
      <4> QED BY <1>0, <1>2, <3>2, <4>1
    <3> QED BY <3>1, <3>2
  <2>4. AllocatorTypeOK'
    BY <1>0, <2>1, <2>2, <2>3 DEF AllocatorTypeOK, AllocatorPCs
  <2>5. AllocatorCallsInv'
    BY <2>1, <2>3, NoCallTyped DEF AllocatorCallsInv, AllocatorTypeOK
  <2>6. AllocatorObjectsInv'
    BY <1>0, <1>2, <2>1, <2>2 DEF AllocatorObjectsInv, AllocatorTypeOK
  <2>7. AllocatorReachableInv'
    BY <1>0, <2>1, <2>2, <2>3, NoCallTyped DEF AllocatorReachableInv, AllocatorTypeOK
  <2>8. AllocatorPrivateInv'
    BY <1>0, <2>1, <2>2, <2>3, NoCallTyped DEF AllocatorPrivateInv, AllocatorTypeOK
  <2>9. AllocatorKeptInv'
    BY <2>1, <2>3, NoCallTyped DEF AllocatorKeptInv, O!Allocated, AllocatorTypeOK, O!Pages
  <2> QED BY <2>4, <2>5, <2>6, <2>7, <2>8, <2>9
<1> QED BY <1>1, <1>2

LEMMA AllocPageFailsStep ==
  ASSUME O!AllocatorAssumption, AllocatorIInv, NEW t \in Allocators, O!AllocPageFails(t)
  PROVE  AllocatorIInv'
<1> USE DEF AllocatorIInv, O!AllocPageFails, O!Return, O!pageVars
<1>1. AllocatorTypeOK'
  BY NoCallTyped DEF AllocatorTypeOK, AllocatorPCs
<1>2. AllocatorCallsInv'
  BY NoCallTyped DEF AllocatorCallsInv, AllocatorTypeOK
<1>3. AllocatorObjectsInv' /\ AllocatorReachableInv' /\ AllocatorPrivateInv'
  BY NoCallTyped DEF AllocatorObjectsInv, AllocatorReachableInv, AllocatorPrivateInv,
                     AllocatorTypeOK
<1>4. AllocatorKeptInv'
  BY NoCallTyped DEF AllocatorKeptInv, O!Allocated, AllocatorTypeOK, AllocatorCallsInv, O!Pages
<1> QED BY <1>1, <1>2, <1>3, <1>4

\* The page was not in use, so nobody knows it.
LEMMA AllocPageStep ==
  ASSUME O!AllocatorAssumption, AllocatorIInv, NEW t \in Allocators, O!AllocPage(t)
  PROVE  AllocatorIInv'
<1> USE DEF AllocatorIInv, O!AllocPage, O!Goto, O!Return
<1> DEFINE bytes == O!PageSize(call[t].slot, call[t].words)
<1>0. /\ call[t] \in Calls /\ call[t].words \in 1 .. bytes /\ call[t].words \in Nat /\ bytes \in Nat
  BY DEF AllocatorTypeOK, AllocatorCallsInv, Calls, O!PageSize, O!AllocatorAssumption
<1>1. PICK p \in O!Pages :
        /\ size[p] = 0
        /\ size' = [size EXCEPT ![p] = bytes]
        /\ pageTop' = [pageTop EXCEPT ![p] = call[t].words]
        /\ _used' = _used + bytes
        /\ IF call[t].slot = O!Large
             THEN /\ objects' = objects \cup {O!Object(p, 0, call[t].words)}
                  /\ O!Return(t)
             ELSE /\ call' = [call EXCEPT ![t].new = p]
                  /\ O!Goto(t, "install")
                  /\ UNCHANGED objects
  OBVIOUS
<1> HIDE DEF bytes
<1>2. /\ p # O!Null /\ p \notin undone
      /\ \A o \in objects : o.page # p
      /\ \A s \in O!Slots : shared[s] # p
      /\ \A u \in Allocators : call[u].in # p /\ call[u].new # p
  <2>1. \A o \in objects : o.page # p
    BY <1>1 DEF AllocatorObjectsInv, AllocatorTypeOK
  <2>2. p # O!Null
    BY DEF O!Pages
  <2> QED BY <1>1, <2>1, <2>2 DEF AllocatorReachableInv, AllocatorPrivateInv, AllocatorTypeOK
<1>3. CASE call[t].slot = O!Large
  <2>1. /\ objects' = objects \cup {[page |-> p, start |-> 0, words |-> call[t].words]}
        /\ call' = [call EXCEPT ![t] = O!NoCall] /\ allocatorPc' = [allocatorPc EXCEPT ![t] = "idle"]
    BY <1>1, <1>3 DEF O!Object
  <2>2. AllocatorTypeOK'
    BY <1>0, <1>1, <2>1, NoCallTyped DEF AllocatorTypeOK, AllocatorPCs
  <2>3. AllocatorCallsInv'
    BY <1>1, <1>2, <2>1, NoCallTyped DEF AllocatorCallsInv, AllocatorTypeOK
  <2>4. AllocatorObjectsInv'
    BY <1>0, <1>1, <1>2, <2>1 DEF AllocatorObjectsInv, AllocatorTypeOK
  <2>5. AllocatorReachableInv'
    BY <1>0, <1>1, <1>2, <2>1, NoCallTyped DEF AllocatorReachableInv, AllocatorTypeOK
  <2>6. AllocatorPrivateInv'
    BY <1>0, <1>1, <1>2, <2>1, NoCallTyped DEF AllocatorPrivateInv, AllocatorTypeOK
  <2>7. AllocatorKeptInv'
    <3>1. call[t].new = O!Null
      BY DEF AllocatorCallsInv
    <3>2. \E o \in objects' : o.page = p
      <4> DEFINE object == [page |-> p, start |-> 0, words |-> call[t].words]
      <4>1. object \in objects' /\ object.page = p
        BY <2>1
      <4> HIDE DEF object
      <4> QED BY <4>1
    <3>3. ASSUME NEW q \in O!Allocated \ undone
          PROVE  (\E o \in objects' : o.page = q) \/ (\E u \in Allocators : call'[u].new = q)
      <4>1. CASE \E o \in objects : o.page = q
        BY <2>1, <4>1
      <4>2. CASE \E u \in Allocators : call[u].new = q
        BY <2>1, <3>1, <4>2 DEF AllocatorTypeOK, O!Allocated, O!Pages
      <4> QED BY <3>3, <4>1, <4>2 DEF AllocatorKeptInv
    <3>4. O!Allocated' \subseteq O!Allocated \cup {p}
      BY <1>1 DEF O!Allocated, AllocatorTypeOK
    <3> QED BY <3>2, <3>3, <3>4 DEF AllocatorKeptInv
  <2> QED BY <2>2, <2>3, <2>4, <2>5, <2>6, <2>7
<1>4. CASE call[t].slot # O!Large
  <2> DEFINE c == [call[t] EXCEPT !.new = p]
  <2>1. /\ objects' = objects
        /\ call' = [call EXCEPT ![t] = c] /\ allocatorPc' = [allocatorPc EXCEPT ![t] = "install"]
    BY <1>1, <1>4
  <2>2. /\ c \in Calls /\ c.new = p /\ c.slot = call[t].slot /\ c.words = call[t].words
        /\ c.in = call[t].in /\ c.slot \in O!Slots
    BY <1>0, <1>4 DEF Calls
  <2> HIDE DEF c
  <2>3. AllocatorTypeOK'
    <3>1. call' \in [Allocators -> Calls] /\ allocatorPc' \in [Allocators -> AllocatorPCs]
      BY <2>1, <2>2 DEF AllocatorTypeOK, AllocatorPCs
    <3> QED BY <1>0, <1>1, <2>1, <3>1 DEF AllocatorTypeOK
  <2>4. AllocatorCallsInv'
    BY <1>0, <1>1, <1>2, <2>1, <2>2 DEF AllocatorCallsInv, AllocatorTypeOK, bytes
  <2>5. AllocatorObjectsInv'
    BY <1>0, <1>1, <1>2, <2>1 DEF AllocatorObjectsInv, AllocatorTypeOK
  <2>6. AllocatorReachableInv'
    BY <1>0, <1>1, <1>2, <2>1, <2>2 DEF AllocatorReachableInv, AllocatorTypeOK
  <2>7. AllocatorPrivateInv'
    BY <1>0, <1>1, <1>2, <2>1, <2>2 DEF AllocatorPrivateInv, AllocatorTypeOK
  <2>8. AllocatorKeptInv'
    BY <1>0, <1>1, <2>1, <2>2 DEF AllocatorKeptInv, O!Allocated, AllocatorTypeOK,
                                  AllocatorCallsInv, O!Pages
  <2> QED BY <2>3, <2>4, <2>5, <2>6, <2>7, <2>8
<1> QED BY <1>3, <1>4

\* The page becomes shared with the object it was allocated for in it.
LEMMA InstallStep ==
  ASSUME O!AllocatorAssumption, AllocatorIInv, NEW t \in Allocators, O!Install(t)
  PROVE  AllocatorIInv'
<1> USE DEF AllocatorIInv, O!Install, O!Goto, O!Return, O!pageVars
<1> DEFINE new == call[t].new  slot == call[t].slot  prev == shared[slot]
<1>0. /\ call[t] \in Calls /\ slot \in O!Slots /\ new \in O!Pages /\ new # O!Null
      /\ call[t].words \in Nat \ {0} /\ prev \in O!Pages \cup {O!Null}
      /\ call[t].words <= pageTop[new] /\ pageTop[new] \in Nat
      /\ size[new] > 0 /\ new \notin undone
      /\ \A o \in objects : o.page # new
      /\ \A s \in O!Slots : shared[s] # new
      /\ \A u \in Allocators : call[u].in # new
      /\ \A u \in Allocators \ {t} : call[u].new # new
  BY DEF AllocatorTypeOK, AllocatorCallsInv, AllocatorPrivateInv, Calls
<1>1. CASE prev = call[t].page
  <2>1. /\ shared' = [shared EXCEPT ![slot] = new]
        /\ objects' = objects \cup {[page |-> new, start |-> 0, words |-> call[t].words]}
        /\ call' = [call EXCEPT ![t] = O!NoCall] /\ allocatorPc' = [allocatorPc EXCEPT ![t] = "idle"]
    BY <1>1 DEF O!Object
  <2>2. AllocatorTypeOK'
    BY <1>0, <2>1, NoCallTyped DEF AllocatorTypeOK, AllocatorPCs
  <2>3. AllocatorCallsInv'
    BY <2>1, NoCallTyped DEF AllocatorCallsInv, AllocatorTypeOK
  <2>4. AllocatorObjectsInv'
    BY <1>0, <2>1 DEF AllocatorObjectsInv, AllocatorTypeOK
  <2>5. AllocatorReachableInv'
    BY <1>0, <2>1, NoCallTyped DEF AllocatorReachableInv, AllocatorTypeOK
  <2>6. AllocatorPrivateInv'
    BY <1>0, <2>1, NoCallTyped DEF AllocatorPrivateInv, AllocatorTypeOK
  <2>7. AllocatorKeptInv'
    <3>1. \E o \in objects' : o.page = new
      <4> DEFINE object == [page |-> new, start |-> 0, words |-> call[t].words]
      <4>1. object \in objects' /\ object.page = new
        BY <2>1
      <4> HIDE DEF object
      <4> QED BY <4>1
    <3>2. ASSUME NEW q \in O!Allocated \ undone
          PROVE  (\E o \in objects' : o.page = q) \/ (\E u \in Allocators : call'[u].new = q)
      <4>1. CASE \E o \in objects : o.page = q
        BY <2>1, <4>1
      <4>2. CASE \E u \in Allocators : call[u].new = q
        BY <2>1, <3>1, <4>2 DEF AllocatorTypeOK
      <4> QED BY <3>2, <4>1, <4>2 DEF AllocatorKeptInv
    <3> QED BY <3>2 DEF AllocatorKeptInv, O!Allocated
  <2> QED BY <2>2, <2>3, <2>4, <2>5, <2>6, <2>7
<1>2. CASE prev # call[t].page /\ prev = O!Null
  <2> DEFINE c == [call[t] EXCEPT !.page = O!Null]
  <2>1. call' = [call EXCEPT ![t] = c] /\ UNCHANGED <<shared, objects, allocatorPc>>
    BY <1>2
  <2>2. /\ c \in Calls /\ c.new = new /\ c.slot = slot /\ c.words = call[t].words /\ c.in = call[t].in
        /\ c.top = call[t].top
    BY <1>0 DEF Calls
  <2> HIDE DEF c
  <2>3. AllocatorTypeOK'
    BY <2>1, <2>2 DEF AllocatorTypeOK
  <2>4. AllocatorCallsInv'
    BY <2>1, <2>2 DEF AllocatorCallsInv, AllocatorTypeOK
  <2>5. AllocatorObjectsInv' /\ AllocatorReachableInv' /\ AllocatorPrivateInv'
    BY <2>1, <2>2 DEF AllocatorObjectsInv, AllocatorReachableInv, AllocatorPrivateInv,
                      AllocatorTypeOK
  <2>6. AllocatorKeptInv'
    BY <2>1, <2>2 DEF AllocatorKeptInv, O!Allocated, AllocatorTypeOK
  <2> QED BY <2>3, <2>4, <2>5, <2>6
<1>3. CASE prev # call[t].page /\ prev # O!Null
  <2> DEFINE c == [call[t] EXCEPT !.in = prev]
  <2>1. /\ call' = [call EXCEPT ![t] = c] /\ allocatorPc' = [allocatorPc EXCEPT ![t] = "top"]
        /\ UNCHANGED <<shared, objects>>
    BY <1>3
  <2>2. /\ c \in Calls /\ c.new = new /\ c.slot = slot /\ c.words = call[t].words /\ c.in = prev
        /\ c.top = call[t].top
    BY <1>0 DEF Calls
  <2> HIDE DEF c
  <2>3. AllocatorTypeOK'
    BY <2>1, <2>2 DEF AllocatorTypeOK, AllocatorPCs
  <2>4. AllocatorCallsInv'
    BY <1>0, <1>3, <2>1, <2>2 DEF AllocatorCallsInv, AllocatorTypeOK
  <2>5. AllocatorObjectsInv'
    BY <2>1 DEF AllocatorObjectsInv
  <2>6. AllocatorReachableInv'
    BY <1>0, <1>3, <2>1, <2>2 DEF AllocatorReachableInv, AllocatorTypeOK
  <2>7. AllocatorPrivateInv'
    BY <1>0, <1>3, <2>1, <2>2 DEF AllocatorPrivateInv, AllocatorTypeOK
  <2>8. AllocatorKeptInv'
    BY <2>1, <2>2 DEF AllocatorKeptInv, O!Allocated, AllocatorTypeOK
  <2> QED BY <2>3, <2>4, <2>5, <2>6, <2>7, <2>8
<1> QED BY <1>1, <1>2, <1>3

LEMMA UndoAllocPageStep ==
  ASSUME O!AllocatorAssumption, AllocatorIInv, NEW t \in Allocators, O!UndoAllocPage(t)
  PROVE  AllocatorIInv'
<1> USE DEF AllocatorIInv, O!UndoAllocPage, O!Return
<1> DEFINE new == call[t].new
<1>0. /\ call[t] \in Calls /\ new \in O!Pages /\ new # O!Null /\ size[new] \in Nat
      /\ size[new] > 0
      /\ \A o \in objects : o.page # new
      /\ \A s \in O!Slots : shared[s] # new
      /\ \A u \in Allocators : call[u].in # new
      /\ \A u \in Allocators \ {t} : call[u].new # new
  BY DEF AllocatorTypeOK, AllocatorCallsInv, AllocatorPrivateInv, Calls
<1>1. AllocatorTypeOK'
  BY <1>0, NoCallTyped DEF AllocatorTypeOK, AllocatorPCs
<1>2. AllocatorCallsInv'
  BY NoCallTyped DEF AllocatorCallsInv, AllocatorTypeOK
<1>3. AllocatorObjectsInv'
  BY DEF AllocatorObjectsInv
<1>4. AllocatorReachableInv'
  BY <1>0, NoCallTyped DEF AllocatorReachableInv, AllocatorTypeOK
<1>5. AllocatorPrivateInv'
  BY <1>0, NoCallTyped DEF AllocatorPrivateInv, AllocatorTypeOK
<1>6. AllocatorKeptInv'
  BY <1>0, NoCallTyped DEF AllocatorKeptInv, O!Allocated, AllocatorTypeOK
<1> QED BY <1>1, <1>2, <1>3, <1>4, <1>5, <1>6

LEMMA RetirePagesStep ==
  ASSUME O!AllocatorAssumption, AllocatorIInv, O!RetirePages
  PROVE  AllocatorIInv'
<1> USE DEF AllocatorIInv, O!RetirePages, O!pageVars, O!callVars
<1>1. AllocatorTypeOK'
  BY DEF AllocatorTypeOK
<1>2. AllocatorCallsInv' /\ AllocatorObjectsInv'
  BY DEF AllocatorCallsInv, AllocatorObjectsInv
<1>3. AllocatorReachableInv' /\ AllocatorPrivateInv'
  BY DEF AllocatorReachableInv, AllocatorPrivateInv, AllocatorTypeOK, O!Pages
<1>4. AllocatorKeptInv'
  BY DEF AllocatorKeptInv, O!Allocated
<1> QED BY <1>1, <1>2, <1>3, <1>4
-----------------------------------------------------------------------------
LEMMA AllocatorInitInv == O!AllocatorAssumption /\ O!Init => AllocatorIInv
<1> SUFFICES ASSUME O!AllocatorAssumption, O!Init PROVE AllocatorIInv
  OBVIOUS
<1> USE DEF O!Init
<1>1. AllocatorTypeOK
  BY NoCallTyped DEF AllocatorTypeOK, AllocatorPCs
<1>2. /\ AllocatorCallsInv /\ AllocatorObjectsInv /\ AllocatorReachableInv
      /\ AllocatorPrivateInv /\ AllocatorKeptInv
  BY NoCallTyped DEF AllocatorCallsInv, AllocatorObjectsInv, AllocatorReachableInv,
                     AllocatorPrivateInv, AllocatorKeptInv, O!Allocated
<1> QED BY <1>1, <1>2 DEF AllocatorIInv

LEMMA AllocatorStepInv == O!AllocatorAssumption /\ AllocatorIInv /\ [O!Next]_(O!vars) => AllocatorIInv'
<1> SUFFICES ASSUME O!AllocatorAssumption, AllocatorIInv, [O!Next]_(O!vars) PROVE AllocatorIInv'
  OBVIOUS
<1>1. ASSUME UNCHANGED O!vars PROVE AllocatorIInv'
  BY <1>1 DEF O!vars, O!pageVars, O!callVars, AllocatorIInv, AllocatorTypeOK,
              AllocatorCallsInv, AllocatorObjectsInv, AllocatorReachableInv,
              AllocatorPrivateInv,
              AllocatorKeptInv, O!Allocated
<1> QED BY <1>1, AllocObjectStep, LoadTopStep, BumpStep, AllocPageFailsStep, AllocPageStep,
           InstallStep, UndoAllocPageStep, RetirePagesStep DEF O!Next

\* Objects one after the other share no word.
LEMMA InvSafe == AllocatorIInv => O!ObjectsAreSafe
<1> SUFFICES ASSUME AllocatorIInv PROVE O!ObjectsAreSafe
  OBVIOUS
<1> USE DEF AllocatorIInv
<1>1. ASSUME NEW o \in objects, NEW p \in objects, o # p PROVE O!Words(o) \cap O!Words(p) = {}
  <2> SUFFICES ASSUME NEW v \in o.start .. o.start + o.words - 1,
                      NEW w \in p.start .. p.start + p.words - 1,
                      [page |-> o.page, word |-> v] = [page |-> p.page, word |-> w]
               PROVE  FALSE
    BY DEF O!Words
  <2>1. o.page = p.page /\ v = w
    OBVIOUS
  <2>2. o.start + o.words <= p.start \/ p.start + p.words <= o.start
    BY <1>1, <2>1 DEF AllocatorObjectsInv
  <2> QED BY <2>1, <2>2 DEF AllocatorTypeOK
<1>2. ASSUME NEW o \in objects PROVE o.page \notin undone /\ o.start + o.words <= size[o.page]
  <2>1. o.page \in O!Pages /\ o.start + o.words <= pageTop[o.page] /\ pageTop[o.page] <= size[o.page]
    BY DEF AllocatorTypeOK, AllocatorObjectsInv
  <2> QED BY <2>1 DEF AllocatorTypeOK, AllocatorReachableInv
<1>3. ASSUME NEW s \in O!Slots PROVE shared[s] \notin undone
  BY DEF AllocatorTypeOK, AllocatorReachableInv, O!Pages
<1> QED BY <1>1, <1>2, <1>3 DEF O!ObjectsAreSafe

LEMMA InvKept == AllocatorIInv => O!PagesAreKept
<1> SUFFICES ASSUME AllocatorIInv, O!NoneInstalls, NEW p \in O!Allocated \ undone
             PROVE  \E o \in objects : o.page = p
  BY DEF O!PagesAreKept
<1>1. \A t \in Allocators : call[t].new = O!Null
  BY DEF O!NoneInstalls, AllocatorIInv, AllocatorCallsInv
<1>2. p # O!Null
  BY DEF O!Allocated, O!Pages
<1> QED BY <1>1, <1>2 DEF AllocatorIInv, AllocatorKeptInv

LEMMA AllocatorInductive == O!AllocatorAssumption => (O!Spec => []AllocatorIInv)
<1> SUFFICES ASSUME O!AllocatorAssumption PROVE O!Spec => []AllocatorIInv
  OBVIOUS
<1>1. O!Init => AllocatorIInv
  BY AllocatorInitInv
<1>2. AllocatorIInv /\ [O!Next]_(O!vars) => AllocatorIInv'
  BY AllocatorStepInv
<1> QED BY <1>1, <1>2, PTL DEF O!Spec

\* Type correctness.
THEOREM AllocatorTypeCorrect == O!AllocatorAssumption => (O!Spec => []AllocatorTypeOK)
<1> SUFFICES ASSUME O!AllocatorAssumption PROVE O!Spec => []AllocatorTypeOK
  OBVIOUS
<1>1. AllocatorIInv => AllocatorTypeOK
  BY DEF AllocatorIInv
<1> QED BY <1>1, AllocatorInductive, PTL

\* No two threads get the same memory, none of it in a page that was given
\* back (alloc_object_atomic, alloc_object_in_shared_page).
THEOREM MemoryIsSafe == O!AllocatorAssumption => (O!Spec => []O!ObjectsAreSafe)
<1> SUFFICES ASSUME O!AllocatorAssumption PROVE O!Spec => []O!ObjectsAreSafe
  OBVIOUS
<1> QED BY AllocatorInductive, InvSafe, PTL

\* No page that was allocated for an object and lost the race is leaked
\* (undo_alloc_page).
THEOREM NoPageIsLeaked == O!AllocatorAssumption => (O!Spec => []O!PagesAreKept)
<1> SUFFICES ASSUME O!AllocatorAssumption PROVE O!Spec => []O!PagesAreKept
  OBVIOUS
<1> QED BY AllocatorInductive, InvKept, PTL

\* A page belongs to one thread until it is installed, and is then given back
\* by nobody (alloc_object_in_shared_page, undo_alloc_page).
THEOREM PagesArePrivate == O!AllocatorAssumption => (O!Spec => []AllocatorPrivateInv)
<1> SUFFICES ASSUME O!AllocatorAssumption PROVE O!Spec => []AllocatorPrivateInv
  OBVIOUS
<1>1. AllocatorIInv => AllocatorPrivateInv
  BY DEF AllocatorIInv
<1> QED BY <1>1, AllocatorInductive, PTL

-----------------------------------------------------------------------------
(* The theorems about the parts, for a behaviour that exercises one of them. *)

LEMMA TableInvariant == MCSpec => []IInv /\ [][Next]_vars
<1>1. MCInit => IInv
  BY InitInv DEF MCInit
<1>2. [MCNext]_mcVars => [Next]_vars
  BY DEF MCNext, OnlyRuns, mcVars, vars
<1>3. IInv /\ [MCNext]_mcVars => IInv'
  BY <1>2, NextInv
<1> QED BY <1>1, <1>2, <1>3, PTL DEF MCSpec

LEMMA QueueInvariant == MCSpec => []QueueIInv
<1>1. MCInit => QueueIInv
  BY QueueInitInv, QueueAssumption DEF MCInit
<1>2. QueueIInv /\ [MCNext]_mcVars => QueueIInv'
  <2> SUFFICES ASSUME QueueIInv, [MCNext]_mcVars PROVE QueueIInv'
    OBVIOUS
  <2>1. [Q!Next]_(Q!vars)
    BY DEF MCNext, OnlyRuns, mcVars, queueVars, Q!vars, Q!queueVars, Q!pageVars, Q!localVars,
           Q!outerVars
  <2> QED BY <2>1, QueueStepInv, QueueAssumption
<1> QED BY <1>1, <1>2, PTL DEF MCSpec

LEMMA CriticalInvariant == MCSpec => []CriticalIInv
<1>1. MCInit => CriticalIInv
  BY CriticalInitInv, CriticalAssumption DEF MCInit
<1>2. CriticalIInv /\ [MCNext]_mcVars => CriticalIInv'
  <2> SUFFICES ASSUME CriticalIInv, [MCNext]_mcVars PROVE CriticalIInv'
    OBVIOUS
  <2>1. [J!Next]_(J!vars)
    BY DEF MCNext, OnlyRuns, mcVars, criticalVars, J!vars
  <2> QED BY <2>1, CriticalStepInv, CriticalAssumption
<1> QED BY <1>1, <1>2, PTL DEF MCSpec

LEMMA AllocatorInvariant == MCSpec => []AllocatorIInv
<1>1. MCInit => AllocatorIInv
  BY AllocatorInitInv, AllocatorAssumption DEF MCInit
<1>2. AllocatorIInv /\ [MCNext]_mcVars => AllocatorIInv'
  <2> SUFFICES ASSUME AllocatorIInv, [MCNext]_mcVars PROVE AllocatorIInv'
    OBVIOUS
  <2>1. [O!Next]_(O!vars)
    BY DEF MCNext, OnlyRuns, mcVars, objectVars, O!vars, O!pageVars, O!callVars
  <2> QED BY <2>1, AllocatorStepInv, AllocatorAssumption
<1> QED BY <1>1, <1>2, PTL DEF MCSpec

\* Workers stand still at a safepoint, for any number of workers, threads
\* that wait and pages (ZRelocateQueue::synchronize).
THEOREM SafepointsAreQuiescent == MCSpec => []SafepointQuiescent
<1>1. QueueIInv => SafepointQuiescent
  BY InvQuiescent DEF SafepointQuiescent
<1> QED BY <1>1, QueueInvariant, PTL

\* When the relocation task is over every page is relocated and nobody is
\* left in the queue (ZRelocateTask).
THEOREM TasksComplete == MCSpec => []TaskCompletes
<1>1. QueueIInv => TaskCompletes
  BY InvCompletes, QueueAssumption DEF TaskCompletes
<1> QED BY <1>1, QueueInvariant, PTL

\* A collection that has blocked the JNI critical regions is alone and nobody
\* misses a notification, for any number of threads and drivers
\* (ZJNICritical::block).
THEOREM CriticalBlocked == MCSpec => []CriticalRegionsAreBlocked
<1>1. CriticalIInv => CriticalRegionsAreBlocked
  BY InvBlocks, CriticalAssumption DEF CriticalRegionsAreBlocked
<1> QED BY <1>1, CriticalInvariant, PTL

\* Objects are allocated once, in pages that are kept, for any number of
\* threads (alloc_object_in_shared_page).
THEOREM ObjectsSafe == MCSpec => []ObjectsAreSafe
<1>1. AllocatorIInv => ObjectsAreSafe
  BY InvSafe, InvKept DEF ObjectsAreSafe
<1> QED BY <1>1, AllocatorInvariant, PTL

\* All threads are told the address the table forwards the object to, and the
\* table implements the write-once map (ZForwarding::find, insert).
THEOREM TableAgrees == MCSpec => []ResultIsForwarding /\ ImplementsMap
<1>1. MCInit => Map!MapInit
  BY MapInitially DEF MCInit
<1>2. IInv => ResultIsForwarding /\ NoDuplicates
  BY AgreedResults, OneEntry
<1>3. IInv /\ NoDuplicates /\ NoDuplicates' /\ [Next]_vars
        => [Map!MapNext]_([k \in Keys |-> ForwardedTo(k)])
  BY MapStep
<1> QED
  BY <1>1, <1>2, <1>3, TableInvariant, PTL DEF MCSpec, ImplementsMap, Map!MapSpec
=============================================================================

---------------------------- MODULE ZNMethodTable ----------------------------
(***************************************************************************)
(* The table of compiled methods (zNMethodTable.cpp), its iterations and   *)
(* the threads that use it: mutators that register methods and enter them, *)
(* the old generation that unlinks and frees those with a dead oop, and    *)
(* the young generation that visits all of them as roots.                  *)
(*                                                                         *)
(* The table has open addressing.  It changes under CodeCache_lock only,   *)
(* so that a change is one step; an iteration reads without the lock, and  *)
(* reads the table there was when it began.  What is done under the lock   *)
(* of one method is a step as well.  A method stands for its address,      *)
(* which is used again once the method has been freed.  Class unloading is *)
(* on.  Of a method's guard value it matters whether the method is armed.  *)
(***************************************************************************)
EXTENDS Integers, FiniteSets, FiniteSetsExt

CONSTANTS
  NMethods,           \* the addresses of methods
  Hash,               \* ZHash::address_to_uint32
  MinTableSize,       \* the least size of a table, 1024 in the code
  PartitionSize,      \* entries claimed at a time
  Mutators,
  Unlinkers,          \* the workers of the old generation
  Markers,            \* the workers of iterations over the roots
  MaxRegistrations,   \* bounds: on registrations,
  MaxRefills,         \* on failures in one unlinking,
  MaxCycles           \* and on the collections of each generation

MethodsAssumption ==
  /\ IsFiniteSet(NMethods) /\ NMethods \cap {"empty", "unregistered", "nobody"} = {}
  /\ Hash \in [NMethods -> Nat]
  /\ MinTableSize \in Nat /\ MinTableSize >= 4
  /\ PartitionSize \in Nat \ {0}
  /\ Unlinkers # {} /\ Unlinkers \cap Markers = {}
  /\ MaxRegistrations \in Nat

Empty == "empty"
Unregistered == "unregistered"
Nobody == "nobody"

Tables == 1..MaxRegistrations   \* a registration allocates at most one
NoTable == 0
Deleted == <<>>

VARIABLES
  tables,          \* the memory of each table, Deleted if it has none
  _table,
  _nregistered,
  _nunregistered,
  _deferred,       \* the activated array of _safe_delete
  iterations,      \* _iteration and _iteration_secondary
  workers,         \* where each worker of an iteration is
  _failed,         \* the unlinking task lacked inline cache stubs
  status,          \* of each method
  armed,           \* the methods whose entry barrier is armed
  dead,            \* the methods marking found a dead oop in
  old,             \* where the old collection is
  roots,           \* who iterates over all roots, under the driver's lock
  joined,          \* whether that thread is in the suspendible thread set
  calling,         \* the method whose entry barrier a mutator is in
  unshaken,        \* the mutators the handshake waits for
  registrations, refills, cycles

tableVars == <<tables, _table, _nregistered, _nunregistered>>
iterationVars == <<_deferred, iterations, workers, _failed>>
methodVars == <<status, armed, dead>>
phaseVars == <<old, roots, joined, calling, unshaken>>
boundVars == <<registrations, refills, cycles>>
vars == <<tableVars, iterationVars, methodVars, phaseVars, boundVars>>

-----------------------------------------------------------------------------
\* Tables as values.

EmptyTable(size) == [i \in 0..(size - 1) |-> Empty]

\* How many steps next_index() takes from a method's first_index() to i.
Distance(table, n, i) == (i - Hash[n]) % Cardinality(DOMAIN table)

\* The first index on a method's way through the table that has one of the
\* entries.
FirstWith(table, n, entries) ==
  CHOOSE i \in DOMAIN table :
    /\ table[i] \in entries
    /\ \A j \in DOMAIN table :
         table[j] \in entries => Distance(table, n, i) =< Distance(table, n, j)

RegisterEntry(table, n) ==
  [table EXCEPT ![FirstWith(table, n, {Empty, n})] = n]

UnregisterEntry(table, n) ==
  [table EXCEPT ![FirstWith(table, n, {n})] = Unregistered]

Size == IF _table = NoTable THEN 0 ELSE Cardinality(DOMAIN tables[_table])

\* The methods move one after the other.
Rebuilt(size) ==
  LET moved[i \in 0..Size] ==
        IF i = 0 THEN EmptyTable(size)
        ELSE IF tables[_table][i - 1] \in NMethods
        THEN RegisterEntry(moved[i - 1], tables[_table][i - 1])
        ELSE moved[i - 1]
  IN  moved[Size]

Shrinks == _nregistered < (Size * 30) \div 100 /\ Size > MinTableSize
IsCrowded == _nregistered + _nunregistered > (Size * 70) \div 100

RebuildIsNeeded == Size = 0 \/ Shrinks \/ IsCrowded

NewSize ==
  CASE Size = 0 -> MinTableSize
    [] Size # 0 /\ Shrinks -> Size \div 2
    [] OTHER -> IF _nregistered < (Size * 65) \div 100 THEN Size ELSE Size * 2

-----------------------------------------------------------------------------
(* _safe_delete: tables are deleted when nobody iterates.                   *)

IsActivated == _deferred.count > 0

EnableDeferredDelete == _deferred' = [_deferred EXCEPT !.count = @ + 1]

\* What is left of the tables when the last iteration has ended.
ImmediateDelete(items) == [t \in Tables |-> IF t \in items THEN Deleted ELSE tables[t]]

DisableDeferredDelete ==
  IF _deferred.count = 1
  THEN /\ _deferred' = [count |-> 0, array |-> {}]
       /\ tables' = ImmediateDelete(_deferred.array)
  ELSE /\ _deferred' = [_deferred EXCEPT !.count = @ - 1]
       /\ UNCHANGED tables

-----------------------------------------------------------------------------
(* A mutator registers a method: a new one, or one it runs and has patched. *)

RegisterNMethod(n) ==
  /\ registrations < MaxRegistrations
  /\ \/ status[n] = "free"
     \/ status[n] = "registered" /\ n \notin armed
  /\ LET fresh == Min({t \in Tables : tables[t] = Deleted})
         id == IF RebuildIsNeeded THEN fresh ELSE _table
         before == IF RebuildIsNeeded THEN Rebuilt(NewSize) ELSE tables[_table]
         replaced == IF RebuildIsNeeded THEN {_table} \ {NoTable} ELSE {}
     IN /\ tables' = [ImmediateDelete(IF IsActivated THEN {} ELSE replaced)
                        EXCEPT ![id] = RegisterEntry(before, n)]
        /\ _deferred' = IF IsActivated THEN [_deferred EXCEPT !.array = @ \cup replaced]
                        ELSE _deferred
        /\ _table' = id
        /\ _nunregistered' = IF RebuildIsNeeded THEN 0 ELSE _nunregistered
        /\ _nregistered' = IF \E i \in DOMAIN before : before[i] = n
                           THEN _nregistered ELSE _nregistered + 1
  /\ status' = [status EXCEPT ![n] = "registered"]
  /\ armed' = armed \ {n}
  /\ registrations' = registrations + 1
  /\ UNCHANGED <<iterations, workers, _failed, dead, phaseVars, refills, cycles>>

\* A mutator calls a method it can still find; the code of an armed one runs
\* the entry barrier.
Call(m, n) ==
  /\ calling[m] = Nobody
  /\ status[n] \in {"registered", "unregistered"} /\ n \in armed
  /\ calling' = [calling EXCEPT ![m] = n]
  /\ UNCHANGED <<tableVars, iterationVars, methodVars, old, roots, joined, unshaken, boundVars>>

IsUnloading(n) == n \in armed /\ n \in dead

EntryBarrier(m) ==
  /\ calling[m] # Nobody
  /\ armed' = IF IsUnloading(calling[m]) THEN armed ELSE armed \ {calling[m]}
  /\ calling' = [calling EXCEPT ![m] = Nobody]
  /\ UNCHANGED <<tableVars, iterationVars, status, dead, old, roots, joined, unshaken, boundVars>>

-----------------------------------------------------------------------------
(* Iterations. *)

WorkersOf(it) == IF it = "primary" THEN Unlinkers ELSE Markers

NoIteration == [table |-> NoTable, size |-> 0, claimed |-> 0]

Idle == [at |-> "idle", i |-> 0, end |-> 0, method |-> Nobody]

NMethodsDoBegin(it) ==
  /\ EnableDeferredDelete
  /\ iterations' = [iterations EXCEPT ![it] = [table |-> _table, size |-> Size, claimed |-> 0]]
  /\ workers' = [w \in DOMAIN workers |->
       IF w \in WorkersOf(it) THEN [Idle EXCEPT !.at = "claim"] ELSE workers[w]]
  /\ UNCHANGED tableVars

NMethodsDoEnd(it) ==
  /\ \A w \in WorkersOf(it) : workers[w].at = "idle"
  /\ iterations' = [iterations EXCEPT ![it] = NoIteration]
  /\ DisableDeferredDelete
  /\ UNCHANGED <<_table, _nregistered, _nunregistered, workers>>

Claim(it, w) ==
  /\ workers[w].at = "claim"
  /\ LET size == iterations[it].size
         start == Min({iterations[it].claimed, size})
         end == Min({start + PartitionSize, size})
     IN workers' = [workers EXCEPT ![w] =
          IF start = end THEN Idle
          ELSE [at |-> "read", i |-> start, end |-> end, method |-> Nobody]]
  /\ iterations' = [iterations EXCEPT ![it].claimed = @ + PartitionSize]
  /\ UNCHANGED <<tableVars, _deferred, _failed, methodVars, phaseVars, boundVars>>

\* The worker is done with the entry it has read.
Advance(w) ==
  LET worker == workers[w]
  IN  workers' = [workers EXCEPT ![w] =
        IF worker.i + 1 = worker.end THEN [Idle EXCEPT !.at = "claim"]
        ELSE [worker EXCEPT !.at = "read", !.i = @ + 1, !.method = Nobody]]

Goto(w, at) == workers' = [workers EXCEPT ![w].at = at]

ReadEntry(it, w) ==
  /\ workers[w].at = "read"
  /\ LET entry == tables[iterations[it].table][workers[w].i]
     IN IF entry \in NMethods
        THEN workers' = [workers EXCEPT ![w].at = "visit", ![w].method = entry]
        ELSE Advance(w)
  /\ UNCHANGED <<tableVars, _deferred, iterations, _failed, methodVars, phaseVars, boundVars>>

\* Young marking heals a method that stays, and may disarm it.
VisitYoung(w) ==
  /\ roots = "young" /\ workers[w].at = "visit"
  /\ LET n == workers[w].method
     IN \/ IsUnloading(n) /\ UNCHANGED armed
        \/ ~IsUnloading(n) /\ armed' \in {armed, armed \ {n}}
  /\ Advance(w)
  /\ UNCHANGED <<tableVars, _deferred, iterations, _failed, status, dead, phaseVars, boundVars>>

\* The remapping of the old generation asks nothing of a method.
VisitRemap(w) ==
  /\ roots = "remap" /\ workers[w].at = "visit"
  /\ armed' = armed \ {workers[w].method}
  /\ Advance(w)
  /\ UNCHANGED <<tableVars, _deferred, iterations, _failed, status, dead, phaseVars, boundVars>>

\* Unlinking: a method that stays is healed but remains armed, and cleaning
\* its caches may fail.
VisitUnlink(w) ==
  /\ workers[w].at = "visit"
  /\ \/ _failed /\ Advance(w) /\ UNCHANGED _failed
     \/ ~_failed /\ IsUnloading(workers[w].method) /\ Goto(w, "unregister") /\ UNCHANGED _failed
     \/ ~_failed /\ ~IsUnloading(workers[w].method) /\ Advance(w)
          /\ _failed' \in {FALSE, refills < MaxRefills}
  /\ UNCHANGED <<tableVars, _deferred, iterations, methodVars, phaseVars, boundVars>>

UnregisterNMethod(w) ==
  /\ workers[w].at = "unregister"
  /\ tables' = [tables EXCEPT ![_table] = UnregisterEntry(@, workers[w].method)]
  /\ _nunregistered' = _nunregistered + 1
  /\ _nregistered' = _nregistered - 1
  /\ status' = [status EXCEPT ![workers[w].method] = "unregistered"]
  /\ Goto(w, "unlink")
  /\ UNCHANGED <<_table, _deferred, iterations, _failed, armed, dead, phaseVars, boundVars>>

UnlinkNMethod(w) ==
  /\ workers[w].at = "unlink"
  /\ status' = [status EXCEPT ![workers[w].method] = "unlinked"]
  /\ Advance(w)
  /\ UNCHANGED <<tableVars, _deferred, iterations, _failed, armed, dead, phaseVars, boundVars>>

-----------------------------------------------------------------------------
(* The old collection. *)

\* No mutator is in an entry barrier at a pause.
AtPause == \A m \in Mutators : calling[m] = Nobody

Present == {n \in NMethods : status[n] # "free"}

OldMarkStart ==
  /\ old = "idle" /\ AtPause
  /\ cycles.old < MaxCycles.old
  /\ cycles' = [cycles EXCEPT !.old = @ + 1]
  /\ armed' = Present
  /\ old' = "marking"
  /\ UNCHANGED <<tableVars, iterationVars, status, dead, roots, joined, calling, unshaken,
                 registrations, refills>>

\* A method entered since marking began is alive, and disarmed.
OldMarkEnd ==
  /\ old = "marking" /\ AtPause
  /\ dead' \in SUBSET armed
  /\ old' = "marked"
  /\ UNCHANGED <<tableVars, iterationVars, status, armed, roots, joined, calling, unshaken, boundVars>>

UnlinkBegin ==
  /\ old = "marked"
  /\ NMethodsDoBegin("primary")
  /\ _failed' = FALSE
  /\ old' = "unlinking"
  /\ UNCHANGED <<methodVars, roots, joined, calling, unshaken, boundVars>>

UnlinkEnd ==
  /\ old = "unlinking"
  /\ NMethodsDoEnd("primary")
  /\ IF _failed
     THEN /\ old' = "marked"
          /\ refills' = refills + 1
          /\ UNCHANGED unshaken
     ELSE /\ old' = "handshake"
          /\ unshaken' = Mutators
          /\ refills' = 0
  /\ UNCHANGED <<_failed, methodVars, roots, joined, calling, registrations, cycles>>

Handshake(m) ==
  /\ m \in unshaken /\ calling[m] = Nobody
  /\ unshaken' = unshaken \ {m}
  /\ UNCHANGED <<tableVars, iterationVars, methodVars, old, roots, joined, calling, boundVars>>

\* Mutant: the threads of the collector are not waited for.
HandshakeOnly ==
  /\ old = "handshake" /\ unshaken = {}
  /\ old' = "purge"
  /\ UNCHANGED <<tableVars, iterationVars, methodVars, roots, joined, calling, unshaken, boundVars>>

\* SuspendibleThreadSet::synchronize() waits for the threads in the set.
RendezvousGCThreads ==
  /\ old = "handshake" /\ unshaken = {}
  /\ ~joined
  /\ old' = "purge"
  /\ UNCHANGED <<tableVars, iterationVars, methodVars, roots, joined, calling, unshaken, boundVars>>

PurgeNMethod(n) ==
  /\ old = "purge" /\ status[n] = "unlinked"
  /\ status' = [status EXCEPT ![n] = "free"]
  /\ armed' = armed \ {n}
  /\ dead' = dead \ {n}
  /\ UNCHANGED <<tableVars, iterationVars, phaseVars, boundVars>>

PurgeEnd ==
  /\ old = "purge"
  /\ \A n \in NMethods : status[n] # "unlinked"
  /\ old' = "purged"
  /\ UNCHANGED <<tableVars, iterationVars, methodVars, roots, joined, calling, unshaken, boundVars>>

-----------------------------------------------------------------------------
(* Iterations over the roots, by one generation at a time. *)

YoungMarkStart ==
  /\ roots = "nobody" /\ AtPause
  /\ cycles.young < MaxCycles.young
  /\ cycles' = [cycles EXCEPT !.young = @ + 1]
  /\ armed' = Present
  /\ roots' = "young"
  /\ UNCHANGED <<tableVars, iterationVars, status, dead, old, joined, calling, unshaken,
                 registrations, refills>>

MarkYoungRoots ==
  /\ roots = "young" /\ ~joined
  /\ joined' = TRUE
  /\ NMethodsDoBegin("secondary")
  /\ UNCHANGED <<_failed, methodVars, old, roots, calling, unshaken, boundVars>>

RemapYoungRoots ==
  /\ roots = "nobody" /\ old = "purged"
  /\ roots' = "remap"
  /\ joined' = TRUE
  /\ NMethodsDoBegin("secondary")
  /\ UNCHANGED <<_failed, methodVars, old, calling, unshaken, boundVars>>

RootsEnd ==
  /\ joined
  /\ NMethodsDoEnd("secondary")
  /\ roots' = "nobody"
  /\ joined' = FALSE
  /\ old' = IF roots = "remap" THEN "idle" ELSE old
  /\ UNCHANGED <<_failed, methodVars, calling, unshaken, boundVars>>

-----------------------------------------------------------------------------
Init ==
  /\ tables = [t \in Tables |-> Deleted]
  /\ _table = NoTable
  /\ _nregistered = 0
  /\ _nunregistered = 0
  /\ _deferred = [count |-> 0, array |-> {}]
  /\ iterations = [it \in {"primary", "secondary"} |-> NoIteration]
  /\ workers = [w \in Unlinkers \cup Markers |-> Idle]
  /\ _failed = FALSE
  /\ status = [n \in NMethods |-> "free"]
  /\ armed = {}
  /\ dead = {}
  /\ old = "idle"
  /\ roots = "nobody"
  /\ joined = FALSE
  /\ calling = [m \in Mutators |-> Nobody]
  /\ unshaken = {}
  /\ registrations = 0
  /\ refills = 0
  /\ cycles = [old |-> 0, young |-> 0]

Mutator ==
  \/ \E n \in NMethods : RegisterNMethod(n)
  \/ \E m \in Mutators, n \in NMethods : Call(m, n)
  \/ \E m \in Mutators : EntryBarrier(m) \/ Handshake(m)

Iterate ==
  \/ \E w \in Unlinkers : \/ Claim("primary", w)
                          \/ ReadEntry("primary", w)
                          \/ VisitUnlink(w)
                          \/ UnregisterNMethod(w)
                          \/ UnlinkNMethod(w)
  \/ \E w \in Markers : \/ Claim("secondary", w)
                        \/ ReadEntry("secondary", w)
                        \/ VisitYoung(w)
                        \/ VisitRemap(w)

Collect ==
  \/ OldMarkStart \/ OldMarkEnd
  \/ UnlinkBegin \/ UnlinkEnd
  \/ RendezvousGCThreads
  \/ \E n \in NMethods : PurgeNMethod(n)
  \/ PurgeEnd
  \/ YoungMarkStart \/ MarkYoungRoots \/ RemapYoungRoots \/ RootsEnd

Next == Mutator \/ Iterate \/ Collect

Spec == Init /\ [][Next]_vars

-----------------------------------------------------------------------------
(* Properties *)

\* The table holds each registered method once, where a search from its first
\* index finds it, and at least one empty entry, at which a search ends; the
\* counts that decide about its size are right
\* (ZNMethodTable::register_entry, unregister_entry, rebuild).
TableIsExact ==
  LET table == tables[_table]
      registered == {n \in NMethods : status[n] = "registered"}
  IN /\ _nregistered = Cardinality(registered)
     /\ _table # NoTable =>
          /\ \A n \in NMethods :
               Cardinality({i \in DOMAIN table : table[i] = n}) = IF n \in registered THEN 1 ELSE 0
          /\ \A n \in registered : \A i \in DOMAIN table :
               Distance(table, n, i) < Distance(table, n, FirstWith(table, n, {n}))
                 => table[i] # Empty
          /\ \E i \in DOMAIN table : table[i] = Empty
          /\ _nunregistered = Cardinality({i \in DOMAIN table : table[i] = Unregistered})

\* No worker has a method in its hands, and no mutator is entering one, that
\* has been freed; the table a worker reads has not been deleted
\* (ZGenerationOld::process_non_strong_references, ZSafeDelete).
NothingFreedIsSeen ==
  /\ \A w \in DOMAIN workers :
       workers[w].method # Nobody => status[workers[w].method] # "free"
  /\ \A m \in Mutators : calling[m] # Nobody => status[calling[m]] # "free"
  /\ \A it \in DOMAIN iterations :
       iterations[it].table # NoTable => tables[iterations[it].table] # Deleted

\* Marking's verdict stands until the method is freed: nobody disarms a method
\* with a dead oop, remapping, which does not ask, meets none, and when
\* unlinking has ended every one of them is unlinked
\* (ZNMethodUnlinkClosure, ZBarrierSetNMethod::nmethod_entry_barrier).
UnloadingIsFinal ==
  /\ dead \subseteq armed
  /\ old \in {"handshake", "purge"} => \A n \in dead : status[n] = "unlinked"
  /\ old \in {"purged", "idle", "marking"} => dead = {}

TypeOK ==
  /\ _table \in Tables \cup {NoTable}
  /\ _deferred.array \subseteq Tables
  /\ status \in [NMethods -> {"free", "registered", "unregistered", "unlinked"}]
  /\ armed \subseteq NMethods /\ dead \subseteq NMethods
  /\ calling \in [Mutators -> NMethods \cup {Nobody}]
  /\ unshaken \subseteq Mutators
=============================================================================

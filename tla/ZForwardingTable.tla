-------------------------- MODULE ZForwardingTable --------------------------
(***************************************************************************)
(* The lock-free hash table inside a ZForwarding: linear probing over an   *)
(* array whose slots are each written once, by a compare-and-swap from     *)
(* empty.  Any number of mutators and GC workers look an object up, copy   *)
(* it when they miss, and insert their copy at the cursor the lookup left  *)
(* behind; one copy wins.                                                  *)
(*                                                                         *)
(* The copy a thread made is named by the thread: it makes one at most per *)
(* object, since it finds the object afterwards.                           *)
(***************************************************************************)
EXTENDS Integers, FiniteSets

CONSTANTS Threads,     \* mutators and workers relocating objects of the page
          Keys,        \* from_index of each live object
          Hash,        \* ZHash::uint32_to_uint32 of each key
          NoKey,
          NoAddress

ASSUME TableAssumption ==
  /\ IsFiniteSet(Keys) /\ Keys # {}
  /\ Hash \in [Keys -> Nat]
  /\ NoKey \notin Keys
  /\ NoAddress \notin Threads

\* nentries: twice the live objects, rounded up to a power of 2.
RoundUpPowerOf2(n) == CHOOSE p \in {2^e : e \in 0..n} : n <= p /\ p < 2 * n
NEntries == RoundUpPowerOf2(2 * Cardinality(Keys))

VARIABLES
  entries,   \* _entries: the occupied slots with their ZForwardingEntry
  pc,        \* where each thread is
  key,       \* the object each thread is working on
  probe,     \* how far each thread's cursor is from the key's first slot
  result     \* the address find or insert returned

vars == <<entries, pc, key, probe, result>>

\* The slot the cursor of key k is at after i probes.
Slot(k, i) == (Hash[k] + i) % NEntries

Populated(s) == s \in DOMAIN entries

Init ==
  /\ entries = << >>
  /\ pc = [t \in Threads |-> "idle"]
  /\ key = [t \in Threads |-> NoKey]
  /\ probe = [t \in Threads |-> 0]
  /\ result = [t \in Threads |-> NoAddress]

Cursor(t) == Slot(key[t], probe[t])
Goto(t, label) == pc' = [pc EXCEPT ![t] = label]

\* first: start probing at the hash.
FindFirst(t, k) ==
  /\ pc[t] = "idle"
  /\ key' = [key EXCEPT ![t] = k]
  /\ probe' = [probe EXCEPT ![t] = 0]
  /\ Goto(t, "find")
  /\ UNCHANGED <<entries, result>>

\* The entry at the cursor is for another object: next.
Advance(t) ==
  /\ pc[t] \in {"find", "insert_probe"}
  /\ Populated(Cursor(t))
  /\ entries[Cursor(t)].from # key[t]
  /\ probe' = [probe EXCEPT ![t] = @ + 1]
  /\ UNCHANGED <<entries, pc, key, result>>

\* The entry at the cursor is for this object: return its address.
Match(t) ==
  /\ pc[t] \in {"find", "insert_probe"}
  /\ Populated(Cursor(t))
  /\ entries[Cursor(t)].from = key[t]
  /\ result' = [result EXCEPT ![t] = entries[Cursor(t)].to]
  /\ Goto(t, "return")
  /\ UNCHANGED <<entries, key, probe>>

\* The entry at the cursor is empty: the object is not forwarded, or the slot
\* to insert it at is found.
Miss(t) ==
  /\ pc[t] \in {"find", "insert_probe"}
  /\ ~Populated(Cursor(t))
  /\ Goto(t, "insert_cas")
  /\ UNCHANGED <<entries, key, probe, result>>

\* Mutant: a store instead of the compare-and-swap.
InsertStore(t) ==
  /\ pc[t] = "insert_cas"
  /\ entries' = [s \in DOMAIN entries \cup {Cursor(t)} |->
                   IF s = Cursor(t) THEN [from |-> key[t], to |-> t] ELSE entries[s]]
  /\ result' = [result EXCEPT ![t] = t]
  /\ Goto(t, "return")
  /\ UNCHANGED <<key, probe>>

\* insert: the compare-and-swap installs this thread's copy.
InsertWins(t) ==
  /\ pc[t] = "insert_cas"
  /\ ~Populated(Cursor(t))
  /\ entries' = [s \in DOMAIN entries \cup {Cursor(t)} |->
                   IF s = Cursor(t) THEN [from |-> key[t], to |-> t] ELSE entries[s]]
  /\ result' = [result EXCEPT ![t] = t]
  /\ Goto(t, "return")
  /\ UNCHANGED <<key, probe>>

\* Mutant: the loser returns its own copy.
InsertLosesKeepsCopy(t) ==
  /\ pc[t] = "insert_cas"
  /\ Populated(Cursor(t))
  /\ result' = [result EXCEPT ![t] = t]
  /\ Goto(t, "return")
  /\ UNCHANGED <<entries, key, probe>>

\* insert: somebody filled the slot first; look on from there.
InsertLoses(t) ==
  /\ pc[t] = "insert_cas"
  /\ Populated(Cursor(t))
  /\ Goto(t, "insert_probe")
  /\ UNCHANGED <<entries, key, probe, result>>

\* The call is over and its locals are gone.
Return(t) ==
  /\ pc' = [pc EXCEPT ![t] = "idle"]
  /\ key' = [key EXCEPT ![t] = NoKey]
  /\ probe' = [probe EXCEPT ![t] = 0]
  /\ result' = [result EXCEPT ![t] = NoAddress]
  /\ UNCHANGED entries

ReturnAddress(t) == pc[t] = "return" /\ Return(t)

\* A lookup that misses and inserts nothing: no page to copy to, or a caller
\* of find that does not relocate.
GiveUp(t) == pc[t] = "find" /\ ~Populated(Cursor(t)) /\ Return(t)

Step(t) ==
  \/ Advance(t) \/ Match(t) \/ Miss(t)
  \/ InsertWins(t) \/ InsertLoses(t)
  \/ ReturnAddress(t)

Next == \E t \in Threads : Step(t) \/ GiveUp(t) \/ \E k \in Keys : FindFirst(t, k)

\* A thread inside find or insert keeps running; it need not start.
Spec == Init /\ [][Next]_vars /\ \A t \in Threads : WF_vars(Step(t))
-----------------------------------------------------------------------------
Entry == [from : Keys, to : Threads]

TypeOK ==
  /\ entries \in [DOMAIN entries -> Entry]
  /\ pc \in [Threads -> {"idle", "find", "insert_cas", "insert_probe", "return"}]
  /\ key \in [Threads -> Keys \cup {NoKey}]
  /\ probe \in [Threads -> Nat]
  /\ result \in [Threads -> Threads \cup {NoAddress}]

\* The address the table forwards k to.
ForwardedTo(k) ==
  IF \E s \in DOMAIN entries : entries[s].from = k
  THEN entries[CHOOSE s \in DOMAIN entries : entries[s].from = k].to
  ELSE NoAddress

\* verify's "Duplicate from" (zForwarding.cpp:396): however the inserts of two
\* threads race, no object gets two entries.
NoDuplicates ==
  \A s, r \in DOMAIN entries : entries[s].from = entries[r].from => s = r

\* Every thread that asked for the object is told the same address: the one
\* in the table.
ResultIsForwarding ==
  \A t \in Threads : pc[t] = "return" => result[t] = ForwardedTo(key[t])

\* Probing cannot miss an entry: no thread's cursor has passed an entry of its
\* object, or an empty slot.
CursorNeverPasses ==
  \A t \in Threads :
    pc[t] \in {"find", "insert_probe", "insert_cas"} =>
      \A i \in 0..(probe[t] - 1) :
        Populated(Slot(key[t], i)) /\ entries[Slot(key[t], i)].from # key[t]

\* The table implements a map that is written once per object.
Map == INSTANCE ForwardingMap WITH
  Addresses <- Threads, forwardedTo <- [k \in Keys |-> ForwardedTo(k)]

ImplementsMap == Map!MapSpec
=============================================================================

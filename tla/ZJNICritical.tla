---------------------------- MODULE ZJNICritical ----------------------------
(***************************************************************************)
(* The count of Java threads inside a JNI critical region                  *)
(* (zJNICritical.cpp), which a collection blocks around its pauses: a      *)
(* positive count is the number of threads inside, a negative one says     *)
(* that a collection blocks the regions, or waits for -1, the last thread  *)
(* to leave.  The count is changed by compare-and-swap without the lock;   *)
(* the lock only guards the waiting.                                       *)
(***************************************************************************)
EXTENDS Integers, FiniteSets

CONSTANTS JavaThreads,
          Drivers,      \* threads that block: the two generations' drivers
          MaxDepth      \* bound on nested critical regions of a thread

CriticalAssumption ==
  /\ IsFiniteSet(JavaThreads)
  /\ JavaThreads \cap Drivers = {}
  /\ MaxDepth \in Nat

Entrants == JavaThreads \cup Drivers

VARIABLES _count,
          waiting,   \* threads inside _lock->wait()
          seen,      \* the count a thread has loaded
          depth,     \* nested critical regions of a Java thread
          pc

vars == <<_count, waiting, seen, depth, pc>>

Init ==
  /\ _count = 0
  /\ waiting = {}
  /\ seen = [t \in Entrants |-> 0]
  /\ depth = [t \in JavaThreads |-> 0]
  /\ pc = [t \in Entrants |-> "idle"]

Goto(t, label) == pc' = [pc EXCEPT ![t] = label]

\* The head of every retry loop: load the count and choose what to do.
LoadCount(t, from, ifBlocked, otherwise) ==
  /\ pc[t] = from
  /\ seen' = [seen EXCEPT ![t] = _count]
  /\ Goto(t, IF _count < 0 THEN ifBlocked ELSE otherwise)
  /\ UNCHANGED <<_count, waiting, depth>>

\* compare-and-swap of the loaded count, or load again.
CasCount(t, from, new, success, retry) ==
  /\ pc[t] = from
  /\ IF _count = seen[t]
       THEN _count' = new /\ Goto(t, success)
       ELSE UNCHANGED _count /\ Goto(t, retry)
  /\ UNCHANGED <<waiting, seen, depth>>

\* Under the lock: wait, or leave the loop once it is not blocked.
WaitWhile(t, from, blocked, to) ==
  /\ pc[t] = from
  /\ t \notin waiting
  /\ IF blocked
       THEN waiting' = waiting \cup {t} /\ UNCHANGED pc
       ELSE Goto(t, to) /\ UNCHANGED waiting
  /\ UNCHANGED <<_count, seen, depth>>

\* A wait may end without a notification.
SpuriousWakeup(t) ==
  /\ t \in waiting
  /\ waiting' = waiting \ {t}
  /\ UNCHANGED <<_count, seen, depth, pc>>

-----------------------------------------------------------------------------
(* Java threads.                                                           *)

\* enter: a nested region only counts itself.
EnterNested(t) ==
  /\ pc[t] = "idle"
  /\ depth[t] \in 1 .. MaxDepth - 1
  /\ depth' = [depth EXCEPT ![t] = @ + 1]
  /\ UNCHANGED <<_count, waiting, seen, pc>>
Enter(t) ==
  /\ pc[t] = "idle"
  /\ depth[t] = 0
  /\ Goto(t, "enter_inner")
  /\ UNCHANGED <<_count, waiting, seen, depth>>
EnterLoad(t) == LoadCount(t, "enter_inner", "enter_wait", "enter_cas")
EnterWait(t) == WaitWhile(t, "enter_wait", _count < 0, "enter_inner")
EnterCas(t) == CasCount(t, "enter_cas", seen[t] + 1, "entered", "enter_inner")
Entered(t) ==
  /\ pc[t] = "entered"
  /\ depth' = [depth EXCEPT ![t] = 1]
  /\ Goto(t, "idle")
  /\ UNCHANGED <<_count, waiting, seen>>

\* exit
Exit(t) ==
  /\ pc[t] = "idle"
  /\ depth[t] > 0
  /\ depth' = [depth EXCEPT ![t] = @ - 1]
  /\ Goto(t, IF depth[t] = 1 THEN "exit_inner" ELSE "idle")
  /\ UNCHANGED <<_count, waiting, seen>>
ExitLoad(t) == LoadCount(t, "exit_inner", "exit_blocked", "exit_cas")
ExitCas(t) == CasCount(t, "exit_cas", seen[t] - 1, "idle", "exit_inner")
\* A defect: the last thread to leave does not notify.
ExitSilently(t) == CasCount(t, "exit_blocked", seen[t] + 1, "idle", "exit_inner")
\* The last thread to leave tells the one that blocks.
ExitBlocked(t) ==
  CasCount(t, "exit_blocked", seen[t] + 1,
           IF seen[t] = -2 THEN "notify" ELSE "idle", "exit_inner")
Notify(t) ==
  /\ pc[t] = "notify"
  /\ waiting' = {}
  /\ Goto(t, "idle")
  /\ UNCHANGED <<_count, seen, depth>>

-----------------------------------------------------------------------------
(* Drivers.                                                                *)

Block(d) ==
  /\ pc[d] = "idle"
  /\ Goto(d, "block")
  /\ UNCHANGED <<_count, waiting, seen, depth>>
BlockLoad(d) == LoadCount(d, "block", "block_others", "block_cas")
BlockOthers(d) == WaitWhile(d, "block_others", _count < 0, "block")
BlockCas(d) ==
  CasCount(d, "block_cas", -(seen[d] + 1),
           IF seen[d] # 0 THEN "block_wait" ELSE "blocked", "block")
BlockWait(d) == WaitWhile(d, "block_wait", _count # -1, "blocked")

\* unblock stores and notifies under the lock.
Unblock(d) ==
  /\ pc[d] = "blocked"
  /\ _count' = 0
  /\ waiting' = {}
  /\ Goto(d, "idle")
  /\ UNCHANGED <<seen, depth>>

JavaThread(t) ==
  \/ EnterNested(t) \/ Enter(t) \/ EnterLoad(t) \/ EnterWait(t) \/ EnterCas(t) \/ Entered(t)
  \/ Exit(t) \/ ExitLoad(t) \/ ExitCas(t) \/ ExitBlocked(t) \/ Notify(t)
Driver(d) ==
  Block(d) \/ BlockLoad(d) \/ BlockOthers(d) \/ BlockCas(d) \/ BlockWait(d) \/ Unblock(d)

Next ==
  \/ \E t \in JavaThreads : JavaThread(t)
  \/ \E d \in Drivers : Driver(d)
  \/ \E t \in Entrants : SpuriousWakeup(t)

Spec == Init /\ [][Next]_vars

-----------------------------------------------------------------------------
\* A thread is inside from the moment it is counted until it is not.
Inside(t) == depth[t] > 0 \/ pc[t] \in {"entered", "exit_inner", "exit_cas", "exit_blocked"}

\* While a collection has blocked the regions (zJNICritical.cpp:42-44) no
\* thread is inside one, and only one collection has.
BlockedIsExclusive ==
  \A d \in Drivers : pc[d] = "blocked" =>
    /\ \A t \in JavaThreads : ~Inside(t)
    /\ \A e \in Drivers \ {d} : pc[e] # "blocked"

\* Nobody sleeps on a condition that holds, unless a notification is on its
\* way: the count is changed outside the lock, so a wake-up could be lost.
NoLostWakeup ==
  \A t \in waiting :
    \/ pc[t] = "block_wait" /\ (_count # -1 \/ \E j \in JavaThreads : pc[j] = "notify")
    \/ pc[t] \in {"enter_wait", "block_others"} /\ _count < 0
=============================================================================

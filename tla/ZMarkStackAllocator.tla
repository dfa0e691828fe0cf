------------------------ MODULE ZMarkStackAllocator ------------------------
(***************************************************************************)
(* The memory of the mark stacks (zMarkStackAllocator.cpp, zMarkStack.cpp).*)
(* Stacks come from a space that grows by compare-and-swap, in magazines:  *)
(* a magazine is a stack that holds stacks.  Full stacks travel through    *)
(* lock-free lists from the thread that publishes them to the one that     *)
(* steals them, emptied stacks gather in the thief's magazine, and full    *)
(* magazines go back to a free list.  All lists are versioned, because a   *)
(* stack that was popped may come back as the head of the same list while  *)
(* another thread still holds its old link.                                *)
(*                                                                         *)
(* A stack is named by its address, in stacks from the start of the space. *)
(* There is one stripe; marking entries are only counted.                  *)
(***************************************************************************)
EXTENDS Integers, Sequences, SequencesExt

CONSTANTS Workers, Mutators,
          Slots,           \* entries in a stack
          MagazineSlots,   \* ZMarkStackMagazineSlots
          ExpandSize,      \* ZMarkStackSpaceExpandSize, in stacks
          SpaceLimit,      \* ZMarkStackSpaceLimit, in stacks
          MaxPushes        \* bound on entries pushed

StackThreads == Workers \cup Mutators
Null == -1
Unlocked == "unlocked"
MagazineSize == MagazineSlots + 1
Stacks == 0 .. SpaceLimit - 1

VARIABLES
  _top, _end, _expand_lock,     \* ZMarkStackSpace
  head,       \* _head of each list, with its version
  next,       \* _next of each stack
  entries,    \* entries in each stack
  contents,   \* what each magazine holds, oldest first
  installed,  \* _stacks[stripe] of each thread
  magazine,   \* _magazine of each thread
  pc,
  list,       \* the list a thread pushes to or pops from
  seen,       \* the versioned head it has loaded
  link,       \* the next it has read, or the top of the space
  then,       \* where a thread goes on
  pushes

spaceVars == <<_top, _end, _expand_lock>>
stackVars == <<next, entries, contents>>
localVars == <<installed, magazine>>
callVars  == <<list, seen, link, then>>

vars == <<spaceVars, head, stackVars, localVars, pc, callVars, pushes>>

Lists == {"freelist", "published", "overflowed"}

\* The locals of a call that is over.
NoHead == [stack |-> Null, version |-> 0]
Forget(t) == seen' = [seen EXCEPT ![t] = NoHead] /\ link' = [link EXCEPT ![t] = Null]

Init ==
  /\ _top = 0 /\ _end = ExpandSize /\ _expand_lock = Unlocked
  /\ head = [l \in Lists |-> [stack |-> Null, version |-> 0]]
  /\ next = [s \in Stacks |-> Null]
  /\ entries = [s \in Stacks |-> 0]
  /\ contents = [s \in Stacks |-> <<>>]
  /\ installed = [t \in StackThreads |-> Null]
  /\ magazine = [t \in StackThreads |-> Null]
  /\ pc = [t \in StackThreads |-> "idle"]
  /\ list = [t \in StackThreads |-> "freelist"]
  /\ seen = [t \in StackThreads |-> NoHead]
  /\ link = [t \in StackThreads |-> Null]
  /\ then = [t \in StackThreads |-> "idle"]
  /\ pushes = 0

Goto(t, label) == pc' = [pc EXCEPT ![t] = label]

-----------------------------------------------------------------------------
(* ZStackList.                                                             *)

\* What a thread pushes: its magazine to the free list, else its stack.
Node(t) == IF list[t] = "freelist" THEN magazine[t] ELSE installed[t]

Push(t, l, continue) ==
  /\ list' = [list EXCEPT ![t] = l]
  /\ then' = [then EXCEPT ![t] = continue]
  /\ Goto(t, "push_load")

PushLoad(t) ==
  /\ pc[t] = "push_load"
  /\ seen' = [seen EXCEPT ![t] = head[list[t]]]
  /\ next' = [next EXCEPT ![Node(t)] = head[list[t]].stack]
  /\ Goto(t, "push_cas")
  /\ UNCHANGED <<spaceVars, head, entries, contents, localVars, list, link, then, pushes>>

PushCas(t) ==
  /\ pc[t] = "push_cas"
  /\ IF head[list[t]] = seen[t]
       THEN /\ head' = [head EXCEPT ![list[t]] =
                          [stack |-> Node(t), version |-> seen[t].version + 1]]
            /\ IF list[t] = "freelist"
                 THEN magazine' = [magazine EXCEPT ![t] = Null] /\ UNCHANGED installed
                 ELSE installed' = [installed EXCEPT ![t] = Null] /\ UNCHANGED magazine
            /\ Goto(t, then[t])
            /\ list' = [list EXCEPT ![t] = "freelist"]
            /\ then' = [then EXCEPT ![t] = "idle"]
       ELSE /\ Goto(t, "push_load")
            /\ UNCHANGED <<head, localVars, list, then>>
  /\ Forget(t)
  /\ UNCHANGED <<spaceVars, stackVars, pushes>>

Pop(t, l) ==
  /\ list' = [list EXCEPT ![t] = l]
  /\ Goto(t, "pop_load")

\* The head is empty: alloc_magazine turns to the space; steal_stack to the
\* other list of the stripe.
PopLoad(t) ==
  /\ pc[t] = "pop_load"
  /\ IF head[list[t]].stack # Null
       THEN /\ seen' = [seen EXCEPT ![t] = head[list[t]]]
            /\ Goto(t, "pop_next")
            /\ UNCHANGED list
       ELSE /\ CASE list[t] = "freelist"   -> Goto(t, "space_top") /\ UNCHANGED list
                 [] list[t] = "overflowed" -> Pop(t, "published")
                 [] list[t] = "published"  -> /\ Goto(t, "idle")
                                              /\ list' = [list EXCEPT ![t] = "freelist"]
            /\ UNCHANGED seen
  /\ UNCHANGED <<spaceVars, head, stackVars, localVars, link, then, pushes>>

PopNext(t) ==
  /\ pc[t] = "pop_next"
  /\ link' = [link EXCEPT ![t] = next[seen[t].stack]]
  /\ Goto(t, "pop_cas")
  /\ UNCHANGED <<spaceVars, head, stackVars, localVars, list, seen, then, pushes>>

\* The popped stack is installed, or becomes the magazine.
PopSucceeds(t) ==
  /\ list' = [list EXCEPT ![t] = "freelist"]
  /\ head' = [head EXCEPT ![list[t]] = [stack |-> link[t], version |-> seen[t].version + 1]]
  /\ IF list[t] = "freelist"
       THEN /\ magazine' = [magazine EXCEPT ![t] = seen[t].stack]
            /\ Goto(t, "alloc")
            /\ UNCHANGED installed
       ELSE /\ installed' = [installed EXCEPT ![t] = seen[t].stack]
            /\ Goto(t, "pop")
            /\ UNCHANGED magazine

PopCas(t) ==
  /\ pc[t] = "pop_cas"
  /\ IF head[list[t]] = seen[t]
       THEN PopSucceeds(t)
       ELSE Goto(t, "pop_load") /\ UNCHANGED <<head, localVars, list>>
  /\ Forget(t)
  /\ UNCHANGED <<spaceVars, stackVars, then, pushes>>

-----------------------------------------------------------------------------
(* ZMarkStackSpace.                                                        *)

\* alloc_space: load top,
SpaceTop(t) ==
  /\ pc[t] = "space_top"
  /\ link' = [link EXCEPT ![t] = _top]
  /\ Goto(t, "space_end")
  /\ UNCHANGED <<spaceVars, head, stackVars, localVars, list, seen, then, pushes>>

\* compare with end; the one who holds the lock expands,
SpaceEnd(t) ==
  /\ pc[t] = "space_end"
  /\ Goto(t, IF link[t] + MagazineSize <= _end THEN "space_cas"
             ELSE IF _expand_lock = t THEN "expand" ELSE "expand_lock")
  /\ UNCHANGED <<spaceVars, head, stackVars, localVars, callVars, pushes>>

\* create_magazine_from_space: the first stack holds the others.
CreateMagazine(t, addr) ==
  /\ magazine' = [magazine EXCEPT ![t] = addr]
  /\ contents' = [contents EXCEPT ![addr] = [i \in 1 .. MagazineSlots |-> addr + i]]
  /\ next' = [s \in Stacks |-> IF s \in addr .. addr + MagazineSlots THEN Null ELSE next[s]]
  /\ Forget(t)
  /\ _expand_lock' = IF _expand_lock = t THEN Unlocked ELSE _expand_lock
  /\ Goto(t, "alloc")

\* and swap; the value found is tried next.
SpaceCas(t) ==
  /\ pc[t] = "space_cas"
  /\ IF _top = link[t]
       THEN /\ _top' = _top + MagazineSize
            /\ CreateMagazine(t, link[t])
       ELSE /\ link' = [link EXCEPT ![t] = _top]
            /\ Goto(t, "space_end")
            /\ UNCHANGED <<_top, _expand_lock, next, contents, magazine, seen>>
  /\ UNCHANGED <<_end, head, entries, installed, list, then, pushes>>

\* expand_and_alloc_space: take the lock and try again,
ExpandLock(t) ==
  /\ pc[t] = "expand_lock"
  /\ _expand_lock = Unlocked
  /\ _expand_lock' = t
  /\ Goto(t, "space_top")
  /\ UNCHANGED <<_top, _end, head, stackVars, localVars, callVars, pushes>>

\* move top first, so that nobody takes the new space; the limit is fatal,
ExpandTop(t) ==
  /\ pc[t] = "expand"
  /\ _end + ExpandSize <= SpaceLimit
  /\ link' = [link EXCEPT ![t] = _top]
  /\ _top' = _top + MagazineSize
  /\ Goto(t, "expand_end")
  /\ UNCHANGED <<_end, _expand_lock, head, stackVars, localVars, list, seen, then, pushes>>

\* and end afterwards.
ExpandEnd(t) ==
  /\ pc[t] = "expand_end"
  /\ _end' = _end + ExpandSize
  /\ CreateMagazine(t, link[t])
  /\ UNCHANGED <<_top, head, entries, installed, list, then, pushes>>

-----------------------------------------------------------------------------
(* ZMarkThreadLocalStacks.                                                 *)

\* Mutators publish, workers overflow.
StripeList(t) == IF t \in Mutators THEN "published" ELSE "overflowed"

\* push: into the installed stack, or through push_slow.
PushEntry(t) ==
  /\ pc[t] = "idle"
  /\ pushes < MaxPushes
  /\ pushes' = pushes + 1
  /\ IF installed[t] # Null /\ entries[installed[t]] < Slots
       THEN /\ entries' = [entries EXCEPT ![installed[t]] = @ + 1]
            /\ UNCHANGED <<pc, list, then>>
       ELSE /\ IF installed[t] = Null
                 THEN Goto(t, "alloc") /\ UNCHANGED <<list, then>>
                 ELSE Push(t, StripeList(t), "alloc")
            /\ UNCHANGED entries
  /\ UNCHANGED <<spaceVars, head, next, contents, localVars, seen, link>>

\* allocate_stack, and the push that follows: a stack of the magazine, or an
\* empty magazine itself.
AllocateStack(t) ==
  /\ pc[t] = "alloc"
  /\ IF magazine[t] = Null
       THEN /\ Pop(t, "freelist")
            /\ UNCHANGED <<stackVars, localVars>>
       ELSE LET m == magazine[t]
                s == IF contents[m] = <<>> THEN m ELSE Last(contents[m])
            IN  /\ IF s = m
                     THEN /\ magazine' = [magazine EXCEPT ![t] = Null]
                          /\ next' = [next EXCEPT ![m] = Null]
                          /\ UNCHANGED contents
                     ELSE /\ contents' = [contents EXCEPT ![m] = Front(@)]
                          /\ UNCHANGED <<magazine, next>>
                /\ installed' = [installed EXCEPT ![t] = s]
                /\ entries' = [entries EXCEPT ![s] = 1]
                /\ Goto(t, "idle")
                /\ UNCHANGED list
  /\ UNCHANGED <<spaceVars, head, seen, link, then, pushes>>

\* free_stack: into the magazine, as the magazine, or after the full magazine
\* has gone to the free list.
FreeStack(t) ==
  IF magazine[t] # Null /\ Len(contents[magazine[t]]) = MagazineSlots
    THEN /\ Push(t, "freelist", pc[t])
         /\ UNCHANGED <<next, contents, localVars>>
    ELSE /\ IF magazine[t] = Null
              THEN /\ magazine' = [magazine EXCEPT ![t] = installed[t]]
                   /\ contents' = [contents EXCEPT ![installed[t]] = <<>>]
                   /\ next' = [next EXCEPT ![installed[t]] = Null]
              ELSE /\ contents' = [contents EXCEPT ![magazine[t]] = Append(@, installed[t])]
                   /\ UNCHANGED <<magazine, next>>
         /\ installed' = [installed EXCEPT ![t] = Null]
         /\ UNCHANGED <<pc, list, then>>

\* pop of a worker, and the loop of pop_slow.
PopEntry(w) ==
  /\ pc[w] = "idle"
  /\ Goto(w, "pop")
  /\ UNCHANGED <<spaceVars, head, stackVars, localVars, callVars, pushes>>
PopInstalled(w) ==
  /\ pc[w] = "pop"
  /\ installed[w] # Null
  /\ IF entries[installed[w]] > 0
       THEN /\ entries' = [entries EXCEPT ![installed[w]] = @ - 1]
            /\ Goto(w, "idle")
            /\ UNCHANGED <<next, contents, localVars, list, then>>
       ELSE FreeStack(w) /\ UNCHANGED entries
  /\ UNCHANGED <<spaceVars, head, seen, link, pushes>>
StealStack(w) ==
  /\ pc[w] = "pop"
  /\ installed[w] = Null
  /\ Pop(w, "overflowed")
  /\ UNCHANGED <<spaceVars, head, stackVars, localVars, seen, link, then, pushes>>

\* flush and free: publish or free the stack, then free the magazine.
Flush(t) ==
  /\ pc[t] \in {"idle", "flush"}
  /\ IF installed[t] # Null
       THEN IF entries[installed[t]] = 0
              THEN FreeStack(t)
              ELSE /\ Push(t, "published", "flush")
                   /\ UNCHANGED <<next, contents, localVars>>
       ELSE IF magazine[t] # Null
              THEN /\ Push(t, "freelist", "flush")
                   /\ UNCHANGED <<next, contents, localVars>>
              ELSE /\ pc[t] = "flush"
                   /\ Goto(t, "idle")
                   /\ UNCHANGED <<next, contents, localVars, list, then>>
  /\ UNCHANGED <<spaceVars, head, entries, seen, link, pushes>>

Quiescent ==
  /\ \A t \in StackThreads : pc[t] = "idle" /\ installed[t] = Null /\ magazine[t] = Null
  /\ head["published"].stack = Null /\ head["overflowed"].stack = Null

\* ZMarkStackAllocator::free, at the end of marking: the free list and the
\* space start over, and the space keeps what was used.
Free ==
  /\ Quiescent
  /\ _top > 0
  /\ head' = [head EXCEPT !["freelist"] = [stack |-> Null, version |-> 0]]
  /\ _top' = 0
  /\ _end' = ((_top + ExpandSize - 1) \div ExpandSize) * ExpandSize
  /\ UNCHANGED <<_expand_lock, stackVars, localVars, pc, callVars, pushes>>

Step(t) ==
  \/ PushLoad(t) \/ PushCas(t) \/ PopLoad(t) \/ PopNext(t) \/ PopCas(t)
  \/ SpaceTop(t) \/ SpaceEnd(t) \/ SpaceCas(t)
  \/ ExpandLock(t) \/ ExpandTop(t) \/ ExpandEnd(t)
  \/ PushEntry(t) \/ AllocateStack(t) \/ Flush(t)
  \/ t \in Workers /\ (PopEntry(t) \/ PopInstalled(t) \/ StealStack(t))

Next == (\E t \in StackThreads : Step(t)) \/ Free

-----------------------------------------------------------------------------
\* The stacks of a list from its head on, no longer than there are stacks.
Chain(l) ==
  LET c[n \in 0 .. SpaceLimit] ==
        IF n = 0 \/ head[l].stack = Null THEN <<head[l].stack>>
        ELSE IF Last(c[n - 1]) = Null THEN c[n - 1]
        ELSE Append(c[n - 1], next[Last(c[n - 1])])
  IN  SelectSeq(c[SpaceLimit], LAMBDA s : s # Null)
WithContents(magazines) ==
  magazines \o FlattenSeq([i \in DOMAIN magazines |-> contents[magazines[i]]])
Locals(place) == SelectSeq(SetToSeq({<<t, place[t]>> : t \in StackThreads}), LAMBDA p : p[2] # Null)
Held(place) == [i \in DOMAIN Locals(place) |-> Locals(place)[i][2]]

\* Every stack and where it is.
Holdings ==
  Chain("published") \o Chain("overflowed") \o Held(installed)
    \o WithContents(Chain("freelist")) \o WithContents(Held(magazine))

\* No stack is in two hands, whatever is popped and pushed back while another
\* thread is between its load and its compare-and-swap; none is outside the
\* space; and when no thread is inside the allocator none is lost.
StacksAreHeldOnce ==
  /\ IsInjective(Holdings)
  /\ ToSet(Holdings) \subseteq 0 .. _top - 1
  /\ (\A t \in StackThreads : pc[t] = "idle") => ToSet(Holdings) = 0 .. _top - 1
=============================================================================

---------------------------- MODULE ZMark_proofs ----------------------------
(***************************************************************************)
(* Proofs about ZMark, for any number of workers, stripes and objects:     *)
(* when marking ends, what the mutator can still reach is marked.          *)
(*                                                                         *)
(* First what the operations on stacks do: whoever pushes, publishes,      *)
(* steals or flushes, no entry is lost.  Then the invariant and, step by   *)
(* step of the workers, the coordinator and the mutator, that it is kept.  *)
(***************************************************************************)
EXTENDS ZMark, FiniteSetTheorems, WellFoundedInduction, TLAPS

Objects == DOMAIN instance.fields
ToMark(o) == Entry(o, TRUE, FALSE)
ToFollow(o) == Entry(o, FALSE, TRUE)
Entries == {ToMark(o) : o \in Objects} \cup {ToFollow(o) : o \in Objects}
Holding == {"mark", "follow", "child", "heal"}
PCs == Holding \cup
       {"idle", "drain", "pop", "next", "rebalanced", "steal", "proactive", "terminate",
        "waiting", "woken", "end"}
Stages == {"none", "handshake", "handshaking", "vm", "vmflush", "result"}
StripeNumbers == {n \in StripeCounts : n <= StripesMax}

HeapOK ==
  /\ DOMAIN heap = Objects
  /\ \A o \in Objects : /\ heap[o] = [to |-> heap[o].to, good |-> heap[o].good]
                        /\ heap[o].to \in Objects \cup {Null} /\ heap[o].good \in BOOLEAN

IsStacks(mine) ==
  DOMAIN mine \subseteq Stripes /\ \A s \in DOMAIN mine : mine[s] \in Seq(Entries)
\* a stack on a list holds something
Listed == Seq(Entries) \ {<<>>}
StacksOK ==
  /\ DOMAIN stacks = Threads /\ \A t \in Threads : IsStacks(stacks[t])
  /\ DOMAIN published = Stripes /\ \A s \in Stripes : published[s] \in Seq(Listed)
  /\ DOMAIN overflowed = Stripes /\ \A s \in Stripes : overflowed[s] \in Seq(Listed)

ControlOK ==
  /\ nstripes \in StripeNumbers
  /\ term = [nworkers |-> term.nworkers, nworking |-> term.nworking,
             nawakening |-> term.nawakening, resurrected |-> term.resurrected]
  /\ term.nworkers \in 1..MaxWorkers
  /\ DOMAIN ctx = Workers /\ DOMAIN cur = Workers /\ DOMAIN pc = Workers
  /\ \A w \in Workers :
       /\ ctx[w] = [stripe |-> ctx[w].stripe, nstripes |-> ctx[w].nstripes,
                    processed |-> ctx[w].processed]
       /\ ctx[w].stripe \in Stripes
       /\ cur[w] = [obj |-> cur[w].obj, mark |-> cur[w].mark, incLive |-> cur[w].incLive,
                    child |-> cur[w].child]
       /\ pc[w] \in PCs
  /\ DOMAIN flush = Threads
  /\ flushOp = [by |-> flushOp.by, stage |-> flushOp.stage, flushed |-> flushOp.flushed]
  /\ flushOp.stage \in Stages
  /\ requested \in 0..MaxWorkers
  /\ phase \in {"start", "follow", "flush", "end", "done"}

TypeOK ==
  /\ instance \in Instances
  /\ HeapOK
  /\ marked \subseteq Objects /\ Roots \subseteq marked
  /\ StacksOK
  /\ ControlOK
  /\ local \in Objects \cup {Null}
  /\ buffer \in Seq(Objects)

Within(e, stack) == \E i \in DOMAIN stack : stack[i] = e
InStacks(e) == \E t \in Threads : \E s \in DOMAIN stacks[t] : Within(e, stacks[t][s])
InPublished(e) == \E s \in Stripes : \E j \in DOMAIN published[s] : Within(e, published[s][j])
InOverflowed(e) == \E s \in Stripes : \E j \in DOMAIN overflowed[s] : Within(e, overflowed[s][j])
Pending(e) == InStacks(e) \/ InPublished(e) \/ InOverflowed(e)
-----------------------------------------------------------------------------
LEMMA LeastNumber ==
  ASSUME NEW T, T \subseteq Nat, T # {}
  PROVE  \E x \in T : \A y \in T : x <= y
<1> DEFINE R == {ss \in Nat \X Nat : ss[1] < ss[2]}
<1>1. IsWellFoundedOn(OpToRel(<, Nat), Nat)
  BY ONLY NatLessThanWellFounded, Zenon
<1>2. OpToRel(<, Nat) = R
  BY Zenon DEF OpToRel
<1>3. IsWellFoundedOn(R, Nat)
  BY ONLY <1>1, <1>2, Zenon
<1> HIDE DEF R
<1>4. PICK x \in T : \A y \in T : ~(<<y, x>> \in R)
  BY <1>3, WFMin
<1>5. ASSUME NEW y \in T PROVE x <= y
  <2>1. ~(<<y, x>> \in R) /\ x \in Nat /\ y \in Nat
    BY <1>4
  <2>2. ~(y < x)
    BY <2>1 DEF R
  <2> QED BY <2>1, <2>2
<1> QED BY <1>5

LEMMA MinOf ==
  ASSUME NEW T, T \subseteq Nat, T # {}
  PROVE  Min(T) \in T
BY LeastNumber DEF Min

LEMMA InstallIs ==
  ASSUME NEW mine, NEW s, NEW stack
  PROVE  /\ DOMAIN Install(mine, s, stack) = DOMAIN mine \cup {s}
         /\ Install(mine, s, stack)[s] = stack
         /\ \A x \in DOMAIN mine \ {s} : Install(mine, s, stack)[x] = mine[x]
BY DEF Install

LEMMA InstallTyped ==
  ASSUME NEW mine, IsStacks(mine), NEW s \in Stripes, NEW stack \in Seq(Entries)
  PROVE  IsStacks(Install(mine, s, stack))
BY DEF Install, IsStacks

LEMMA WithoutTyped ==
  ASSUME NEW mine, IsStacks(mine), NEW s
  PROVE  /\ IsStacks(Without(mine, s))
         /\ DOMAIN Without(mine, s) = DOMAIN mine \ {s}
         /\ \A x \in DOMAIN mine \ {s} : Without(mine, s)[x] = mine[x]
BY DEF Without, IsStacks

LEMMA AppendIs ==
  ASSUME NEW S, NEW q \in Seq(S), NEW e \in S
  PROVE  /\ Append(q, e) \in Seq(S) /\ Within(e, Append(q, e))
         /\ \A x : Within(x, q) => Within(x, Append(q, e))
<1>1. Append(q, e) \in Seq(S) /\ Append(q, e)[Len(q) + 1] = e
      /\ \A i \in 1..Len(q) : Append(q, e)[i] = q[i]
  OBVIOUS
<1>2. DOMAIN Append(q, e) = 1..Len(q) + 1 /\ DOMAIN q = 1..Len(q) /\ Len(q) \in Nat
  OBVIOUS
<1> QED BY <1>1, <1>2 DEF Within

LEMMA FrontIs ==
  ASSUME NEW S, NEW q \in Seq(S), q # <<>>
  PROVE  /\ Front(q) \in Seq(S) /\ Last(q) \in S
         /\ \A x : Within(x, q) => x = Last(q) \/ Within(x, Front(q))
<1>1. Len(q) \in Nat /\ Len(q) # 0 /\ DOMAIN q = 1..Len(q)
  OBVIOUS
<1>2. Front(q) \in Seq(S) /\ Len(Front(q)) = Len(q) - 1
      /\ \A i \in 1..Len(q) - 1 : Front(q)[i] = q[i]
  BY <1>1 DEF Front
<1>3. DOMAIN Front(q) = 1..Len(q) - 1
  BY <1>1, <1>2
<1>4. Last(q) \in S /\ Last(q) = q[Len(q)]
  BY <1>1 DEF Last
<1>5. ASSUME NEW x, NEW i \in DOMAIN q, q[i] = x PROVE x = Last(q) \/ Within(x, Front(q))
  <2>1. CASE i = Len(q)
    BY <2>1, <1>4, <1>5
  <2>2. CASE i # Len(q)
    <3>1. i \in DOMAIN Front(q) /\ Front(q)[i] = x
      BY <2>2, <1>1, <1>2, <1>3, <1>5
    <3> QED BY <3>1 DEF Within
  <2> QED BY <2>1, <2>2
<1> QED BY <1>2, <1>4, <1>5 DEF Within

\* A stack put before a list.
LEMMA ConsIs ==
  ASSUME NEW S, NEW q \in Seq(S), NEW e \in S
  PROVE  /\ Cons(e, q) \in Seq(S) /\ Cons(e, q) # <<>>
         /\ \E j \in DOMAIN Cons(e, q) : Cons(e, q)[j] = e
         /\ \A i \in DOMAIN q : \E j \in DOMAIN Cons(e, q) : Cons(e, q)[j] = q[i]
<1>1. Len(q) \in Nat /\ DOMAIN q = 1..Len(q)
  OBVIOUS
<1>2. Cons(e, q) \in Seq(S) /\ Len(Cons(e, q)) = Len(q) + 1
  BY DEF Cons
<1>3. DOMAIN Cons(e, q) = 1..Len(q) + 1
  BY <1>1, <1>2
<1>4. Cons(e, q)[1] = e /\ \A i \in 1..Len(q) : Cons(e, q)[i + 1] = q[i]
  BY DEF Cons
<1>5. Cons(e, q) # <<>>
  BY <1>1, <1>2
<1>6. ASSUME NEW i \in DOMAIN q
      PROVE  \E j \in DOMAIN Cons(e, q) : Cons(e, q)[j] = q[i]
  <2>1. i + 1 \in DOMAIN Cons(e, q)
    BY <1>1, <1>3
  <2>2. Cons(e, q)[i + 1] = q[i]
    BY <1>1, <1>4
  <2> QED BY <2>1, <2>2
<1>7. 1 \in DOMAIN Cons(e, q)
  BY <1>1, <1>3
<1> QED BY <1>2, <1>4, <1>5, <1>6, <1>7

\* The first stack of a list, and the rest.
LEMMA TailIs ==
  ASSUME NEW S, NEW q \in Seq(S), q # <<>>
  PROVE  /\ Head(q) \in S /\ Tail(q) \in Seq(S)
         /\ \A i \in DOMAIN q : q[i] = Head(q) \/ \E j \in DOMAIN Tail(q) : Tail(q)[j] = q[i]
<1>1. Len(q) \in Nat /\ Len(q) # 0 /\ DOMAIN q = 1..Len(q)
  OBVIOUS
<1>2. Head(q) \in S /\ Head(q) = q[1] /\ Tail(q) \in Seq(S) /\ Len(Tail(q)) = Len(q) - 1
      /\ \A i \in 1..Len(q) - 1 : Tail(q)[i] = q[i + 1]
  BY <1>1
<1>3. DOMAIN Tail(q) = 1..Len(q) - 1
  BY <1>1, <1>2
<1>4. ASSUME NEW i \in DOMAIN q
      PROVE  q[i] = Head(q) \/ \E j \in DOMAIN Tail(q) : Tail(q)[j] = q[i]
  <2>1. CASE i = 1
    BY <2>1, <1>2
  <2>2. CASE i # 1
    <3>1. i - 1 \in 1..Len(q) - 1 /\ (i - 1) + 1 = i
      BY <2>2, <1>1
    <3>2. Tail(q)[i - 1] = q[i]
      BY <3>1, <1>2
    <3> QED BY <3>1, <3>2, <1>3
  <2> QED BY <2>1, <2>2
<1> QED BY <1>2, <1>4
-----------------------------------------------------------------------------
\* Stripes: their number is a power of two, and what is pushed lands on one.
LEMMA StripeNumber ==
  ASSUME NEW n \in StripeNumbers
  PROVE  /\ n \in Nat /\ n >= 1 /\ n <= StripesMax /\ StripesMax \in Nat
         /\ 0..n - 1 \subseteq Stripes
BY MarkAssumption DEF StripeNumbers, StripeCounts, Stripes

LEMMA Calculated ==
  ASSUME NEW n \in Nat, n >= 1
  PROVE  CalculateNStripes(n) \in StripeNumbers
<1> DEFINE T == {m \in StripeCounts : m <= n /\ m <= StripesMax}
           S == {16 - m : m \in T}
<1>1. 1 \in T
  BY MarkAssumption DEF StripeCounts
<1>2. S \subseteq Nat /\ 15 \in S
  BY <1>1 DEF StripeCounts
<1>3. PICK x \in S : \A y \in S : x <= y
  <2> HIDE DEF S
  <2> QED BY <1>2, LeastNumber
<1>4. PICK m \in T : x = 16 - m
  OBVIOUS
<1>5. ASSUME NEW k \in T PROVE m >= k
  <2>1. 16 - k \in S
    OBVIOUS
  <2>2. x <= 16 - k
    BY <1>3, <2>1
  <2>3. m \in Nat /\ k \in Nat
    BY DEF StripeCounts
  <2> QED BY <1>4, <2>2, <2>3
<1>6. Max(T) \in T
  <2> HIDE DEF T
  <2> QED BY <1>5 DEF Max
<1> QED BY <1>6 DEF CalculateNStripes, StripeNumbers

LEMMA Doubled ==
  ASSUME NEW n \in StripeNumbers, NEW c \in StripeNumbers, n < c
  PROVE  2 * n \in StripeNumbers
BY MarkAssumption DEF StripeNumbers, StripeCounts

LEMMA Halved ==
  ASSUME NEW n \in StripeNumbers, n > 1
  PROVE  n \div 2 \in StripeNumbers
<1>1. n \in {2, 4, 8, 16} /\ n <= StripesMax
  BY DEF StripeNumbers, StripeCounts
<1>2. n \div 2 \in StripeCounts /\ n \div 2 <= n /\ n \in Nat /\ n \div 2 \in Nat
  BY <1>1 DEF StripeCounts
<1>3. StripesMax \in Nat
  BY MarkAssumption
<1> QED BY <1>1, <1>2, <1>3 DEF StripeNumbers

LEMMA WorkersStripe ==
  ASSUME NEW k \in Nat, NEW n \in StripeNumbers, NEW w \in Nat, w < k
  PROVE  StripeForWorker(k, n, w) \in Stripes
<1> DEFINE spillover == (k \div n) * n
<1>1. n \in Nat /\ n >= 1
  BY StripeNumber
<1>2. k \div n \in Nat /\ spillover \in Nat /\ spillover <= k
  <2>1. n * (k \div n) <= k /\ k \div n \in Nat
    BY <1>1
  <2> QED BY <1>1, <2>1
<1> HIDE DEF spillover
<1>3. CASE w < spillover
  <2>1. w % n \in 0..n - 1
    BY <1>1
  <2> QED BY <1>3, <2>1, StripeNumber DEF StripeForWorker, spillover
<1>4. CASE ~(w < spillover)
  <2> DEFINE a == w - spillover
             b == k - spillover
  <2>1. a \in Nat /\ b \in Nat /\ a < b
    BY <1>2, <1>4
  <2>2. StripeForWorker(k, n, w) = (a * n) \div b
    BY <1>4 DEF StripeForWorker, spillover
  <2> HIDE DEF a, b
  <2>3. a * n \in Nat /\ b * n \in Nat /\ a * n < b * n
    <3>1. (b - a) * n > 0
      BY <2>1, <1>1
    <3>2. (b - a) * n = b * n - a * n /\ a * n \in Nat /\ b * n \in Nat
      BY <2>1, <1>1
    <3> QED BY <3>1, <3>2
  <2>4. (a * n) \div b \in Nat /\ b * ((a * n) \div b) <= a * n
    BY <2>1, <2>3
  <2>5. (a * n) \div b < n
    <3> SUFFICES ASSUME (a * n) \div b >= n PROVE FALSE
      BY <1>1, <2>4
    <3> DEFINE c == (a * n) \div b
    <3>1. c \in Nat /\ c >= n /\ b * c <= a * n
      BY <2>4
    <3> HIDE DEF c
    <3>2. b * (c - n) >= 0 /\ b * (c - n) = b * c - b * n /\ b * c \in Int
      BY <3>1, <2>1, <1>1
    <3> QED BY <3>1, <3>2, <2>3
  <2>6. (a * n) \div b \in 0..n - 1
    BY <2>4, <2>5, <1>1
  <2> QED BY <2>2, <2>6, StripeNumber
<1> QED BY <1>3, <1>4

LEMMA AddressStripe ==
  ASSUME TypeOK, NEW o \in Objects
  PROVE  StripeForAddr(o) \in Stripes
<1>1. o \in Nat
  BY MarkAssumption DEF TypeOK, Objects
<1>2. nstripes \in StripeNumbers
  BY DEF TypeOK, ControlOK
<1>3. nstripes \in Nat /\ nstripes >= 1
  BY <1>2, StripeNumber
<1>4. o % nstripes \in 0..nstripes - 1
  BY <1>1, <1>3
<1> QED BY <1>2, <1>4, StripeNumber DEF StripeForAddr
-----------------------------------------------------------------------------
\* No entry is lost when a stack is published, pushed to, popped from or stolen.
LEMMA EntryIs ==
  ASSUME NEW o \in Objects
  PROVE  /\ ToMark(o) \in Entries /\ ToMark(o).obj = o /\ ToMark(o).mark
         /\ ToFollow(o) \in Entries /\ ToFollow(o).obj = o /\ ~ToFollow(o).mark
         /\ ToMark(o) # ToFollow(o)
BY DEF Entries, ToMark, ToFollow, Entry

LEMMA EntriesAre ==
  ASSUME NEW e \in Entries
  PROVE  /\ e.obj \in Objects
         /\ (e = ToMark(e.obj) /\ e.mark /\ ~e.incLive) \/ (e = ToFollow(e.obj) /\ ~e.mark /\ e.incLive)
         /\ e = [obj |-> e.obj, mark |-> e.mark, incLive |-> e.incLive, child |-> e.child]
BY DEF Entries, ToMark, ToFollow, Entry

LEMMA PublishKeeps ==
  ASSUME StacksOK, NEW s \in Stripes, NEW stack \in Listed, NEW publish \in BOOLEAN,
         PublishStack(s, stack, publish)
  PROVE  /\ DOMAIN published' = Stripes /\ DOMAIN overflowed' = Stripes
         /\ \A r \in Stripes : published'[r] \in Seq(Listed)
         /\ \A r \in Stripes : overflowed'[r] \in Seq(Listed)
         /\ \A e : InPublished(e) => InPublished(e)'
         /\ \A e : InOverflowed(e) => InOverflowed(e)'
         /\ \A e : Within(e, stack) => InPublished(e)' \/ InOverflowed(e)'
         /\ ~StripesAreEmpty'
<1> DEFINE Kept(lists, new) ==
      /\ DOMAIN new = Stripes /\ \A r \in Stripes : new[r] \in Seq(Listed)
      /\ \A r \in Stripes : \A i \in DOMAIN lists[r] : \E j \in DOMAIN new[r] : new[r][j] = lists[r][i]
<1>1. ASSUME NEW lists, DOMAIN lists = Stripes, \A r \in Stripes : lists[r] \in Seq(Listed),
             NEW new, new = [lists EXCEPT ![s] = Cons(stack, lists[s])]
      PROVE  /\ Kept(lists, new) /\ new[s] # <<>>
             /\ \E j \in DOMAIN new[s] : new[s][j] = stack
  <2>1. /\ Cons(stack, lists[s]) \in Seq(Listed) /\ Cons(stack, lists[s]) # <<>>
        /\ \E j \in DOMAIN Cons(stack, lists[s]) : Cons(stack, lists[s])[j] = stack
        /\ \A i \in DOMAIN lists[s] : \E j \in DOMAIN Cons(stack, lists[s]) :
             Cons(stack, lists[s])[j] = lists[s][i]
    <3> DEFINE q == lists[s]
               S == Listed
    <3>1. q \in Seq(S) /\ stack \in S
      BY <1>1
    <3> HIDE DEF q, S
    <3>2. /\ Cons(stack, q) \in Seq(S) /\ Cons(stack, q) # <<>>
          /\ \E j \in DOMAIN Cons(stack, q) : Cons(stack, q)[j] = stack
          /\ \A i \in DOMAIN q : \E j \in DOMAIN Cons(stack, q) : Cons(stack, q)[j] = q[i]
      <4>1. Cons(stack, q) \in Seq(S)
        BY <3>1, ConsIs
      <4>2. Cons(stack, q) # <<>>
        BY <3>1, ConsIs
      <4>3. \E j \in DOMAIN Cons(stack, q) : Cons(stack, q)[j] = stack
        BY <3>1, ConsIs
      <4>4. \A i \in DOMAIN q : \E j \in DOMAIN Cons(stack, q) : Cons(stack, q)[j] = q[i]
        BY <3>1, ConsIs
      <4> QED BY <4>1, <4>2, <4>3, <4>4
    <3> QED BY <3>2 DEF q, S
  <2>2. DOMAIN new = Stripes /\ new[s] = Cons(stack, lists[s])
        /\ \A r \in Stripes \ {s} : new[r] = lists[r]
    BY <1>1
  <2> QED BY <1>1, <2>1, <2>2
<1>2. ASSUME NEW lists, DOMAIN lists = Stripes, \A r \in Stripes : lists[r] \in Seq(Listed)
      PROVE  Kept(lists, lists)
  BY <1>2
<1>3. Kept(published, published') /\ Kept(overflowed, overflowed')
      /\ \/ published'[s] # <<>> /\ \E j \in DOMAIN published'[s] : published'[s][j] = stack
         \/ overflowed'[s] # <<>> /\ \E j \in DOMAIN overflowed'[s] : overflowed'[s][j] = stack
  <2>1. CASE publish
    <3>1. published' = [published EXCEPT ![s] = Cons(stack, published[s])] /\ overflowed' = overflowed
      BY <2>1 DEF PublishStack, Cons
    <3> HIDE DEF Kept
    <3> QED BY <3>1, <1>1, <1>2 DEF StacksOK
  <2>2. CASE ~publish
    <3>1. overflowed' = [overflowed EXCEPT ![s] = Cons(stack, overflowed[s])] /\ published' = published
      BY <2>2 DEF PublishStack, Cons
    <3> HIDE DEF Kept
    <3> QED BY <3>1, <1>1, <1>2 DEF StacksOK
  <2> QED BY <2>1, <2>2
<1>4. \A e : InPublished(e) => InPublished(e)'
  <2> SUFFICES ASSUME NEW e, InPublished(e) PROVE InPublished(e)'
    OBVIOUS
  <2>1. PICK r \in Stripes : \E i \in DOMAIN published[r] : Within(e, published[r][i])
    BY DEF InPublished
  <2>2. PICK i \in DOMAIN published[r] : Within(e, published[r][i])
    BY <2>1
  <2>3. PICK j \in DOMAIN published'[r] : published'[r][j] = published[r][i]
    BY <1>3
  <2> QED BY <2>2, <2>3 DEF InPublished, Within
<1>5. \A e : InOverflowed(e) => InOverflowed(e)'
  <2> SUFFICES ASSUME NEW e, InOverflowed(e) PROVE InOverflowed(e)'
    OBVIOUS
  <2>1. PICK r \in Stripes : \E i \in DOMAIN overflowed[r] : Within(e, overflowed[r][i])
    BY DEF InOverflowed
  <2>2. PICK i \in DOMAIN overflowed[r] : Within(e, overflowed[r][i])
    BY <2>1
  <2>3. PICK j \in DOMAIN overflowed'[r] : overflowed'[r][j] = overflowed[r][i]
    BY <1>3
  <2> QED BY <2>2, <2>3 DEF InOverflowed, Within
<1>6. \A e : Within(e, stack) => InPublished(e)' \/ InOverflowed(e)'
  BY <1>3 DEF InPublished, InOverflowed, Within
<1>7. ~StripesAreEmpty'
  BY <1>3 DEF StripesAreEmpty
<1> QED BY <1>3, <1>4, <1>5, <1>6, <1>7

Installed(t, mine, s, stack) == stacks' = [stacks EXCEPT ![t] = Install(mine, s, stack)]

LEMMA StackInstalled ==
  ASSUME NEW t \in Threads, DOMAIN stacks = Threads, NEW mine, NEW s, NEW stack,
         Installed(t, mine, s, stack)
  PROVE  /\ DOMAIN stacks' = Threads
         /\ \A u \in Threads \ {t} : stacks'[u] = stacks[u]
         /\ stacks'[t] = Install(mine, s, stack)
         /\ s \in DOMAIN stacks'[t] /\ stacks'[t][s] = stack
         /\ \A x \in DOMAIN mine \ {s} : x \in DOMAIN stacks'[t] /\ stacks'[t][x] = mine[x]
         /\ \A e : Within(e, stack) => InStacks(e)'
<1>1. /\ DOMAIN stacks' = Threads /\ stacks'[t] = Install(mine, s, stack)
      /\ \A u \in Threads \ {t} : stacks'[u] = stacks[u]
  BY DEF Installed
<1>2. /\ s \in DOMAIN stacks'[t] /\ stacks'[t][s] = stack
      /\ \A x \in DOMAIN mine \ {s} : x \in DOMAIN stacks'[t] /\ stacks'[t][x] = mine[x]
  BY <1>1 DEF Install
<1>3. \A e : Within(e, stack) => InStacks(e)'
  BY <1>2 DEF InStacks, Within
<1> QED BY <1>1, <1>2, <1>3

LEMMA PushKeeps ==
  ASSUME TypeOK, UNCHANGED instance, NEW t \in Threads, NEW entry \in Entries,
         NEW publish \in BOOLEAN, Push(t, entry, publish)
  PROVE  /\ StacksOK'
         /\ \A e : Pending(e) => Pending(e)'
         /\ Pending(entry)'
         /\ \A u \in Threads \ {t} : stacks'[u] = stacks[u]
         /\ StripesAreEmpty' => StripesAreEmpty
<1> DEFINE s == StripeForAddr(entry.obj)
           mine == stacks[t]
<1>1. s \in Stripes /\ StacksOK /\ IsStacks(mine) /\ Objects' = Objects /\ Entries' = Entries /\ Listed' = Listed
  BY AddressStripe, EntriesAre DEF TypeOK, StacksOK, Objects, Entries, ToMark, ToFollow, Listed
<1>2. DOMAIN stacks = Threads /\ \A u \in Threads : IsStacks(stacks[u])
  BY <1>1 DEF StacksOK
<1>3. <<entry>> \in Seq(Entries) /\ Within(entry, <<entry>>)
  BY DEF Within
<1>4. CASE s \in DOMAIN mine /\ Len(mine[s]) = StackSize
  <2>1. /\ stacks' = [stacks EXCEPT ![t] = Install(stacks[t], s, <<entry>>)]
        /\ PublishStack(s, mine[s], publish)
        /\ Installed(t, mine, s, <<entry>>)
    BY <1>4 DEF Push, Installed
  <2>2. mine[s] \in Listed
    <3>1. mine[s] \in Seq(Entries) /\ Len(mine[s]) >= 1
      BY MarkAssumption, <1>1, <1>4 DEF IsStacks
    <3>2. mine[s] # <<>>
      BY <3>1
    <3> QED BY <3>1, <3>2 DEF Listed
  <2> HIDE DEF s
  <2>3. /\ DOMAIN published' = Stripes /\ DOMAIN overflowed' = Stripes
        /\ \A r \in Stripes : published'[r] \in Seq(Listed)
        /\ \A r \in Stripes : overflowed'[r] \in Seq(Listed)
        /\ \A e : InPublished(e) => InPublished(e)'
        /\ \A e : InOverflowed(e) => InOverflowed(e)'
        /\ \A e : Within(e, mine[s]) => InPublished(e)' \/ InOverflowed(e)'
        /\ ~StripesAreEmpty'
    BY <1>1, <2>1, <2>2, PublishKeeps
  <2>4. /\ DOMAIN stacks' = Threads
        /\ \A u \in Threads \ {t} : stacks'[u] = stacks[u]
        /\ stacks'[t] = Install(mine, s, <<entry>>)
        /\ \A x \in DOMAIN mine \ {s} : x \in DOMAIN stacks'[t] /\ stacks'[t][x] = mine[x]
        /\ \A e : Within(e, <<entry>>) => InStacks(e)'
    BY <1>2, <2>1, StackInstalled
  <2>5. IsStacks(stacks'[t])
    <3>1. IsStacks(Install(mine, s, <<entry>>))
      BY <1>1, <1>3, InstallTyped
    <3> QED BY <2>4, <3>1, Zenon
  <2>6. ASSUME NEW e, InStacks(e) PROVE Pending(e)'
    <3>1. PICK u \in Threads : \E x \in DOMAIN stacks[u] : Within(e, stacks[u][x])
      BY <2>6 DEF InStacks
    <3>2. PICK x \in DOMAIN stacks[u] : Within(e, stacks[u][x])
      BY <3>1
    <3>3. CASE u = t /\ x = s
      BY <2>3, <3>2, <3>3 DEF Pending
    <3>4. CASE ~(u = t /\ x = s)
      <4>1. x \in DOMAIN stacks'[u] /\ stacks'[u][x] = stacks[u][x]
        BY <2>4, <3>4
      <4>2. InStacks(e)'
        BY <3>2, <4>1 DEF InStacks, Within
      <4> QED BY <4>2 DEF Pending
    <3> QED BY <3>3, <3>4
  <2>7. StacksOK'
    BY <1>1, <1>2, <2>3, <2>4, <2>5 DEF StacksOK, IsStacks
  <2> QED BY <1>3, <2>3, <2>4, <2>6, <2>7 DEF Pending
<1>5. CASE ~(s \in DOMAIN mine /\ Len(mine[s]) = StackSize)
  <2> DEFINE old == IF s \in DOMAIN mine THEN mine[s] ELSE <<>>
             new == Append(old, entry)
  <2>1. /\ stacks' = [stacks EXCEPT ![t] = Install(stacks[t], s, new)]
        /\ UNCHANGED <<published, overflowed>>
        /\ Installed(t, mine, s, new)
    BY <1>5 DEF Push, listVars, Installed
  <2>2. old \in Seq(Entries) /\ (s \in DOMAIN mine => old = mine[s])
    BY <1>1 DEF IsStacks
  <2> HIDE DEF s, old
  <2>3. new \in Seq(Entries) /\ Within(entry, new) /\ \A e : Within(e, old) => Within(e, new)
    BY <2>2, AppendIs
  <2> HIDE DEF new
  <2>4. /\ DOMAIN stacks' = Threads
        /\ \A u \in Threads \ {t} : stacks'[u] = stacks[u]
        /\ stacks'[t] = Install(mine, s, new)
        /\ \A x \in DOMAIN mine \ {s} : x \in DOMAIN stacks'[t] /\ stacks'[t][x] = mine[x]
        /\ \A e : Within(e, new) => InStacks(e)'
    BY <1>2, <2>1, StackInstalled
  <2>5. IsStacks(stacks'[t])
    BY <1>1, <2>3, <2>4, InstallTyped
  <2>6. ASSUME NEW e, InStacks(e) PROVE InStacks(e)'
    <3>1. PICK u \in Threads : \E x \in DOMAIN stacks[u] : Within(e, stacks[u][x])
      BY <2>6 DEF InStacks
    <3>2. PICK x \in DOMAIN stacks[u] : Within(e, stacks[u][x])
      BY <3>1
    <3>3. CASE u = t /\ x = s
      BY <2>2, <2>3, <2>4, <3>2, <3>3
    <3>4. CASE ~(u = t /\ x = s)
      <4>1. x \in DOMAIN stacks'[u] /\ stacks'[u][x] = stacks[u][x]
        BY <2>4, <3>4
      <4> QED BY <3>2, <4>1 DEF InStacks, Within
    <3> QED BY <3>3, <3>4
  <2>7. StacksOK'
    BY <1>1, <1>2, <2>1, <2>4, <2>5 DEF StacksOK, IsStacks
  <2>8. \A e : (InPublished(e) => InPublished(e)') /\ (InOverflowed(e) => InOverflowed(e)')
    BY <2>1 DEF InPublished, InOverflowed, Within
  <2>9. StripesAreEmpty' => StripesAreEmpty
    BY <2>1 DEF StripesAreEmpty
  <2> QED BY <2>3, <2>4, <2>6, <2>7, <2>8, <2>9 DEF Pending
<1> QED BY <1>4, <1>5

Replaced(t, new) == stacks' = [stacks EXCEPT ![t] = new]

\* What was in a thread's stacks before they were replaced is in one of them
\* now, or not in any.
LEMMA StackReplaced ==
  ASSUME StacksOK, NEW t \in Threads, NEW new, Replaced(t, new), IsStacks(new)
  PROVE  /\ DOMAIN stacks' = Threads /\ stacks'[t] = new
         /\ \A u \in Threads \ {t} : stacks'[u] = stacks[u]
         /\ \A u \in Threads : IsStacks(stacks'[u])
         /\ \A e : InStacks(e) =>
              InStacks(e)' \/ \E x \in DOMAIN stacks[t] : /\ Within(e, stacks[t][x])
                                                          /\ \A y \in DOMAIN new : ~Within(e, new[y])
<1>1. DOMAIN stacks' = Threads /\ stacks'[t] = new
      /\ \A u \in Threads \ {t} : stacks'[u] = stacks[u]
  BY DEF StacksOK, Replaced
<1>2. \A u \in Threads : IsStacks(stacks'[u])
  <2> SUFFICES ASSUME NEW u \in Threads PROVE IsStacks(stacks'[u])
    OBVIOUS
  <2>1. CASE u = t
    BY <1>1, <2>1
  <2>2. CASE u # t
    BY <1>1, <2>2 DEF StacksOK
  <2> QED BY <2>1, <2>2
<1>3. ASSUME NEW e, InStacks(e)
      PROVE  InStacks(e)' \/ \E x \in DOMAIN stacks[t] : /\ Within(e, stacks[t][x])
                                                         /\ \A y \in DOMAIN new : ~Within(e, new[y])
  <2>1. PICK u \in Threads : \E x \in DOMAIN stacks[u] : Within(e, stacks[u][x])
    BY <1>3 DEF InStacks
  <2>2. PICK x \in DOMAIN stacks[u] : Within(e, stacks[u][x])
    BY <2>1
  <2>3. CASE u # t
    <3>1. x \in DOMAIN stacks'[u] /\ Within(e, stacks'[u][x])
      BY <1>1, <2>2, <2>3
    <3>2. InStacks(e)'
      BY <3>1 DEF InStacks, Within
    <3> QED BY <3>2
  <2>4. CASE u = t
    <3>1. CASE \E y \in DOMAIN new : Within(e, new[y])
      <4>1. PICK y \in DOMAIN new : Within(e, new[y])
        BY <3>1
      <4>2. InStacks(e)'
        BY <4>1, <1>1 DEF InStacks, Within
      <4> QED BY <4>2
    <3> QED BY <2>2, <2>4, <3>1
  <2> QED BY <2>3, <2>4
<1> QED BY <1>1, <1>2, <1>3

LEMMA StealKeeps ==
  ASSUME StacksOK, NEW s \in Stripes, CanSteal(s), StealStack(s)
  PROVE  /\ Stealable(s) \in Listed
         /\ DOMAIN published' = Stripes /\ DOMAIN overflowed' = Stripes
         /\ \A r \in Stripes : published'[r] \in Seq(Listed)
         /\ \A r \in Stripes : overflowed'[r] \in Seq(Listed)
         /\ \A e : InPublished(e) => Within(e, Stealable(s)) \/ InPublished(e)'
         /\ \A e : InOverflowed(e) => Within(e, Stealable(s)) \/ InOverflowed(e)'
<1> DEFINE S == Listed
<1>1. /\ DOMAIN published = Stripes /\ DOMAIN overflowed = Stripes
      /\ \A r \in Stripes : published[r] \in Seq(S)
      /\ \A r \in Stripes : overflowed[r] \in Seq(S)
  BY DEF StacksOK
<1> HIDE DEF S
<1>2. CASE overflowed[s] # <<>>
  <2> DEFINE q == overflowed[s]
  <2>1. /\ overflowed' = [overflowed EXCEPT ![s] = Tail(q)] /\ published' = published
        /\ Stealable(s) = Head(q)
    BY <1>2 DEF StealStack, Stealable
  <2>2. q \in Seq(S) /\ q # <<>>
    BY <1>1, <1>2
  <2> HIDE DEF q
  <2>3. Head(q) \in S /\ Tail(q) \in Seq(S)
    BY <2>2, TailIs
  <2>4. \A i \in DOMAIN q : q[i] = Head(q) \/ \E j \in DOMAIN Tail(q) : Tail(q)[j] = q[i]
    BY <2>2, TailIs
  <2>5. DOMAIN overflowed' = Stripes /\ overflowed'[s] = Tail(q)
        /\ \A r \in Stripes \ {s} : overflowed'[r] = overflowed[r]
    BY <1>1, <2>1
  <2>6. \A r \in Stripes : overflowed'[r] \in Seq(S)
    BY <1>1, <2>3, <2>5
  <2>7. ASSUME NEW e, InOverflowed(e) PROVE Within(e, Head(q)) \/ InOverflowed(e)'
    <3>1. PICK r \in Stripes : \E i \in DOMAIN overflowed[r] : Within(e, overflowed[r][i])
      BY <2>7 DEF InOverflowed
    <3>2. PICK i \in DOMAIN overflowed[r] : Within(e, overflowed[r][i])
      BY <3>1
    <3>3. CASE r = s
      <4>1. i \in DOMAIN q /\ Within(e, q[i])
        BY <3>2, <3>3 DEF q
      <4>2. q[i] = Head(q) \/ \E j \in DOMAIN Tail(q) : Tail(q)[j] = q[i]
        BY <2>4, <4>1
      <4>3. ASSUME NEW j \in DOMAIN Tail(q), Tail(q)[j] = q[i] PROVE InOverflowed(e)'
        <5>1. j \in DOMAIN overflowed'[s] /\ Within(e, overflowed'[s][j])
          BY <4>1, <4>3, <2>5
        <5> QED BY <5>1 DEF InOverflowed, Within
      <4> QED BY <4>1, <4>2, <4>3
    <3>4. CASE r # s
      <4>1. overflowed'[r] = overflowed[r]
        BY <2>5, <3>4
      <4>2. InOverflowed(e)'
        BY <3>2, <4>1 DEF InOverflowed, Within
      <4> QED BY <4>2
    <3> QED BY <3>3, <3>4
  <2>8. \A e : InPublished(e) => InPublished(e)'
    BY <2>1 DEF InPublished, Within
  <2>9. DOMAIN published' = Stripes /\ \A r \in Stripes : published'[r] \in Seq(S)
    BY <1>1, <2>1
  <2> QED BY <2>1, <2>3, <2>5, <2>6, <2>7, <2>8, <2>9 DEF S
<1>3. CASE overflowed[s] = <<>>
  <2> DEFINE q == published[s]
  <2>1. /\ published' = [published EXCEPT ![s] = Tail(q)] /\ overflowed' = overflowed
        /\ Stealable(s) = Head(q)
    BY <1>3 DEF StealStack, Stealable
  <2>2. q \in Seq(S) /\ q # <<>>
    BY <1>1, <1>3 DEF CanSteal
  <2> HIDE DEF q
  <2>3. Head(q) \in S /\ Tail(q) \in Seq(S)
    BY <2>2, TailIs
  <2>4. \A i \in DOMAIN q : q[i] = Head(q) \/ \E j \in DOMAIN Tail(q) : Tail(q)[j] = q[i]
    BY <2>2, TailIs
  <2>5. DOMAIN published' = Stripes /\ published'[s] = Tail(q)
        /\ \A r \in Stripes \ {s} : published'[r] = published[r]
    BY <1>1, <2>1
  <2>6. \A r \in Stripes : published'[r] \in Seq(S)
    BY <1>1, <2>3, <2>5
  <2>7. ASSUME NEW e, InPublished(e) PROVE Within(e, Head(q)) \/ InPublished(e)'
    <3>1. PICK r \in Stripes : \E i \in DOMAIN published[r] : Within(e, published[r][i])
      BY <2>7 DEF InPublished
    <3>2. PICK i \in DOMAIN published[r] : Within(e, published[r][i])
      BY <3>1
    <3>3. CASE r = s
      <4>1. i \in DOMAIN q /\ Within(e, q[i])
        BY <3>2, <3>3 DEF q
      <4>2. q[i] = Head(q) \/ \E j \in DOMAIN Tail(q) : Tail(q)[j] = q[i]
        BY <2>4, <4>1
      <4>3. ASSUME NEW j \in DOMAIN Tail(q), Tail(q)[j] = q[i] PROVE InPublished(e)'
        <5>1. j \in DOMAIN published'[s] /\ Within(e, published'[s][j])
          BY <4>1, <4>3, <2>5
        <5> QED BY <5>1 DEF InPublished, Within
      <4> QED BY <4>1, <4>2, <4>3
    <3>4. CASE r # s
      <4>1. published'[r] = published[r]
        BY <2>5, <3>4
      <4>2. InPublished(e)'
        BY <3>2, <4>1 DEF InPublished, Within
      <4> QED BY <4>2
    <3> QED BY <3>3, <3>4
  <2>8. \A e : InOverflowed(e) => InOverflowed(e)'
    BY <2>1 DEF InOverflowed, Within
  <2>9. DOMAIN overflowed' = Stripes /\ \A r \in Stripes : overflowed'[r] \in Seq(S)
    BY <1>1, <2>1
  <2> QED BY <2>1, <2>3, <2>5, <2>6, <2>7, <2>8, <2>9 DEF S
<1> QED BY <1>2, <1>3

LEMMA ListsKept ==
  ASSUME UNCHANGED listVars
  PROVE  \A e : (InPublished(e) => InPublished(e)') /\ (InOverflowed(e) => InOverflowed(e)')
BY DEF listVars, InPublished, InOverflowed, Within

LEMMA PendingKept ==
  ASSUME UNCHANGED <<stacks, listVars>>
  PROVE  \A e : Pending(e) => Pending(e)'
BY DEF listVars, Pending, InStacks, InPublished, InOverflowed, Within

\* Where a thread pops from: the installed stack of its stripe, a stack stolen
\* for it, or nothing.
LEMMA PopKeeps ==
  ASSUME TypeOK, UNCHANGED instance, NEW w \in Workers, Pop(w)
  PROVE  /\ StacksOK' /\ \A u \in Threads \ {w} : stacks'[u] = stacks[u]
         /\ \/ /\ cur' = [cur EXCEPT ![w] = cur'[w]] /\ cur'[w] \in Entries
               /\ pc' = [pc EXCEPT ![w] = "mark"]
               /\ \A e : Pending(e) => Pending(e)' \/ e = cur'[w]
            \/ /\ cur' = cur /\ pc' = [pc EXCEPT ![w] = "steal"]
               /\ ctx[w].stripe \notin DOMAIN stacks'[w]
               /\ \A e : Pending(e) => Pending(e)'
<1> DEFINE s == ctx[w].stripe
           mine == stacks[w]
           own == IF s \in DOMAIN mine THEN mine[s] ELSE <<>>
           take(stack) == /\ cur' = [cur EXCEPT ![w] = Last(stack)]
                          /\ stacks' = [stacks EXCEPT ![w] = Install(mine, s, Front(stack))]
                          /\ Goto(w, "mark")
<1>1. /\ StacksOK /\ DOMAIN stacks = Threads /\ IsStacks(mine) /\ s \in Stripes
      /\ Objects' = Objects /\ Entries' = Entries /\ Listed' = Listed /\ w \in Threads
      /\ DOMAIN cur = Workers
  <2>1. w \in Threads
    BY MarkAssumption DEF Workers, Threads
  <2>2. Objects' = Objects /\ Entries' = Entries /\ Listed' = Listed
    BY DEF Objects, Entries, Listed, ToMark, ToFollow
  <2>3. StacksOK /\ DOMAIN stacks = Threads /\ IsStacks(mine)
    BY <2>1 DEF TypeOK, StacksOK
  <2>4. DOMAIN cur = Workers /\ s \in Stripes
    BY DEF TypeOK, ControlOK
  <2> QED BY <2>1, <2>2, <2>3, <2>4
<1>2. own \in Seq(Entries) /\ (s \in DOMAIN mine => own = mine[s])
      /\ (s \notin DOMAIN mine => own = <<>>)
  BY <1>1 DEF IsStacks
<1>3. \/ own # <<>> /\ take(own) /\ UNCHANGED listVars
      \/ own = <<>> /\ CanSteal(s) /\ take(Stealable(s)) /\ StealStack(s)
      \/ /\ own = <<>> /\ ~CanSteal(s)
         /\ stacks' = [stacks EXCEPT ![w] = Without(@, s)]
         /\ Goto(w, "steal")
         /\ UNCHANGED <<listVars, cur>>
  BY DEF Pop
<1> HIDE DEF own, s
\* The entry that is taken is the only one that leaves the stack.
<1>4. ASSUME NEW stack \in Seq(Entries), stack # <<>>, take(stack),
             \A x : s \in DOMAIN mine /\ Within(x, mine[s]) => Within(x, stack)
      PROVE  /\ cur' = [cur EXCEPT ![w] = cur'[w]] /\ cur'[w] \in Entries
             /\ cur'[w] = Last(stack)
             /\ pc' = [pc EXCEPT ![w] = "mark"]
             /\ DOMAIN stacks' = Threads /\ \A u \in Threads : IsStacks(stacks'[u])
             /\ \A u \in Threads \ {w} : stacks'[u] = stacks[u]
             /\ \A x : Within(x, stack) => x = cur'[w] \/ InStacks(x)'
             /\ \A x : InStacks(x) => x = cur'[w] \/ InStacks(x)'
  <2> DEFINE new == Install(mine, s, Front(stack))
  <2>1. Front(stack) \in Seq(Entries) /\ Last(stack) \in Entries
    BY <1>4, FrontIs
  <2>2. \A x : Within(x, stack) => x = Last(stack) \/ Within(x, Front(stack))
    BY <1>4, FrontIs
  <2>3. IsStacks(new)
    BY <1>1, <2>1, InstallTyped
  <2>4. /\ DOMAIN new = DOMAIN mine \cup {s} /\ new[s] = Front(stack)
        /\ \A x \in DOMAIN mine \ {s} : new[x] = mine[x]
    BY DEF Install
  <2> HIDE DEF new
  <2>5. Replaced(w, new)
    BY <1>4 DEF Replaced, new
  <2>6. /\ DOMAIN stacks' = Threads /\ stacks'[w] = new
        /\ \A u \in Threads \ {w} : stacks'[u] = stacks[u]
        /\ \A u \in Threads : IsStacks(stacks'[u])
    BY <1>1, <2>3, <2>5, StackReplaced
  <2>7. \A e : InStacks(e) =>
              InStacks(e)' \/ \E x \in DOMAIN stacks[w] : /\ Within(e, stacks[w][x])
                                                          /\ \A y \in DOMAIN new : ~Within(e, new[y])
    BY <1>1, <2>3, <2>5, StackReplaced
  <2>8. cur'[w] = Last(stack) /\ cur' = [cur EXCEPT ![w] = cur'[w]]
        /\ pc' = [pc EXCEPT ![w] = "mark"]
    BY <1>1, <1>4 DEF Goto
  <2>9. \A x : Within(x, Front(stack)) => InStacks(x)'
    <3> SUFFICES ASSUME NEW x, Within(x, Front(stack)) PROVE InStacks(x)'
      OBVIOUS
    <3>1. s \in DOMAIN stacks'[w] /\ Within(x, stacks'[w][s])
      BY <2>4, <2>6
    <3> QED BY <3>1, <1>1 DEF InStacks, Within
  <2>10. ASSUME NEW e, InStacks(e) PROVE e = cur'[w] \/ InStacks(e)'
    <3>1. CASE InStacks(e)'
      BY <3>1
    <3>2. CASE ~InStacks(e)'
      <4>1. PICK x \in DOMAIN mine : Within(e, mine[x]) /\ \A y \in DOMAIN new : ~Within(e, new[y])
        BY <2>7, <2>10, <3>2
      <4>2. x = s
        BY <2>4, <4>1
      <4>3. Within(e, stack)
        BY <1>4, <4>1, <4>2
      <4> QED BY <2>2, <2>8, <2>9, <4>3
    <3> QED BY <3>1, <3>2
  <2>11. \A x : Within(x, stack) => x = cur'[w] \/ InStacks(x)'
    BY <2>2, <2>8, <2>9
  <2> QED BY <2>1, <2>6, <2>8, <2>10, <2>11
<1>5. CASE own # <<>> /\ take(own) /\ UNCHANGED listVars
  <2>1. /\ cur' = [cur EXCEPT ![w] = cur'[w]] /\ cur'[w] \in Entries
        /\ pc' = [pc EXCEPT ![w] = "mark"]
        /\ DOMAIN stacks' = Threads /\ \A u \in Threads : IsStacks(stacks'[u])
        /\ \A u \in Threads \ {w} : stacks'[u] = stacks[u]
        /\ \A x : InStacks(x) => x = cur'[w] \/ InStacks(x)'
    <3>1. \A x : s \in DOMAIN mine /\ Within(x, mine[s]) => Within(x, own)
      BY <1>2
    <3> HIDE DEF take
    <3> QED BY <1>2, <1>4, <1>5, <3>1
  <2>2. StacksOK'
    BY <1>1, <1>5, <2>1 DEF StacksOK, IsStacks, listVars
  <2>3. \A e : Pending(e) => Pending(e)' \/ e = cur'[w]
    BY <1>5, <2>1, ListsKept DEF Pending
  <2> QED BY <2>1, <2>2, <2>3
<1>6. CASE own = <<>> /\ CanSteal(s) /\ take(Stealable(s)) /\ StealStack(s)
  <2>1. /\ Stealable(s) \in Listed
        /\ DOMAIN published' = Stripes /\ DOMAIN overflowed' = Stripes
        /\ \A r \in Stripes : published'[r] \in Seq(Listed)
        /\ \A r \in Stripes : overflowed'[r] \in Seq(Listed)
        /\ \A e : InPublished(e) => Within(e, Stealable(s)) \/ InPublished(e)'
        /\ \A e : InOverflowed(e) => Within(e, Stealable(s)) \/ InOverflowed(e)'
    BY <1>1, <1>6, StealKeeps
  <2>2. Stealable(s) \in Seq(Entries) /\ Stealable(s) # <<>>
    BY <2>1 DEF Listed
  <2>3. \A x : ~(s \in DOMAIN mine /\ Within(x, mine[s]))
    BY <1>2, <1>6 DEF Within
  <2>4. /\ cur' = [cur EXCEPT ![w] = cur'[w]] /\ cur'[w] \in Entries
        /\ pc' = [pc EXCEPT ![w] = "mark"]
        /\ DOMAIN stacks' = Threads /\ \A u \in Threads : IsStacks(stacks'[u])
        /\ \A u \in Threads \ {w} : stacks'[u] = stacks[u]
        /\ \A x : Within(x, Stealable(s)) => x = cur'[w] \/ InStacks(x)'
        /\ \A x : InStacks(x) => x = cur'[w] \/ InStacks(x)'
    <3> HIDE DEF take
    <3> QED BY <1>4, <1>6, <2>1, <2>2, <2>3
  <2>5. StacksOK'
    BY <1>1, <2>1, <2>4 DEF StacksOK, IsStacks
  <2>6. \A e : Pending(e) => Pending(e)' \/ e = cur'[w]
    BY <2>1, <2>4 DEF Pending
  <2> QED BY <2>4, <2>5, <2>6
<1>7. CASE /\ own = <<>> /\ ~CanSteal(s)
           /\ stacks' = [stacks EXCEPT ![w] = Without(@, s)]
           /\ Goto(w, "steal")
           /\ UNCHANGED <<listVars, cur>>
  <2> DEFINE new == Without(mine, s)
  <2>1. IsStacks(new) /\ DOMAIN new = DOMAIN mine \ {s}
        /\ \A x \in DOMAIN mine \ {s} : new[x] = mine[x]
    BY <1>1, WithoutTyped
  <2> HIDE DEF new
  <2>2. Replaced(w, new)
    BY <1>7 DEF Replaced, new
  <2>3. /\ DOMAIN stacks' = Threads /\ stacks'[w] = new
        /\ \A u \in Threads \ {w} : stacks'[u] = stacks[u]
        /\ \A u \in Threads : IsStacks(stacks'[u])
    BY <1>1, <2>1, <2>2, StackReplaced
  <2>4. \A e : InStacks(e) =>
              InStacks(e)' \/ \E x \in DOMAIN stacks[w] : /\ Within(e, stacks[w][x])
                                                          /\ \A y \in DOMAIN new : ~Within(e, new[y])
    BY <1>1, <2>1, <2>2, StackReplaced
  <2>5. \A e : InStacks(e) => InStacks(e)'
    <3> SUFFICES ASSUME NEW e, InStacks(e), ~InStacks(e)' PROVE FALSE
      OBVIOUS
    <3>1. PICK x \in DOMAIN mine : Within(e, mine[x]) /\ \A y \in DOMAIN new : ~Within(e, new[y])
      BY <2>4
    <3>2. x = s
      BY <2>1, <3>1
    <3> QED BY <1>2, <1>7, <3>1, <3>2 DEF Within
  <2>6. StacksOK'
    BY <1>1, <1>7, <2>3 DEF StacksOK, IsStacks, listVars
  <2>7. \A e : Pending(e) => Pending(e)'
    BY <1>7, <2>5, ListsKept DEF Pending
  <2>8. s \notin DOMAIN stacks'[w]
    BY <2>1, <2>3
  <2> QED BY <1>7, <2>3, <2>6, <2>7, <2>8 DEF Goto, s
<1> QED BY <1>3, <1>5, <1>6, <1>7 DEF s
-----------------------------------------------------------------------------
\* What keeps an object alive while marking runs, and who follows its field.
Storing == DOMAIN op = 1..4 /\ op[1] \in {"add", "drain"}
Held(e) == \E w \in Workers : pc[w] = "mark" /\ cur[w] = e
Outstanding(e) == Pending(e) \/ Held(e)
Following(o) == \E w \in Workers : pc[w] \in {"follow", "child", "heal"} /\ cur[w].obj = o

Grey(o) ==
  \/ o \in marked
  \/ Outstanding(ToMark(o))
  \/ Within(o, buffer)
  \/ Storing /\ op[4] = o
Responsible(o) == Outstanding(ToFollow(o)) \/ Following(o)

\* A set the marking that remains to be done stays within.
Closed(C) ==
  /\ \A o \in Objects : Grey(o) => o \in C
  /\ \A o \in C : heap[o].good \/ heap[o].to \in C \cup {Null}

SnapshotInv ==
  \A C \in SUBSET Objects : Closed(C) =>
    /\ local \in C \cup {Null}
    /\ weakGood => Referent \in C
    /\ \A o \in Objects : heap[o].good => heap[o].to \in C \cup {Null}

FollowInv == \A o \in marked : heap[o].good \/ heap[o].to = Null \/ Responsible(o)

WorkerOK(w) ==
  /\ pc[w] # "idle" => w < term.nworkers
  /\ pc[w] = "proactive" => w = 0
  /\ pc[w] = "mark" => cur[w] \in Entries
  /\ pc[w] \in {"follow", "child", "heal"} => cur[w].obj \in Objects
  /\ pc[w] \in {"child", "heal"} =>
       /\ cur[w].child \in Objects
       /\ heap[cur[w].obj].good \/ heap[cur[w].obj].to = cur[w].child
  /\ pc[w] = "heal" => cur[w].child \in marked
  /\ pc[w] = "steal" => ctx[w].stripe \notin DOMAIN stacks[w]
  /\ pc[w] = "idle" /\ flush[w] = None => DOMAIN stacks[w] = {}
  /\ phase # "follow" => pc[w] = "idle" /\ flush[w] = None
WorkersInv == \A w \in Workers : WorkerOK(w)

MutatorInv ==
  /\ op = <<>> \/ op = <<"resurrect">> \/ Storing
  /\ Storing => /\ op[2] \in Objects /\ op[3] \in {Null, local}
                /\ op[4] \in Objects /\ op[4] = heap[op[2]].to

FlushInv ==
  /\ \A w \in Workers : flush[w] \in {None, w}
  /\ flush[Mutator] \in {None, Mutator} /\ flush[VM] \in {None, Mutator, VM}
  /\ \A t \in {Mutator, VM} : flush[t] = Mutator => op = <<>> /\ flushOp.stage = "handshaking"
  /\ flush[Mutator] # Mutator \/ flush[VM] # Mutator
  /\ flush[VM] = VM => flushOp.stage = "vmflush"
  /\ flushOp.stage # "none" => phase = "flush" \/ (phase = "follow" /\ pc[0] = "proactive")
  /\ flushOp.stage \in {"none", "handshake", "result"} => DOMAIN stacks[VM] = {}

Quiet == buffer = <<>> /\ op = <<>> /\ DOMAIN stacks[Mutator] = {}
Found ==
  \/ term.resurrected \/ ~StripesAreEmpty
  \/ \E s \in DOMAIN stacks[VM] : stacks[VM][s] # <<>>

EndInv ==
  /\ phase = "flush" /\ flushOp.stage \in {"vm", "vmflush", "result"} =>
       flushOp.flushed \/ Found \/ Quiet
  /\ phase = "end" => term.resurrected \/ (StripesAreEmpty /\ Quiet)
  /\ phase = "done" => StripesAreEmpty /\ Quiet

IInv == TypeOK /\ SnapshotInv /\ FollowInv /\ WorkersInv /\ MutatorInv /\ FlushInv /\ EndInv
-----------------------------------------------------------------------------
LEMMA ThreadsAre ==
  /\ Workers \subseteq Threads /\ Mutator \in Threads /\ VM \in Threads
  /\ Mutator # VM /\ Mutator \notin Workers /\ VM \notin Workers /\ 0 \in Workers
  /\ Threads = Workers \cup {Mutator, VM} /\ None \notin Threads
  /\ \A w \in Workers : w \in Nat
BY MarkAssumption DEF Threads, Workers, Mutator, VM, None

LEMMA SameObjects ==
  ASSUME UNCHANGED instance
  PROVE  /\ Objects' = Objects /\ Entries' = Entries /\ Listed' = Listed
         /\ Roots' = Roots /\ Referent' = Referent
         /\ \A o : ToMark(o)' = ToMark(o) /\ ToFollow(o)' = ToFollow(o)
BY DEF Objects, Entries, Listed, ToMark, ToFollow, Entry, Roots, Referent

LEMMA NullIsNoObject ==
  ASSUME TypeOK
  PROVE  Null \notin Objects /\ Objects \subseteq Nat /\ IsFiniteSet(Objects)
BY MarkAssumption DEF TypeOK, Objects, Null

LEMMA NotStoring ==
  /\ op = <<>> \/ op = <<"resurrect">> => ~Storing
  /\ op' = <<>> \/ op' = <<"resurrect">> => ~Storing'
<1>1. ASSUME NEW x, x = <<>> PROVE DOMAIN x # 1..4
  <2>1. DOMAIN x = {} /\ 1 \in 1..4
    BY <1>1
  <2> QED BY <2>1
<1>2. ASSUME NEW x, x = <<"resurrect">> PROVE DOMAIN x # 1..4
  <2>1. DOMAIN x = 1..1 /\ 2 \in 1..4 /\ 2 \notin 1..1
    BY <1>2
  <2> QED BY <2>1
<1> QED BY <1>1, <1>2 DEF Storing

\* A step keeps the snapshot: nothing stops being grey, a field loses an
\* object only when it was good or the object is grey, and what the mutator or
\* a good field gets was within the snapshot or is grey.
LocalFromSnapshot ==
  \/ local' \in {local, Null}
  \/ \E o \in Objects : local' = o /\ Grey(o)'
  \/ \E o \in Objects : (o \in marked \/ o = local) /\ local' = heap[o].to
  \/ weakGood /\ local' = Referent

FieldKept(o) ==
  heap'[o] = heap[o] \/ heap[o].good \/ heap[o].to = Null
  \/ \E p \in Objects : heap[o].to = p /\ Grey(p)'

FieldFromSnapshot(o) ==
  heap'[o].good =>
    \/ heap[o].good /\ heap'[o].to = heap[o].to
    \/ heap'[o].to \in {Null, local}
    \/ \E p \in Objects : heap'[o].to = p /\ Grey(p)'

LEMMA SnapKept ==
  ASSUME TypeOK, SnapshotInv, UNCHANGED instance,
         \A o \in Objects : Grey(o) => Grey(o)',
         \A o \in Objects : FieldKept(o),
         \A o \in Objects : FieldFromSnapshot(o),
         LocalFromSnapshot,
         weakGood' => weakGood \/ \E o \in Objects : o = Referent /\ Grey(o)'
  PROVE  SnapshotInv'
<1>1. Objects' = Objects /\ Referent' = Referent
  BY SameObjects
<1>2. SUFFICES ASSUME NEW C \in SUBSET Objects, Closed(C)'
               PROVE  /\ local' \in C \cup {Null}
                      /\ weakGood' => Referent' \in C
                      /\ \A o \in Objects : heap'[o].good => heap'[o].to \in C \cup {Null}
  BY <1>1 DEF SnapshotInv
<1>3. \A o \in Objects : Grey(o)' => o \in C
  BY <1>1, <1>2 DEF Closed
<1>4. \A o \in C : heap'[o].good \/ heap'[o].to \in C \cup {Null}
  BY <1>2 DEF Closed
<1>5. Closed(C)
  <2>1. \A o \in Objects : Grey(o) => o \in C
    BY <1>3
  <2>2. ASSUME NEW o \in C PROVE heap[o].good \/ heap[o].to \in C \cup {Null}
    <3>1. CASE heap'[o] = heap[o]
      BY <1>4, <3>1
    <3>2. CASE heap'[o] # heap[o]
      BY <1>3, <3>2 DEF FieldKept
    <3> QED BY <3>1, <3>2
  <2> QED BY <2>1, <2>2 DEF Closed
<1>6. /\ local \in C \cup {Null}
      /\ weakGood => Referent \in C
      /\ \A o \in Objects : heap[o].good => heap[o].to \in C \cup {Null}
  BY <1>5 DEF SnapshotInv
<1>7. \A o \in C : heap[o].to \in C \cup {Null}
  BY <1>5, <1>6 DEF Closed
<1>8. marked \subseteq C
  BY <1>5 DEF Closed, Grey, TypeOK
<1>9. local' \in C \cup {Null}
  <2>1. CASE \E o \in Objects : (o \in marked \/ o = local) /\ local' = heap[o].to
    <3>1. PICK o \in Objects : (o \in marked \/ o = local) /\ local' = heap[o].to
      BY <2>1
    <3>2. o \in C
      BY <1>6, <1>8, <3>1, NullIsNoObject
    <3> QED BY <1>7, <3>1, <3>2
  <2> QED BY <1>3, <1>6, <2>1 DEF LocalFromSnapshot
<1>10. weakGood' => Referent' \in C
  BY <1>1, <1>3, <1>6
<1>11. \A o \in Objects : heap'[o].good => heap'[o].to \in C \cup {Null}
  BY <1>3, <1>6 DEF FieldFromSnapshot
<1> QED BY <1>9, <1>10, <1>11

LEMMA FollowKept ==
  ASSUME FollowInv,
         \A o \in marked : Responsible(o) => Responsible(o)' \/ heap'[o].good \/ heap'[o].to = Null,
         \A o \in marked : heap'[o] = heap[o] \/ heap'[o].good,
         \A o \in marked' : o \in marked \/ Responsible(o)'
  PROVE  FollowInv'
BY DEF FollowInv

\* Steps that move entries about or change control only.
LEMMA WorkKept ==
  ASSUME TypeOK, SnapshotInv, FollowInv, MutatorInv,
         UNCHANGED <<instance, heap, weakGood, marked, local, buffer, op>>,
         \A o \in Objects : Outstanding(ToMark(o)) => Outstanding(ToMark(o))',
         \A o \in Objects : Responsible(o) => Responsible(o)'
  PROVE  SnapshotInv' /\ FollowInv' /\ MutatorInv'
<1>1. \A o \in Objects : Grey(o) => Grey(o)'
  BY DEF Grey, Storing, Within
<1>2. \A o \in Objects : FieldKept(o) /\ FieldFromSnapshot(o)
  BY DEF FieldKept, FieldFromSnapshot
<1>3. LocalFromSnapshot
  BY DEF LocalFromSnapshot
<1>4. SnapshotInv'
  BY <1>1, <1>2, <1>3, SnapKept
<1>5. FollowInv'
  BY FollowKept DEF TypeOK
<1>6. MutatorInv'
  BY SameObjects DEF MutatorInv, Storing
<1> QED BY <1>4, <1>5, <1>6

LEMMA ControlKept ==
  ASSUME TypeOK, SnapshotInv, FollowInv, MutatorInv,
         UNCHANGED <<instance, heap, weakGood, marked, stacks, listVars, local, buffer, op>>,
         \A w \in Workers : pc[w] \in Holding => pc'[w] = pc[w] /\ cur'[w] = cur[w]
  PROVE  SnapshotInv' /\ FollowInv' /\ MutatorInv'
<1>1. \A e : Pending(e) => Pending(e)'
  BY PendingKept
<1>2. \A e : Outstanding(e) => Outstanding(e)'
  BY <1>1 DEF Outstanding, Held, Holding
<1>3. \A o : Following(o) => Following(o)'
  BY DEF Following, Holding
<1>4. \A o \in Objects : ToMark(o)' = ToMark(o) /\ ToFollow(o)' = ToFollow(o)
  BY SameObjects
<1>5. \A o \in Objects : Responsible(o) => Responsible(o)'
  BY <1>2, <1>3 DEF Responsible, ToFollow, Entry
<1>6. \A o \in Objects : Outstanding(ToMark(o)) => Outstanding(ToMark(o))'
  BY <1>2 DEF ToMark, Entry
<1> QED BY <1>5, <1>6, WorkKept

LEMMA WorkerKept ==
  ASSUME NEW v \in Workers, WorkerOK(v), UNCHANGED <<instance, phase>>,
         UNCHANGED <<pc[v], cur[v], ctx[v], stacks[v], flush[v], term.nworkers>>,
         marked \subseteq marked',
         \A o \in Objects : heap'[o] = heap[o] \/ heap'[o].good
  PROVE  WorkerOK(v)'
BY SameObjects DEF WorkerOK

LEMMA FlushKept ==
  ASSUME FlushInv, UNCHANGED <<flushOp, phase, op>>,
         UNCHANGED <<stacks[VM], flush[Mutator], flush[VM]>>,
         \A w \in Workers : flush'[w] \in {None, w},
         pc[0] = "proactive" => pc'[0] = "proactive"
  PROVE  FlushInv'
BY DEF FlushInv

LEMMA EndKept ==
  ASSUME EndInv, UNCHANGED <<flushOp, phase, op, buffer, listVars>>,
         UNCHANGED <<stacks[VM], stacks[Mutator], term.resurrected>>
  PROVE  EndInv'
BY DEF EndInv, Found, Quiet, StripesAreEmpty, listVars

\* A step of a worker, as the others see it.
OthersKept(w) ==
  /\ UNCHANGED <<instance, weakGood, phase, local, buffer, op, flushOp>>
  /\ term'.nworkers = term.nworkers
  /\ \A v \in Workers \ {w} :
       /\ pc'[v] = pc[v] \/ (pc[v] = "waiting" /\ pc'[v] = "woken")
       /\ cur'[v] = cur[v] /\ ctx'[v] = ctx[v]
  /\ \A t \in Threads \ {w} : stacks'[t] = stacks[t] /\ flush'[t] = flush[t]
  /\ flush'[w] \in {None, w}
  /\ marked \subseteq marked'
  /\ \A o \in Objects : heap'[o] = heap[o] \/ (heap'[o].good /\ heap'[o].to = heap[o].to)

LEMMA WorkerMoves ==
  ASSUME IInv, NEW w \in Workers, pc[w] \notin {"idle", "proactive"}, OthersKept(w),
         TypeOK', SnapshotInv', FollowInv', WorkerOK(w)'
  PROVE  IInv'
<1>1. phase = "follow"
  BY DEF IInv, WorkersInv, WorkerOK
<1>2. WorkersInv'
  <2> SUFFICES ASSUME NEW v \in Workers PROVE WorkerOK(v)'
    BY DEF WorkersInv
  <2>1. CASE v = w
    BY <2>1
  <2>2. CASE v # w /\ pc'[v] = pc[v]
    BY <2>2, WorkerKept, ThreadsAre DEF OthersKept, IInv, WorkersInv
  <2>3. CASE v # w /\ pc[v] = "waiting" /\ pc'[v] = "woken"
    BY <1>1, <2>3, ThreadsAre DEF OthersKept, IInv, WorkersInv, WorkerOK
  <2> QED BY <2>1, <2>2, <2>3 DEF OthersKept
<1>3. MutatorInv'
  BY SameObjects DEF OthersKept, IInv, MutatorInv, Storing
<1>4. FlushInv'
  <2>1. stacks'[VM] = stacks[VM] /\ flush'[VM] = flush[VM] /\ flush'[Mutator] = flush[Mutator]
    BY ThreadsAre DEF OthersKept
  <2>2. \A v \in Workers : flush'[v] \in {None, v}
    BY ThreadsAre DEF OthersKept, IInv, FlushInv
  <2>3. pc[0] = "proactive" => pc'[0] = "proactive"
    BY ThreadsAre DEF OthersKept
  <2> QED BY <2>1, <2>2, <2>3, FlushKept DEF IInv, OthersKept
<1>5. EndInv'
  BY <1>1 DEF EndInv, OthersKept
<1> QED BY <1>2, <1>3, <1>4, <1>5 DEF IInv
-----------------------------------------------------------------------------
\* The steps of a worker.
LEMMA DrainStep ==
  ASSUME IInv, UNCHANGED instance, UNCHANGED <<weakGood, requested, phase, mutatorVars>>,
         NEW w \in Workers, Drain(w), UNCHANGED live
  PROVE  IInv'
<1> USE DEF Drain, At, Idle, Goto
<1>1. TypeOK /\ SnapshotInv /\ FollowInv /\ MutatorInv /\ WorkerOK(w) /\ ControlOK
  BY DEF IInv, WorkersInv, TypeOK
<1>2. OthersKept(w)
  BY <1>1, ThreadsAre DEF OthersKept, ControlOK, mutatorVars
<1>3. ControlOK'
  <2>1. StripeForWorker(term.nworkers, nstripes, w) \in Stripes
    BY <1>1, WorkersStripe, ThreadsAre, MarkAssumption DEF ControlOK, WorkerOK
  <2>2. /\ DOMAIN ctx' = Workers /\ DOMAIN pc' = Workers
        /\ ctx'[w] = [stripe |-> StripeForWorker(term.nworkers, nstripes, w),
                      nstripes |-> nstripes, processed |-> 0]
        /\ pc'[w] = "pop" /\ \A v \in Workers \ {w} : ctx'[v] = ctx[v] /\ pc'[v] = pc[v]
    BY <1>1 DEF ControlOK
  <2> QED BY <1>1, <2>1, <2>2 DEF ControlOK, PCs
<1>4. TypeOK'
  BY <1>1, <1>3, SameObjects DEF TypeOK, HeapOK, StacksOK, IsStacks, mutatorVars, listVars
<1>5. SnapshotInv' /\ FollowInv'
  BY <1>1, ControlKept DEF ControlOK, Holding, mutatorVars
<1>6. WorkerOK(w)'
  BY <1>1 DEF WorkerOK, ControlOK
<1> QED BY <1>1, <1>2, <1>4, <1>5, <1>6, WorkerMoves

LEMMA RebalanceStep ==
  ASSUME IInv, UNCHANGED instance, UNCHANGED <<weakGood, requested, phase, mutatorVars>>,
         NEW w \in Workers, Rebalance(w), UNCHANGED live
  PROVE  IInv'
<1> USE DEF Rebalance, At, Idle, Goto
<1>1. TypeOK /\ SnapshotInv /\ FollowInv /\ MutatorInv /\ WorkerOK(w) /\ ControlOK
  BY DEF IInv, WorkersInv, TypeOK
<1>2. /\ DOMAIN pc' = Workers /\ pc'[w] \in {"pop", "rebalanced"}
      /\ \A v \in Workers \ {w} : pc'[v] = pc[v]
  BY <1>1 DEF ControlOK
<1> DEFINE Moved ==
      /\ nstripes' \in StripeNumbers /\ DOMAIN ctx' = Workers
      /\ \A v \in Workers \ {w} : ctx'[v] = ctx[v]
      /\ ctx'[w] = [stripe |-> ctx'[w].stripe, nstripes |-> ctx'[w].nstripes,
                    processed |-> ctx'[w].processed]
      /\ ctx'[w].stripe \in Stripes
      /\ DOMAIN flush' = Threads /\ \A t \in Threads \ {w} : flush'[t] = flush[t]
      /\ flush'[w] \in {None, w}
<1>3. Moved
  <2> DEFINE processed == (ctx[w].processed + 1) % RebalancePeriod
  <2>1. CASE /\ ctx' = [ctx EXCEPT ![w].processed = processed]
             /\ UNCHANGED <<nstripes, flush>>
    <3>1. ctx'[w] = [stripe |-> ctx[w].stripe, nstripes |-> ctx[w].nstripes,
                     processed |-> processed]
      BY <1>1, <2>1 DEF ControlOK
    <3> QED BY <1>1, <2>1, <3>1, ThreadsAre DEF ControlOK
  <2>2. ASSUME NEW n \in {nstripes} \cup
                 (IF ctx[w].nstripes = nstripes /\ nstripes < CalculateNStripes(term.nworkers)
                  THEN {2 * nstripes} ELSE {}),
               nstripes' = n,
               ctx' = [ctx EXCEPT ![w] =
                         [stripe |-> StripeForWorker(term.nworkers, n, w), nstripes |-> n,
                          processed |-> processed]],
               flush' = [flush EXCEPT ![w] = w] \/ flush' = flush
        PROVE  Moved
    <3>1. n \in StripeNumbers
      <4>1. term.nworkers \in Nat /\ term.nworkers >= 1
        BY <1>1, MarkAssumption DEF ControlOK
      <4>2. CalculateNStripes(term.nworkers) \in StripeNumbers
        BY <4>1, Calculated
      <4> QED BY <1>1, <2>2, <4>2, Doubled DEF ControlOK
    <3>2. StripeForWorker(term.nworkers, n, w) \in Stripes
      <4>1. term.nworkers \in Nat /\ w \in Nat /\ w < term.nworkers
        BY <1>1, MarkAssumption, ThreadsAre DEF ControlOK, WorkerOK
      <4> QED BY <3>1, <4>1, WorkersStripe
    <3> HIDE DEF processed
    <3> QED BY <1>1, <2>2, <3>1, <3>2, ThreadsAre DEF ControlOK, IInv, FlushInv
  <2> QED BY <2>1, <2>2
<1>4. OthersKept(w)
  BY <1>2, <1>3, ThreadsAre DEF OthersKept, mutatorVars
<1>5. TypeOK'
  <2>1. ControlOK'
    BY <1>1, <1>2, <1>3 DEF ControlOK, PCs
  <2> QED BY <1>1, <2>1, SameObjects DEF TypeOK, HeapOK, StacksOK, IsStacks, mutatorVars, listVars
<1>6. SnapshotInv' /\ FollowInv'
  BY <1>1, <1>2, ControlKept DEF Holding, mutatorVars
<1>7. WorkerOK(w)'
  BY <1>1, <1>2 DEF WorkerOK
<1> QED BY <1>1, <1>4, <1>5, <1>6, <1>7, WorkerMoves

\* A worker that leaves or terminates: the last one wakes up those that wait.
LEMMA LeaveStep ==
  ASSUME IInv, UNCHANGED instance, UNCHANGED <<weakGood, requested, phase, mutatorVars>>,
         NEW w \in Workers, Leave(w) \/ TryTerminate(w), UNCHANGED live
  PROVE  IInv'
<1> USE DEF Leave, TryTerminate, At, Idle, Goto
<1>1. TypeOK /\ SnapshotInv /\ FollowInv /\ MutatorInv /\ WorkerOK(w) /\ ControlOK
  BY DEF IInv, WorkersInv, TypeOK
<1>2. /\ DOMAIN pc' = Workers /\ pc'[w] \in {"end", "waiting"}
      /\ \A v \in Workers \ {w} : pc'[v] = pc[v] \/ (pc[v] = "waiting" /\ pc'[v] = "woken")
  BY <1>1 DEF ControlOK, NotifyAll
<1>3. /\ term' = [nworkers |-> term'.nworkers, nworking |-> term'.nworking,
                  nawakening |-> term'.nawakening, resurrected |-> term'.resurrected]
      /\ term'.nworkers = term.nworkers /\ nstripes' \in StripeNumbers
  BY <1>1, Halved DEF ControlOK
<1>4. OthersKept(w)
  BY <1>2, <1>3, ThreadsAre DEF OthersKept, mutatorVars, IInv, FlushInv
<1>5. TypeOK'
  <2>1. ControlOK'
    BY <1>1, <1>2, <1>3 DEF ControlOK, PCs
  <2> QED BY <1>1, <2>1, SameObjects DEF TypeOK, HeapOK, StacksOK, IsStacks, mutatorVars, listVars
<1>6. SnapshotInv' /\ FollowInv'
  BY <1>1, <1>2, ControlKept DEF Holding, mutatorVars
<1>7. WorkerOK(w)'
  BY <1>1, <1>2, <1>3 DEF WorkerOK
<1> QED BY <1>1, <1>4, <1>5, <1>6, <1>7, WorkerMoves

LEMMA WokenStep ==
  ASSUME IInv, UNCHANGED instance, UNCHANGED <<weakGood, requested, phase, mutatorVars>>,
         NEW w \in Workers, Woken(w), UNCHANGED live
  PROVE  IInv'
<1> USE DEF Woken, At, Idle, Goto
<1>1. TypeOK /\ SnapshotInv /\ FollowInv /\ MutatorInv /\ WorkerOK(w) /\ ControlOK
  BY DEF IInv, WorkersInv, TypeOK
<1>2. /\ DOMAIN pc' = Workers /\ pc'[w] \in {"end", "drain"}
      /\ \A v \in Workers \ {w} : pc'[v] = pc[v]
  BY <1>1 DEF ControlOK
<1>3. /\ term' = [nworkers |-> term'.nworkers, nworking |-> term'.nworking,
                  nawakening |-> term'.nawakening, resurrected |-> term'.resurrected]
      /\ term'.nworkers = term.nworkers
  BY <1>1 DEF ControlOK
<1>4. OthersKept(w)
  BY <1>2, <1>3, ThreadsAre DEF OthersKept, mutatorVars, IInv, FlushInv
<1>5. TypeOK'
  <2>1. ControlOK'
    BY <1>1, <1>2, <1>3 DEF ControlOK, PCs
  <2> QED BY <1>1, <2>1, SameObjects DEF TypeOK, HeapOK, StacksOK, IsStacks, mutatorVars, listVars
<1>6. SnapshotInv' /\ FollowInv'
  BY <1>1, <1>2, ControlKept DEF Holding, mutatorVars
<1>7. WorkerOK(w)'
  BY <1>1, <1>2, <1>3 DEF WorkerOK
<1> QED BY <1>1, <1>4, <1>5, <1>6, <1>7, WorkerMoves

LEMMA EndWorkStep ==
  ASSUME IInv, UNCHANGED instance, UNCHANGED <<weakGood, requested, phase, mutatorVars>>,
         NEW w \in Workers, EndWork(w)
  PROVE  IInv'
<1> USE DEF EndWork, At, Idle, Goto
<1>1. TypeOK /\ SnapshotInv /\ FollowInv /\ MutatorInv /\ WorkerOK(w) /\ ControlOK
  BY DEF IInv, WorkersInv, TypeOK
<1>2. /\ DOMAIN pc' = Workers /\ pc'[w] = "idle" /\ \A v \in Workers \ {w} : pc'[v] = pc[v]
      /\ DOMAIN ctx' = Workers /\ ctx'[w] = NoContext /\ \A v \in Workers \ {w} : ctx'[v] = ctx[v]
      /\ DOMAIN flush' = Threads /\ flush'[w] = w /\ \A t \in Threads \ {w} : flush'[t] = flush[t]
  BY <1>1, ThreadsAre DEF ControlOK
<1>3. OthersKept(w)
  BY <1>2, ThreadsAre DEF OthersKept, mutatorVars
<1>4. TypeOK'
  <2>1. 0 \in Stripes
    BY MarkAssumption DEF Stripes
  <2>2. ControlOK'
    BY <1>1, <1>2, <2>1 DEF ControlOK, PCs, NoContext
  <2> QED BY <1>1, <2>2, SameObjects DEF TypeOK, HeapOK, StacksOK, IsStacks, mutatorVars, listVars
<1>5. SnapshotInv' /\ FollowInv'
  BY <1>1, <1>2, ControlKept DEF Holding, mutatorVars
<1>6. w # None /\ phase = "follow"
  BY <1>1, ThreadsAre DEF WorkerOK
<1>7. WorkerOK(w)'
  BY <1>1, <1>2, <1>6 DEF WorkerOK
<1> QED BY <1>1, <1>3, <1>4, <1>5, <1>7, WorkerMoves

\* Popping an entry whose object is marked, or marking it.
LEMMA MarkStep ==
  ASSUME IInv, UNCHANGED instance, UNCHANGED <<weakGood, requested, phase, mutatorVars>>,
         NEW w \in Workers, Mark(w), UNCHANGED live
  PROVE  IInv'
<1> USE DEF Mark, At, Idle, Goto
<1>1. TypeOK /\ SnapshotInv /\ FollowInv /\ MutatorInv /\ WorkerOK(w) /\ ControlOK
  BY DEF IInv, WorkersInv, TypeOK
<1> DEFINE e == cur[w]
<1>2. /\ e \in Entries /\ e.obj \in Objects
      /\ (e = ToMark(e.obj) /\ e.mark) \/ (e = ToFollow(e.obj) /\ ~e.mark)
  BY <1>1, EntriesAre DEF WorkerOK
<1>3. /\ DOMAIN pc' = Workers /\ \A v \in Workers \ {w} : pc'[v] = pc[v] /\ cur'[v] = cur[v]
      /\ DOMAIN cur' = Workers
      /\ \/ /\ e.mark /\ e.obj \in marked /\ marked' = marked
            /\ pc'[w] = "next" /\ cur'[w] = NoEntry
         \/ marked' = marked \cup {e.obj} /\ pc'[w] = "follow" /\ cur'[w] = e
  BY <1>1 DEF ControlOK
<1> HIDE DEF e
<1>4. OthersKept(w)
  BY <1>3, ThreadsAre DEF OthersKept, mutatorVars, IInv, FlushInv
<1>5. TypeOK'
  <2>1. ControlOK'
    BY <1>1, <1>3 DEF ControlOK, PCs, Holding, NoEntry, Entry, e
  <2>2. marked' \subseteq Objects /\ Roots \subseteq marked'
    BY <1>1, <1>2, <1>3 DEF TypeOK
  <2> QED BY <1>1, <2>1, <2>2, SameObjects DEF TypeOK, HeapOK, StacksOK, IsStacks, mutatorVars, listVars
<1>6. \A x : Pending(x) => Pending(x)'
  BY PendingKept
<1>7. \A x : Held(x) => Held(x)' \/ x = e
  BY <1>3 DEF Held, e
<1>8. ASSUME NEW o \in Objects, Grey(o) PROVE Grey(o)'
  <2>1. CASE Outstanding(ToMark(o))
    <3>1. CASE ToMark(o) = e
      <4>1. e.obj = o /\ e.obj \in marked'
        BY <1>3, <3>1, EntryIs
      <4> QED BY <4>1 DEF Grey
    <3>2. CASE ToMark(o) # e
      BY <1>6, <1>7, <2>1, <3>2 DEF Grey, Outstanding, ToMark, Entry
    <3> QED BY <3>1, <3>2
  <2>2. CASE ~Outstanding(ToMark(o))
    BY <1>3, <1>8, <2>2 DEF Grey, Storing, Within, mutatorVars
  <2> QED BY <2>1, <2>2
<1>9. SnapshotInv'
  <2>1. \A o \in Objects : FieldKept(o) /\ FieldFromSnapshot(o)
    BY DEF FieldKept, FieldFromSnapshot
  <2>2. LocalFromSnapshot
    BY DEF LocalFromSnapshot, mutatorVars
  <2> QED BY <1>1, <1>8, <2>1, <2>2, SnapKept
<1>10. \A o \in Objects : Following(o) => Following(o)'
  BY <1>3 DEF Following
<1>11. FollowInv'
  <2>1. ASSUME NEW o \in Objects, Responsible(o) PROVE Responsible(o)'
    <3>1. CASE Outstanding(ToFollow(o)) /\ ToFollow(o) = e
      <4>1. pc'[w] = "follow" /\ cur'[w].obj = o
        BY <1>2, <1>3, <3>1, EntryIs
      <4> QED BY <4>1 DEF Responsible, Following
    <3>2. CASE Outstanding(ToFollow(o)) /\ ToFollow(o) # e
      BY <1>6, <1>7, <3>2 DEF Responsible, Outstanding, ToFollow, Entry
    <3>3. CASE Following(o)
      BY <1>10, <3>3 DEF Responsible
    <3> QED BY <2>1, <3>1, <3>2, <3>3 DEF Responsible
  <2>2. ASSUME NEW o \in marked', o \notin marked PROVE Responsible(o)'
    <3>1. pc'[w] = "follow" /\ cur'[w].obj = o
      BY <1>3, <2>2 DEF e
    <3> QED BY <3>1 DEF Responsible, Following
  <2> QED BY <1>1, <2>1, <2>2, FollowKept DEF TypeOK
<1>12. WorkerOK(w)'
  BY <1>1, <1>2, <1>3, SameObjects DEF WorkerOK
<1> QED BY <1>1, <1>4, <1>5, <1>9, <1>11, <1>12, WorkerMoves

\* Loading the field of a marked object.
LEMMA FollowStep ==
  ASSUME IInv, UNCHANGED instance, UNCHANGED <<weakGood, requested, phase, mutatorVars>>,
         NEW w \in Workers, Follow(w), UNCHANGED live
  PROVE  IInv'
<1> USE DEF Follow, At, Idle, Goto
<1>1. TypeOK /\ SnapshotInv /\ FollowInv /\ MutatorInv /\ WorkerOK(w) /\ ControlOK
  BY DEF IInv, WorkersInv, TypeOK
<1> DEFINE obj == cur[w].obj
<1>2. obj \in Objects /\ heap[obj].to \in Objects \cup {Null}
  BY <1>1 DEF WorkerOK, TypeOK, HeapOK
<1>3. /\ DOMAIN pc' = Workers /\ DOMAIN cur' = Workers
      /\ \A v \in Workers \ {w} : pc'[v] = pc[v] /\ cur'[v] = cur[v]
      /\ \/ /\ heap[obj].to = Null \/ heap[obj].good
            /\ pc'[w] = "next" /\ cur'[w] = NoEntry
         \/ /\ heap[obj].to # Null
            /\ pc'[w] = "child"
            /\ cur'[w] = [obj |-> obj, mark |-> cur[w].mark, incLive |-> cur[w].incLive,
                          child |-> heap[obj].to]
  BY <1>1 DEF ControlOK
<1> HIDE DEF obj
<1>4. OthersKept(w)
  BY <1>3, ThreadsAre DEF OthersKept, mutatorVars, IInv, FlushInv
<1>5. TypeOK'
  <2>1. ControlOK'
    BY <1>1, <1>3 DEF ControlOK, PCs, Holding, NoEntry, Entry
  <2> QED BY <1>1, <2>1, SameObjects DEF TypeOK, HeapOK, StacksOK, IsStacks, mutatorVars, listVars
<1>6. \A x : Outstanding(x) => Outstanding(x)'
  BY <1>3, PendingKept DEF Outstanding, Held
<1>7. SnapshotInv'
  <2>1. \A o \in Objects : Grey(o) => Grey(o)'
    BY <1>6 DEF Grey, Storing, Within, mutatorVars, ToMark, Entry
  <2>2. \A o \in Objects : FieldKept(o) /\ FieldFromSnapshot(o)
    BY DEF FieldKept, FieldFromSnapshot
  <2>3. LocalFromSnapshot
    BY DEF LocalFromSnapshot, mutatorVars
  <2> QED BY <1>1, <2>1, <2>2, <2>3, SnapKept
<1>8. FollowInv'
  <2>1. ASSUME NEW o \in marked, Responsible(o)
        PROVE  Responsible(o)' \/ heap'[o].good \/ heap'[o].to = Null
    <3>1. CASE Outstanding(ToFollow(o))
      BY <1>6, <3>1 DEF Responsible, ToFollow, Entry
    <3>2. CASE Following(o)
      <4>1. Following(o)' \/ (o = obj /\ (heap[obj].to = Null \/ heap[obj].good))
        BY <1>3, <3>2 DEF Following, obj
      <4> QED BY <4>1 DEF Responsible
    <3> QED BY <2>1, <3>1, <3>2 DEF Responsible
  <2> QED BY <1>1, <2>1, FollowKept
<1>9. WorkerOK(w)'
  BY <1>1, <1>2, <1>3, SameObjects DEF WorkerOK
<1> QED BY <1>1, <1>4, <1>5, <1>7, <1>8, <1>9, WorkerMoves

\* The compare and swap that makes a field good; what it refers to is marked.
LEMMA HealStep ==
  ASSUME IInv, UNCHANGED instance, UNCHANGED <<weakGood, requested, phase, mutatorVars>>,
         NEW w \in Workers, Heal(w), UNCHANGED live
  PROVE  IInv'
<1> USE DEF Heal, At, Idle, Goto
<1>1. TypeOK /\ SnapshotInv /\ FollowInv /\ MutatorInv /\ WorkerOK(w) /\ ControlOK
  BY DEF IInv, WorkersInv, TypeOK
<1> DEFINE obj == cur[w].obj
<1>2. /\ obj \in Objects /\ heap[obj] = [to |-> heap[obj].to, good |-> heap[obj].good]
      /\ cur[w].child \in Objects \cap marked
      /\ heap[obj].good \/ heap[obj].to = cur[w].child
  BY <1>1 DEF WorkerOK, TypeOK, HeapOK
<1>3. /\ DOMAIN pc' = Workers /\ DOMAIN cur' = Workers
      /\ \A v \in Workers \ {w} : pc'[v] = pc[v] /\ cur'[v] = cur[v]
      /\ pc'[w] = "next" /\ cur'[w] = NoEntry
  BY <1>1 DEF ControlOK
<1>4. /\ DOMAIN heap' = Objects /\ heap'[obj] = [to |-> heap[obj].to, good |-> TRUE]
      /\ \A o \in Objects \ {obj} : heap'[o] = heap[o]
  BY <1>1, <1>2 DEF TypeOK, HeapOK
<1> HIDE DEF obj
<1>5. OthersKept(w)
  <2>1. \A o \in Objects : heap'[o] = heap[o] \/ (heap'[o].good /\ heap'[o].to = heap[o].to)
    BY <1>4
  <2> QED BY <1>3, <2>1, ThreadsAre DEF OthersKept, mutatorVars, IInv, FlushInv
<1>6. TypeOK'
  <2>1. ControlOK'
    BY <1>1, <1>3 DEF ControlOK, PCs, Holding, NoEntry, Entry
  <2>2. HeapOK'
    <3>1. ASSUME NEW o \in Objects
          PROVE  /\ heap'[o] = [to |-> heap'[o].to, good |-> heap'[o].good]
                 /\ heap'[o].to \in Objects \cup {Null} /\ heap'[o].good \in BOOLEAN
      <4>1. CASE o = obj
        <5>1. heap'[o] = [to |-> heap[obj].to, good |-> TRUE]
          BY <1>4, <4>1
        <5>2. heap'[o].to = heap[obj].to
          BY <5>1
        <5>3. heap'[o].good = TRUE
          BY <5>1
        <5>4. heap'[o] = [to |-> heap'[o].to, good |-> heap'[o].good]
          BY <5>1, <5>2, <5>3
        <5> QED BY <1>1, <1>2, <5>2, <5>3, <5>4 DEF TypeOK, HeapOK
      <4>2. CASE o # obj
        BY <1>1, <1>4, <4>2 DEF TypeOK, HeapOK
      <4> QED BY <4>1, <4>2
    <3> QED BY <1>4, <3>1, SameObjects DEF HeapOK
  <2> QED BY <1>1, <2>1, <2>2, SameObjects DEF TypeOK, StacksOK, IsStacks, mutatorVars, listVars
<1>7. \A x : Outstanding(x) => Outstanding(x)'
  BY <1>3, PendingKept DEF Outstanding, Held
<1>8. SnapshotInv'
  <2>1. \A o \in Objects : Grey(o) => Grey(o)'
    BY <1>7 DEF Grey, Storing, Within, mutatorVars, ToMark, Entry
  <2>2. PICK child \in Objects : child = cur[w].child /\ child \in marked
    BY <1>2
  <2>3. ASSUME NEW o \in Objects PROVE FieldKept(o) /\ FieldFromSnapshot(o)
    <3>1. CASE o = obj
      <4>1. Grey(child)'
        BY <2>2 DEF Grey
      <4>2. heap[o].good \/ heap[o].to = child
        BY <1>2, <2>2, <3>1
      <4>3. heap'[o].to = heap[o].to
        BY <1>4, <3>1
      <4> QED BY <4>1, <4>2, <4>3 DEF FieldKept, FieldFromSnapshot
    <3>2. CASE o # obj
      BY <1>4, <3>2 DEF FieldKept, FieldFromSnapshot
    <3> QED BY <3>1, <3>2
  <2>4. LocalFromSnapshot
    BY DEF LocalFromSnapshot, mutatorVars
  <2> QED BY <1>1, <2>1, <2>3, <2>4, SnapKept
<1>9. FollowInv'
  <2>1. ASSUME NEW o \in marked, Responsible(o)
        PROVE  Responsible(o)' \/ heap'[o].good \/ heap'[o].to = Null
    <3>1. CASE Outstanding(ToFollow(o))
      BY <1>7, <3>1 DEF Responsible, ToFollow, Entry
    <3>2. CASE Following(o)
      <4>1. Following(o)' \/ o = obj
        BY <1>3, <3>2 DEF Following, obj
      <4> QED BY <1>4, <4>1 DEF Responsible
    <3> QED BY <2>1, <3>1, <3>2 DEF Responsible
  <2>2. \A o \in marked : heap'[o] = heap[o] \/ heap'[o].good
    BY <1>1, <1>4 DEF TypeOK
  <2> QED BY <1>1, <2>1, <2>2, FollowKept
<1>10. WorkerOK(w)'
  BY <1>1, <1>2, <1>3, SameObjects DEF WorkerOK
<1> QED BY <1>1, <1>5, <1>6, <1>8, <1>9, <1>10, WorkerMoves

\* Marking what a field refers to, and pushing it when this worker marked it.
LEMMA MarkChildStep ==
  ASSUME IInv, UNCHANGED instance, UNCHANGED <<weakGood, requested, phase, mutatorVars>>,
         NEW w \in Workers, MarkChild(w), UNCHANGED live
  PROVE  IInv'
<1> USE DEF At, Idle, Goto
<1>1. TypeOK /\ SnapshotInv /\ FollowInv /\ MutatorInv /\ WorkerOK(w) /\ ControlOK /\ StacksOK
  BY DEF IInv, WorkersInv, TypeOK
<1>2. PICK child \in Objects : child = cur[w].child
  BY <1>1 DEF MarkChild, WorkerOK
<1>3. /\ pc[w] = "child"
      /\ marked' = marked \cup {child} /\ pc' = [pc EXCEPT ![w] = "heal"]
      /\ IF child \in marked THEN UNCHANGED <<stacks, listVars, wake>>
         ELSE Push(w, ToFollow(child), FALSE)
      /\ UNCHANGED <<heap, cache, nstripes, term, ctx, cur, flush, flushOp, nproactive,
                     disturbances>>
  BY <1>2 DEF MarkChild, ToFollow
<1>4. /\ StacksOK'
      /\ \A e : Pending(e) => Pending(e)'
      /\ child \in marked \/ Pending(ToFollow(child))'
      /\ \A u \in Threads \ {w} : stacks'[u] = stacks[u]
  <2>1. CASE child \in marked
    BY <1>1, <1>3, <2>1, PendingKept, SameObjects DEF StacksOK, IsStacks, listVars
  <2>2. CASE child \notin marked
    <3> DEFINE e == ToFollow(child)
    <3>1. e \in Entries /\ e' = e
      BY EntryIs, SameObjects
    <3>2. Push(w, e, FALSE)
      BY <1>3, <2>2
    <3> HIDE DEF e
    <3>3. /\ StacksOK' /\ \A u \in Threads \ {w} : stacks'[u] = stacks[u]
          /\ \A x : Pending(x) => Pending(x)'
          /\ Pending(e)'
      BY <1>1, <3>1, <3>2, PushKeeps, ThreadsAre
    <3> QED BY <3>3 DEF e
  <2> QED BY <2>1, <2>2
<1>5. /\ DOMAIN pc' = Workers /\ pc'[w] = "heal" /\ \A v \in Workers \ {w} : pc'[v] = pc[v]
      /\ cur' = cur
  BY <1>1, <1>3 DEF ControlOK
<1>6. OthersKept(w)
  BY <1>3, <1>4, <1>5, ThreadsAre DEF OthersKept, mutatorVars, IInv, FlushInv
<1>7. TypeOK'
  <2>1. ControlOK'
    BY <1>1, <1>3, <1>5 DEF ControlOK, PCs, Holding
  <2>2. marked' \subseteq Objects /\ Roots \subseteq marked'
    BY <1>1, <1>3 DEF TypeOK
  <2> QED BY <1>1, <1>3, <1>4, <2>1, <2>2, SameObjects DEF TypeOK, HeapOK, mutatorVars
<1>8. \A x : Outstanding(x) => Outstanding(x)'
  BY <1>3, <1>4, <1>5 DEF Outstanding, Held
<1>9. \A o : Following(o) => Following(o)'
  BY <1>3, <1>5 DEF Following
<1>10. SnapshotInv'
  <2>1. \A o \in Objects : Grey(o) => Grey(o)'
    BY <1>3, <1>8 DEF Grey, Storing, Within, mutatorVars, ToMark, Entry
  <2>2. \A o \in Objects : FieldKept(o) /\ FieldFromSnapshot(o)
    BY <1>3 DEF FieldKept, FieldFromSnapshot
  <2>3. LocalFromSnapshot
    BY DEF LocalFromSnapshot, mutatorVars
  <2> QED BY <1>1, <2>1, <2>2, <2>3, SnapKept
<1>11. FollowInv'
  <2>1. \A o \in marked : Responsible(o) => Responsible(o)'
    BY <1>8, <1>9 DEF Responsible, ToFollow, Entry
  <2>2. \A o \in marked' : o \in marked \/ Responsible(o)'
    BY <1>3, <1>4 DEF Responsible, Outstanding
  <2> QED BY <1>1, <1>3, <2>1, <2>2, FollowKept
<1>12. WorkerOK(w)'
  <2>1. cur'[w].child \in marked' /\ cur'[w].child \in Objects
    BY <1>2, <1>3
  <2> QED BY <1>1, <1>3, <1>5, <2>1, SameObjects DEF WorkerOK
<1> QED BY <1>1, <1>3, <1>6, <1>7, <1>10, <1>11, <1>12, WorkerMoves

LEMMA PopStep ==
  ASSUME IInv, UNCHANGED instance, UNCHANGED <<weakGood, requested, phase, mutatorVars>>,
         NEW w \in Workers, Pop(w), UNCHANGED live
  PROVE  IInv'
<1> USE DEF At, Idle
<1>1. TypeOK /\ SnapshotInv /\ FollowInv /\ MutatorInv /\ WorkerOK(w) /\ ControlOK
  BY DEF IInv, WorkersInv, TypeOK
<1>2. /\ StacksOK' /\ \A u \in Threads \ {w} : stacks'[u] = stacks[u]
      /\ \/ /\ cur' = [cur EXCEPT ![w] = cur'[w]] /\ cur'[w] \in Entries
            /\ pc' = [pc EXCEPT ![w] = "mark"]
            /\ \A e : Pending(e) => Pending(e)' \/ e = cur'[w]
         \/ /\ cur' = cur /\ pc' = [pc EXCEPT ![w] = "steal"]
            /\ ctx[w].stripe \notin DOMAIN stacks'[w]
            /\ \A e : Pending(e) => Pending(e)'
  BY <1>1, PopKeeps
<1>3. /\ pc[w] \in {"pop", "rebalanced"}
      /\ UNCHANGED <<heap, marked, cache, nstripes, term, ctx, wake, flush, flushOp,
                     nproactive, disturbances>>
  BY DEF Pop
<1>4. /\ DOMAIN pc' = Workers /\ DOMAIN cur' = Workers
      /\ \A v \in Workers \ {w} : pc'[v] = pc[v] /\ cur'[v] = cur[v]
      /\ \/ pc'[w] = "mark" /\ cur'[w] \in Entries
         \/ /\ pc'[w] = "steal" /\ cur'[w] = cur[w]
            /\ ctx'[w].stripe \notin DOMAIN stacks'[w]
      /\ \A e : Pending(e) => Pending(e)' \/ (pc'[w] = "mark" /\ cur'[w] = e)
  BY <1>1, <1>2, <1>3 DEF ControlOK
<1>5. OthersKept(w)
  BY <1>2, <1>3, <1>4, ThreadsAre DEF OthersKept, mutatorVars, IInv, FlushInv
<1>6. TypeOK'
  <2>1. cur'[w] \in Entries =>
          cur'[w] = [obj |-> cur'[w].obj, mark |-> cur'[w].mark, incLive |-> cur'[w].incLive,
                     child |-> cur'[w].child]
    BY EntriesAre
  <2>2. ControlOK'
    BY <1>1, <1>3, <1>4, <2>1 DEF ControlOK, PCs, Holding
  <2> QED BY <1>1, <1>2, <1>3, <2>2, SameObjects DEF TypeOK, HeapOK, mutatorVars
<1>7. \A x : Outstanding(x) => Outstanding(x)'
  BY <1>3, <1>4 DEF Outstanding, Held
<1>8. \A o : Following(o) => Following(o)'
  BY <1>3, <1>4 DEF Following
<1>9. SnapshotInv' /\ FollowInv'
  <2>1. \A o \in Objects : Outstanding(ToMark(o)) => Outstanding(ToMark(o))'
    BY <1>7 DEF ToMark, Entry
  <2>2. \A o \in Objects : Responsible(o) => Responsible(o)'
    BY <1>7, <1>8 DEF Responsible, ToFollow, Entry
  <2> QED BY <1>1, <1>3, <2>1, <2>2, WorkKept DEF mutatorVars
<1>10. WorkerOK(w)'
  BY <1>1, <1>3, <1>4, SameObjects DEF WorkerOK
<1> QED BY <1>1, <1>3, <1>5, <1>6, <1>9, <1>10, WorkerMoves

\* The other stripes, in order from the worker's: each of them is a victim.
LEMMA VictimIs ==
  ASSUME TypeOK, NEW w \in Workers, NEW S, S \subseteq Stripes \ {ctx[w].stripe}, S # {}
  PROVE  FirstVictim(w, S) \in S
<1> DEFINE s == ctx[w].stripe
           V == Victims(w)
           I == {i \in DOMAIN V : V[i] \in S}
<1>1. StripesMax \in {1, 2, 4, 8, 16} /\ s \in 0..StripesMax - 1
  BY MarkAssumption DEF TypeOK, ControlOK, Stripes
<1>2. ASSUME NEW n \in {1, 2, 4, 8, 16}, NEW a \in 0..n - 1
      PROVE  a % n = a /\ (a + n) % n = a
  BY <1>2
<1>3. DOMAIN V = 1..StripesMax - 1 /\ \A i \in DOMAIN V : V[i] = (s + i) % StripesMax
  BY DEF Victims
<1>4. PICK v \in S : v \in 0..StripesMax - 1 /\ v # s
  BY DEF Stripes
<1> HIDE DEF s, V
<1>5. \E i \in 1..StripesMax - 1 : (s + i) % StripesMax = v
  <2>1. CASE v > s
    <3>1. v - s \in 1..StripesMax - 1 /\ s + (v - s) = v
      BY <1>1, <1>4, <2>1
    <3>2. v % StripesMax = v
      BY <1>1, <1>2, <1>4
    <3> QED BY <3>1, <3>2
  <2>2. CASE v < s
    <3>1. (v - s) + StripesMax \in 1..StripesMax - 1 /\ s + ((v - s) + StripesMax) = v + StripesMax
      BY <1>1, <1>4, <2>2
    <3>2. (v + StripesMax) % StripesMax = v
      BY <1>1, <1>2, <1>4
    <3> QED BY <3>1, <3>2
  <2> QED BY <1>1, <1>4, <2>1, <2>2
<1>6. I \subseteq Nat /\ I # {}
  <2>1. I \subseteq DOMAIN V
    OBVIOUS
  <2>2. DOMAIN V \subseteq Nat
    BY <1>1, <1>3
  <2>3. PICK i \in DOMAIN V : V[i] = v
    BY <1>3, <1>5
  <2> QED BY <2>1, <2>2, <2>3
<1>7. PICK i \in I : \A j \in I : i <= j
  <2> HIDE DEF I
  <2> QED BY <1>6, LeastNumber
<1>8. \A j \in 1..i - 1 : V[j] \notin S
  <2> SUFFICES ASSUME NEW j \in 1..i - 1, V[j] \in S PROVE FALSE
    OBVIOUS
  <2>1. i \in 1..StripesMax - 1 /\ j \in 1..StripesMax - 1 /\ j < i
    BY <1>1, <1>3
  <2>2. j \in I
    BY <1>3, <2>1
  <2> QED BY <1>7, <2>1, <2>2
<1>9. i \in DOMAIN V /\ V[i] \in S
  OBVIOUS
<1>10. FirstVictim(w, S) =
         V[CHOOSE k \in DOMAIN V : V[k] \in S /\ \A j \in 1..k - 1 : V[j] \notin S]
  BY DEF FirstVictim, V
<1> HIDE DEF I
<1>11. V[CHOOSE k \in DOMAIN V : V[k] \in S /\ \A j \in 1..k - 1 : V[j] \notin S] \in S
  BY ONLY <1>8, <1>9, Zenon
<1> QED BY <1>10, <1>11

\* Stealing from the worker's own stacks, or from the lists.
LEMMA StealsKeep ==
  ASSUME TypeOK, UNCHANGED instance, NEW w \in Workers, TrySteal(w),
         ctx[w].stripe \notin DOMAIN stacks[w]
  PROVE  /\ StacksOK' /\ \A u \in Threads \ {w} : stacks'[u] = stacks[u]
         /\ \A e : Pending(e) => Pending(e)'
         /\ pc' = [pc EXCEPT ![w] = pc'[w]] /\ pc'[w] \in {"drain", "proactive", "terminate"}
         /\ pc'[w] = "proactive" => w = 0
<1> DEFINE s == ctx[w].stripe
           mine == DOMAIN stacks[w] \ {s}
           global == {v \in Stripes \ {s} : CanSteal(v)}
           install(stack, rest) == stacks' = [stacks EXCEPT ![w] = Install(rest, s, stack)]
           Kept == /\ StacksOK' /\ \A u \in Threads \ {w} : stacks'[u] = stacks[u]
                   /\ \A e : Pending(e) => Pending(e)'
<1>1. /\ StacksOK /\ IsStacks(stacks[w]) /\ s \in Stripes /\ w \in Threads
      /\ DOMAIN pc = Workers
  <2>1. w \in Threads
    BY ThreadsAre
  <2>2. StacksOK /\ IsStacks(stacks[w])
    BY <2>1 DEF TypeOK, StacksOK
  <2> QED BY <2>1, <2>2 DEF TypeOK, ControlOK
<1>2. Entries' = Entries /\ Listed' = Listed
  BY SameObjects
<1>3. ASSUME mine # {}, NEW v, v = FirstVictim(w, mine),
             install(stacks[w][v], Without(stacks[w], v)), UNCHANGED listVars
      PROVE  Kept
  <2> DEFINE rest == Without(stacks[w], v)
             stack == stacks[w][v]
             new == Install(rest, s, stack)
  <2>1. v \in mine
    <3>1. mine \subseteq Stripes \ {s}
      BY <1>1 DEF IsStacks
    <3> HIDE DEF mine
    <3> QED BY <1>3, <3>1, VictimIs
  <2>2. stack \in Seq(Entries)
    BY <1>1, <2>1 DEF IsStacks
  <2>3. IsStacks(rest) /\ DOMAIN rest = DOMAIN stacks[w] \ {v}
        /\ \A x \in DOMAIN stacks[w] \ {v} : rest[x] = stacks[w][x]
    BY <1>1, WithoutTyped
  <2> HIDE DEF rest, stack
  <2>4. IsStacks(new)
    BY <1>1, <2>2, <2>3, InstallTyped
  <2>5. /\ DOMAIN new = DOMAIN rest \cup {s} /\ new[s] = stack
        /\ \A x \in DOMAIN rest \ {s} : new[x] = rest[x]
    BY DEF Install
  <2> HIDE DEF new
  <2>6. Replaced(w, new)
    BY <1>3 DEF Replaced, new, rest, stack
  <2>7. /\ DOMAIN stacks' = Threads /\ stacks'[w] = new
        /\ \A u \in Threads \ {w} : stacks'[u] = stacks[u]
        /\ \A u \in Threads : IsStacks(stacks'[u])
    BY <1>1, <2>4, <2>6, StackReplaced
  <2>8. \A e : InStacks(e) =>
              InStacks(e)' \/ \E x \in DOMAIN stacks[w] : /\ Within(e, stacks[w][x])
                                                          /\ \A y \in DOMAIN new : ~Within(e, new[y])
    BY <1>1, <2>4, <2>6, StackReplaced
  <2>9. \A x \in DOMAIN stacks[w] : \E y \in DOMAIN new : new[y] = stacks[w][x]
    <3> SUFFICES ASSUME NEW x \in DOMAIN stacks[w] PROVE \E y \in DOMAIN new : new[y] = stacks[w][x]
      OBVIOUS
    <3>1. CASE x = v
      BY <2>5, <3>1 DEF stack
    <3>2. CASE x # v
      BY <2>3, <2>5, <3>2
    <3> QED BY <3>1, <3>2
  <2>10. \A e : InStacks(e) => InStacks(e)'
    <3> SUFFICES ASSUME NEW e, InStacks(e), ~InStacks(e)' PROVE FALSE
      OBVIOUS
    <3>1. PICK x \in DOMAIN stacks[w] : /\ Within(e, stacks[w][x])
                                        /\ \A y \in DOMAIN new : ~Within(e, new[y])
      BY <2>8
    <3>2. PICK y \in DOMAIN new : new[y] = stacks[w][x]
      BY <2>9
    <3> QED BY <3>1, <3>2
  <2>11. StacksOK'
    BY <1>1, <1>2, <1>3, <2>7 DEF StacksOK, IsStacks, listVars
  <2>12. \A e : Pending(e) => Pending(e)'
    BY <1>3, <2>10, ListsKept DEF Pending
  <2> QED BY <2>7, <2>11, <2>12
<1>4. ASSUME mine = {}, global # {}, NEW v, v = FirstVictim(w, global),
             install(Stealable(v), stacks[w]), StealStack(v)
      PROVE  Kept
  <2> DEFINE stack == Stealable(v)
             new == Install(stacks[w], s, stack)
  <2>1. v \in Stripes /\ CanSteal(v)
    <3>1. global \subseteq Stripes \ {s}
      OBVIOUS
    <3>2. v \in global
      <4> HIDE DEF global
      <4> QED BY <1>4, <3>1, VictimIs
    <3> QED BY <3>2
  <2>2. /\ stack \in Listed
        /\ DOMAIN published' = Stripes /\ DOMAIN overflowed' = Stripes
        /\ \A r \in Stripes : published'[r] \in Seq(Listed)
        /\ \A r \in Stripes : overflowed'[r] \in Seq(Listed)
        /\ \A e : InPublished(e) => Within(e, stack) \/ InPublished(e)'
        /\ \A e : InOverflowed(e) => Within(e, stack) \/ InOverflowed(e)'
    BY <1>1, <1>4, <2>1, StealKeeps
  <2>3. stack \in Seq(Entries)
    BY <2>2 DEF Listed
  <2> HIDE DEF stack
  <2>4. IsStacks(new)
    BY <1>1, <2>3, InstallTyped
  <2>5. /\ DOMAIN new = DOMAIN stacks[w] \cup {s} /\ new[s] = stack
        /\ \A x \in DOMAIN stacks[w] \ {s} : new[x] = stacks[w][x]
    BY DEF Install
  <2> HIDE DEF new
  <2>6. Replaced(w, new)
    BY <1>4 DEF Replaced, new, stack
  <2>7. /\ DOMAIN stacks' = Threads /\ stacks'[w] = new
        /\ \A u \in Threads \ {w} : stacks'[u] = stacks[u]
        /\ \A u \in Threads : IsStacks(stacks'[u])
    BY <1>1, <2>4, <2>6, StackReplaced
  <2>8. \A e : InStacks(e) =>
              InStacks(e)' \/ \E x \in DOMAIN stacks[w] : /\ Within(e, stacks[w][x])
                                                          /\ \A y \in DOMAIN new : ~Within(e, new[y])
    BY <1>1, <2>4, <2>6, StackReplaced
  <2>9. \A e : InStacks(e) => InStacks(e)'
    <3> SUFFICES ASSUME NEW e, InStacks(e), ~InStacks(e)' PROVE FALSE
      OBVIOUS
    <3>1. PICK x \in DOMAIN stacks[w] : /\ Within(e, stacks[w][x])
                                        /\ \A y \in DOMAIN new : ~Within(e, new[y])
      BY <2>8
    <3>2. x \in DOMAIN new /\ new[x] = stacks[w][x]
      BY <2>5
    <3> QED BY <3>1, <3>2
  <2>10. \A e : Within(e, stack) => InStacks(e)'
    BY <1>1, <2>5, <2>7 DEF InStacks, Within
  <2>11. StacksOK'
    BY <1>1, <1>2, <2>2, <2>7 DEF StacksOK, IsStacks
  <2>12. \A e : Pending(e) => Pending(e)'
    BY <2>2, <2>9, <2>10 DEF Pending
  <2> QED BY <2>7, <2>11, <2>12
<1>5. ASSUME UNCHANGED <<stacks, listVars>> PROVE Kept
  BY <1>1, <1>2, <1>5, PendingKept DEF StacksOK, IsStacks, listVars
<1>6. Kept
  BY <1>3, <1>4, <1>5 DEF TrySteal
<1>7. pc' = [pc EXCEPT ![w] = pc'[w]] /\ pc'[w] \in {"drain", "proactive", "terminate"}
      /\ (pc'[w] = "proactive" => w = 0)
  BY <1>1 DEF TrySteal, Goto
<1> QED BY <1>6, <1>7

LEMMA TryStealStep ==
  ASSUME IInv, UNCHANGED instance, UNCHANGED <<weakGood, requested, phase, mutatorVars>>,
         NEW w \in Workers, TrySteal(w), UNCHANGED live
  PROVE  IInv'
<1> USE DEF At, Idle
<1>1. TypeOK /\ SnapshotInv /\ FollowInv /\ MutatorInv /\ WorkerOK(w) /\ ControlOK
  BY DEF IInv, WorkersInv, TypeOK
<1>2. /\ pc[w] = "steal"
      /\ UNCHANGED <<heap, marked, cache, nstripes, term, ctx, cur, wake, flush, flushOp,
                     nproactive, disturbances>>
  BY DEF TrySteal
<1>3. ctx[w].stripe \notin DOMAIN stacks[w]
  BY <1>1, <1>2 DEF WorkerOK
<1>4. /\ StacksOK' /\ \A u \in Threads \ {w} : stacks'[u] = stacks[u]
      /\ \A e : Pending(e) => Pending(e)'
      /\ pc' = [pc EXCEPT ![w] = pc'[w]] /\ pc'[w] \in {"drain", "proactive", "terminate"}
      /\ pc'[w] = "proactive" => w = 0
  BY <1>1, <1>3, StealsKeep
<1>5. DOMAIN pc' = Workers /\ \A v \in Workers \ {w} : pc'[v] = pc[v]
  BY <1>1, <1>4 DEF ControlOK
<1>6. OthersKept(w)
  BY <1>2, <1>4, <1>5, ThreadsAre DEF OthersKept, mutatorVars, IInv, FlushInv
<1>7. TypeOK'
  <2>1. ControlOK'
    BY <1>1, <1>2, <1>4, <1>5 DEF ControlOK, PCs, Holding
  <2> QED BY <1>1, <1>2, <1>4, <2>1, SameObjects DEF TypeOK, HeapOK, mutatorVars
<1>8. SnapshotInv' /\ FollowInv'
  <2>1. \A x : Outstanding(x) => Outstanding(x)'
    BY <1>2, <1>4, <1>5 DEF Outstanding, Held
  <2>2. \A o : Following(o) => Following(o)'
    BY <1>2, <1>5 DEF Following
  <2>3. \A o \in Objects : Outstanding(ToMark(o)) => Outstanding(ToMark(o))'
    BY <2>1 DEF ToMark, Entry
  <2>4. \A o \in Objects : Responsible(o) => Responsible(o)'
    BY <2>1, <2>2 DEF Responsible, ToFollow, Entry
  <2> QED BY <1>1, <1>2, <2>3, <2>4, WorkKept DEF mutatorVars
<1>9. WorkerOK(w)'
  BY <1>1, <1>2, <1>4, SameObjects DEF WorkerOK
<1> QED BY <1>1, <1>2, <1>6, <1>7, <1>8, <1>9, WorkerMoves

LEMMA SpuriousStep ==
  ASSUME IInv, UNCHANGED instance, NEW w \in Workers, SpuriousWakeUp(w)
  PROVE  IInv'
<1> USE DEF SpuriousWakeUp, At, Idle, Goto
<1>1. TypeOK /\ SnapshotInv /\ FollowInv /\ MutatorInv /\ WorkerOK(w) /\ ControlOK
  BY DEF IInv, WorkersInv, TypeOK
<1>2. DOMAIN pc' = Workers /\ pc'[w] = "woken" /\ \A v \in Workers \ {w} : pc'[v] = pc[v]
  BY <1>1 DEF ControlOK
<1>3. OthersKept(w)
  BY <1>2, ThreadsAre DEF OthersKept, mutatorVars, IInv, FlushInv
<1>4. TypeOK'
  <2>1. ControlOK'
    BY <1>1, <1>2 DEF ControlOK, PCs, Holding
  <2> QED BY <1>1, <2>1, SameObjects DEF TypeOK, HeapOK, StacksOK, IsStacks, mutatorVars, listVars
<1>5. SnapshotInv' /\ FollowInv'
  BY <1>1, <1>2, ControlKept DEF Holding, mutatorVars
<1>6. WorkerOK(w)'
  BY <1>1, <1>2 DEF WorkerOK
<1> QED BY <1>1, <1>3, <1>4, <1>5, <1>6, WorkerMoves
-----------------------------------------------------------------------------
\* Steps of control that are not a worker's.
LEMMA ControlTyped ==
  ASSUME TypeOK, UNCHANGED <<instance, heap, marked, stacks, listVars, local, buffer>>, ControlOK'
  PROVE  TypeOK'
BY SameObjects DEF TypeOK, HeapOK, StacksOK, IsStacks, listVars

LEMMA ProactiveStep ==
  ASSUME IInv, UNCHANGED instance, UNCHANGED <<weakGood, requested, phase, mutatorVars>>,
         NEW w \in Workers, ProactiveFlush(w), UNCHANGED live
  PROVE  IInv'
<1> USE DEF ProactiveFlush, At, Idle, Goto, mutatorVars
<1>1. TypeOK /\ SnapshotInv /\ FollowInv /\ MutatorInv /\ WorkersInv /\ ControlOK /\ FlushInv
  BY DEF IInv, TypeOK
<1>2. pc[w] = "proactive" /\ w = 0 /\ phase = "follow"
  BY <1>1 DEF WorkersInv, WorkerOK
<1>3. /\ DOMAIN pc' = Workers /\ \A v \in Workers \ {w} : pc'[v] = pc[v]
      /\ \/ /\ pc'[w] = "proactive" /\ flushOp.stage = "none"
            /\ flushOp' = [by |-> w, stage |-> "handshake", flushed |-> FALSE]
         \/ /\ pc'[w] \in {"drain", "terminate"} /\ flushOp.stage = "result"
            /\ flushOp' = NoFlush
  BY <1>1, <1>2 DEF ControlOK, StartFlush
<1>4. ControlOK'
  BY <1>1, <1>3 DEF ControlOK, PCs, Stages, NoFlush
<1>5. TypeOK'
  BY <1>1, <1>4, ControlTyped
<1>6. SnapshotInv' /\ FollowInv' /\ MutatorInv'
  BY <1>1, <1>2, <1>3, ControlKept DEF Holding
<1>7. WorkersInv'
  <2> SUFFICES ASSUME NEW v \in Workers PROVE WorkerOK(v)'
    BY DEF WorkersInv
  <2>1. CASE v = w
    BY <1>1, <1>2, <1>3, <2>1 DEF WorkersInv, WorkerOK
  <2>2. CASE v # w
    BY <1>1, <1>3, <2>2, WorkerKept DEF WorkersInv
  <2> QED BY <2>1, <2>2
<1>8. FlushInv'
  BY <1>1, <1>2, <1>3, ThreadsAre DEF FlushInv, NoFlush
<1>9. EndInv'
  BY <1>2 DEF EndInv
<1> QED BY <1>5, <1>6, <1>7, <1>8, <1>9 DEF IInv

LEMMA WakeUpStep ==
  ASSUME IInv, UNCHANGED instance, NEW t \in Threads, WakeUp(t)
  PROVE  IInv'
<1> USE DEF mutatorVars
<1>1. TypeOK /\ SnapshotInv /\ FollowInv /\ MutatorInv /\ WorkersInv /\ ControlOK /\ FlushInv
      /\ EndInv
  BY DEF IInv, TypeOK
<1>2. /\ UNCHANGED <<heap, weakGood, marked, live, cache, stacks, listVars, nstripes,
                     flush, flushOp, nproactive, requested, phase, mutatorVars, disturbances>>
      /\ cur' = cur /\ ctx' = ctx
  BY DEF WakeUp, WakeLoad, WakeCheck, WakeLock, WakeStore, workVars
<1>3. /\ DOMAIN pc' = Workers
      /\ \A v \in Workers : pc'[v] = pc[v] \/ (pc[v] = "waiting" /\ pc'[v] = "woken")
      /\ term' = [nworkers |-> term'.nworkers, nworking |-> term'.nworking,
                  nawakening |-> term'.nawakening, resurrected |-> term'.resurrected]
      /\ term'.nworkers = term.nworkers /\ term'.resurrected = term.resurrected
  <2>1. CASE WakeLoad(t) \/ WakeCheck(t) \/ WakeLock(t)
    BY <1>1, <2>1 DEF WakeLoad, WakeCheck, WakeLock, workVars, ControlOK
  <2>2. CASE WakeStore(t)
    <3>1. \/ pc' = pc
          \/ \E w \in {w \in Workers : pc[w] = "waiting"} : pc' = [pc EXCEPT ![w] = "woken"]
      BY <2>2 DEF WakeStore
    <3>2. /\ DOMAIN pc' = Workers
          /\ \A v \in Workers : pc'[v] = pc[v] \/ (pc[v] = "waiting" /\ pc'[v] = "woken")
      BY <1>1, <3>1 DEF ControlOK
    <3>3. term' = [term EXCEPT !.nawakening = @ + 1]
      BY <2>2 DEF WakeStore
    <3> QED BY <1>1, <3>2, <3>3 DEF ControlOK
  <2> QED BY <2>1, <2>2 DEF WakeUp
<1>4. ControlOK'
  BY <1>1, <1>2, <1>3 DEF ControlOK, PCs
<1>5. TypeOK'
  BY <1>1, <1>2, <1>4, ControlTyped
<1>6. SnapshotInv' /\ FollowInv' /\ MutatorInv'
  BY <1>1, <1>2, <1>3, ControlKept DEF Holding
<1>7. WorkersInv'
  <2> SUFFICES ASSUME NEW v \in Workers PROVE WorkerOK(v)'
    BY DEF WorkersInv
  <2>1. CASE pc'[v] = pc[v]
    BY <1>1, <1>2, <1>3, <2>1, WorkerKept DEF WorkersInv
  <2>2. CASE pc[v] = "waiting" /\ pc'[v] = "woken"
    BY <1>1, <1>2, <1>3, <2>2, SameObjects DEF WorkersInv, WorkerOK
  <2> QED BY <1>3, <2>1, <2>2
<1>8. FlushInv'
  BY <1>1, <1>2, <1>3, FlushKept, ThreadsAre DEF FlushInv
<1>9. EndInv'
  BY <1>1, <1>2, <1>3, EndKept
<1> QED BY <1>5, <1>6, <1>7, <1>8, <1>9 DEF IInv

LEMMA HandshakeStep ==
  ASSUME IInv, UNCHANGED instance, (\E t \in {Mutator, VM} : Handshake(t)) \/ VMFlush
  PROVE  IInv'
<1> USE DEF mutatorVars, workVars
<1>1. TypeOK /\ SnapshotInv /\ FollowInv /\ MutatorInv /\ WorkersInv /\ ControlOK /\ FlushInv
      /\ EndInv
  BY DEF IInv, TypeOK
<1>2. UNCHANGED <<heap, weakGood, marked, live, cache, stacks, listVars, nstripes, term,
                  workVars, wake, nproactive, requested, phase, mutatorVars, disturbances>>
  BY DEF Handshake, VMFlush
<1>3. PICK t \in {Mutator, VM}, target \in {Mutator, VM} :
        /\ flush' = [flush EXCEPT ![t] = target] /\ flush[t] = None
        /\ \/ /\ target = Mutator /\ op = <<>> /\ flushOp.stage = "handshake"
              /\ flush[VM] # Mutator /\ flush[Mutator] = None
              /\ flushOp' = [flushOp EXCEPT !.stage = "handshaking"]
           \/ /\ target = VM /\ t = VM /\ flushOp.stage = "vm"
              /\ flushOp' = [flushOp EXCEPT !.stage = "vmflush"]
  BY DEF Handshake, VMFlush, AtSafepoint, Idle
<1>4. /\ DOMAIN flush' = Threads /\ flush'[t] = target /\ \A u \in Threads \ {t} : flush'[u] = flush[u]
      /\ t \in Threads
  BY <1>1, <1>3, ThreadsAre DEF ControlOK
<1>5. flushOp' = [by |-> flushOp.by, stage |-> flushOp'.stage, flushed |-> flushOp.flushed]
      /\ flushOp'.stage \in Stages /\ flushOp'.flushed = flushOp.flushed
      /\ flushOp'.stage = (IF target = Mutator THEN "handshaking" ELSE "vmflush")
  BY <1>1, <1>3, ThreadsAre DEF ControlOK, Stages
<1>6. ControlOK'
  BY <1>1, <1>2, <1>4, <1>5 DEF ControlOK
<1>7. TypeOK'
  BY <1>1, <1>2, <1>6, ControlTyped
<1>8. SnapshotInv' /\ FollowInv' /\ MutatorInv'
  BY <1>1, <1>2, ControlKept
<1>9. WorkersInv'
  <2> SUFFICES ASSUME NEW v \in Workers PROVE WorkerOK(v)'
    BY DEF WorkersInv
  <2> QED BY <1>1, <1>2, <1>4, WorkerKept, ThreadsAre DEF WorkersInv
<1>10. FlushInv'
  BY <1>1, <1>2, <1>3, <1>4, <1>5, ThreadsAre DEF FlushInv
<1>11. EndInv'
  BY <1>1, <1>2, <1>3, <1>5, ThreadsAre DEF EndInv, Found, Quiet, StripesAreEmpty, listVars
<1> QED BY <1>7, <1>8, <1>9, <1>10, <1>11 DEF IInv

LEMMA ResizeStep ==
  ASSUME IInv, UNCHANGED instance, NEW n \in 1..MaxWorkers, RequestResize(n)
  PROVE  IInv'
<1> USE DEF mutatorVars, workVars, RequestResize
<1>1. TypeOK /\ SnapshotInv /\ FollowInv /\ MutatorInv /\ WorkersInv /\ ControlOK /\ FlushInv
      /\ EndInv
  BY DEF IInv, TypeOK
<1>2. ControlOK'
  BY <1>1, MarkAssumption DEF ControlOK
<1>3. TypeOK'
  BY <1>1, <1>2, ControlTyped
<1>4. SnapshotInv' /\ FollowInv' /\ MutatorInv'
  BY <1>1, ControlKept
<1>5. WorkersInv'
  <2> SUFFICES ASSUME NEW v \in Workers PROVE WorkerOK(v)'
    BY DEF WorkersInv
  <2> QED BY <1>1, WorkerKept DEF WorkersInv
<1>6. FlushInv' /\ EndInv'
  BY <1>1, FlushKept, EndKept DEF FlushInv
<1> QED BY <1>3, <1>4, <1>5, <1>6 DEF IInv
-----------------------------------------------------------------------------
\* The coordinator.
CoordinatorKeeps == UNCHANGED <<heap, weakGood, marked, live, cache, overflowed, wake, flush,
                               mutatorVars, disturbances>>

LEMMA TaskStep ==
  ASSUME IInv, UNCHANGED instance, StartTask \/ RestartTask, CoordinatorKeeps
  PROVE  IInv'
<1> USE DEF mutatorVars, workVars, listVars, CoordinatorKeeps
<1>1. TypeOK /\ SnapshotInv /\ FollowInv /\ MutatorInv /\ WorkersInv /\ ControlOK /\ FlushInv
  BY DEF IInv, TypeOK
<1>2. PICK n \in 1..MaxWorkers : RunTask(n)
  BY <1>1 DEF StartTask, RestartTask, ControlOK
<1>3. \A w \in Workers : pc[w] = "idle" /\ flush[w] = None
  BY <1>1 DEF StartTask, RestartTask, TaskIsDone, At, Idle, WorkersInv, WorkerOK
<1>4. /\ phase' = "follow" /\ requested' \in 0..MaxWorkers
      /\ UNCHANGED <<stacks, published, flushOp>>
      /\ flushOp.stage = "none"
  BY <1>1, <1>3, ThreadsAre, MarkAssumption DEF StartTask, RestartTask, FlushInv, ControlOK
<1>5. /\ term' = [nworkers |-> n, nworking |-> n, nawakening |-> 0,
                  resurrected |-> term.resurrected]
      /\ nstripes' \in StripeNumbers
      /\ DOMAIN pc' = Workers /\ \A w \in Workers : pc'[w] = IF w < n THEN "drain" ELSE "idle"
      /\ ctx' = ctx /\ cur' = cur
  <2>1. CalculateNStripes(n) \in StripeNumbers
    BY Calculated, MarkAssumption
  <2>2. term' = [term EXCEPT !.nworkers = n, !.nworking = n, !.nawakening = 0]
        /\ nstripes' = CalculateNStripes(n) /\ ctx' = ctx /\ cur' = cur
        /\ pc' = [w \in Workers |-> IF w < n THEN "drain" ELSE "idle"]
    BY <1>2 DEF RunTask, Reset
  <2>3. term' = [nworkers |-> n, nworking |-> n, nawakening |-> 0,
                 resurrected |-> term.resurrected]
    BY <1>1, <2>2 DEF ControlOK
  <2> QED BY <2>1, <2>2, <2>3
<1>6. ControlOK'
  <2>1. term'.nworkers \in 1..MaxWorkers
    BY <1>5
  <2>2. term' = [nworkers |-> term'.nworkers, nworking |-> term'.nworking,
                 nawakening |-> term'.nawakening, resurrected |-> term'.resurrected]
    BY <1>5
  <2> QED BY <1>1, <1>4, <1>5, <2>1, <2>2 DEF ControlOK, PCs
<1>7. TypeOK'
  BY <1>1, <1>4, <1>6, ControlTyped
<1>8. SnapshotInv' /\ FollowInv' /\ MutatorInv'
  BY <1>1, <1>3, <1>4, ControlKept DEF Holding
<1>9. WorkersInv'
  <2> SUFFICES ASSUME NEW v \in Workers PROVE WorkerOK(v)'
    BY DEF WorkersInv
  <2>1. WorkerOK(v) /\ DOMAIN stacks[v] = {}
    BY <1>1, <1>3 DEF WorkersInv, WorkerOK
  <2>2. pc'[v] \in {"drain", "idle"} /\ (pc'[v] # "idle" => v < n)
    BY <1>5
  <2>3. term'.nworkers = n
    BY <1>5
  <2> QED BY <1>4, <2>1, <2>2, <2>3 DEF WorkerOK
<1>10. FlushInv'
  BY <1>1, <1>4 DEF FlushInv
<1>11. EndInv'
  BY <1>4 DEF EndInv
<1> QED BY <1>7, <1>8, <1>9, <1>10, <1>11 DEF IInv

LEMMA TerminateStep ==
  ASSUME IInv, UNCHANGED instance, TerminateFlush \/ TerminateFlushResult, CoordinatorKeeps
  PROVE  IInv'
<1> USE DEF mutatorVars, workVars, listVars, CoordinatorKeeps
<1>1. TypeOK /\ SnapshotInv /\ FollowInv /\ MutatorInv /\ WorkersInv /\ ControlOK /\ FlushInv
      /\ EndInv
  BY DEF IInv, TypeOK
<1>2. \A w \in Workers : pc[w] = "idle" /\ flush[w] = None
  BY <1>1 DEF TerminateFlush, TerminateFlushResult, TaskIsDone, At, Idle, WorkersInv, WorkerOK
<1>3. /\ UNCHANGED <<stacks, published, nstripes, ctx, cur, pc, requested>>
      /\ term' = [nworkers |-> term'.nworkers, nworking |-> term'.nworking,
                  nawakening |-> term'.nawakening, resurrected |-> term'.resurrected]
      /\ term'.nworkers = term.nworkers
      /\ \/ /\ phase' = "flush" /\ flushOp.stage = "none"
            /\ flushOp' = [by |-> None, stage |-> "handshake", flushed |-> FALSE]
         \/ /\ phase = "flush" /\ flushOp.stage = "result" /\ phase' \in {"start", "end"}
            /\ phase' = "end" => ~flushOp.flushed /\ StripesAreEmpty /\ ~term.resurrected
            /\ term' = term
            /\ flushOp' = NoFlush
  <2>1. CASE TerminateFlush
    <3>1. flushOp.stage = "none"
      BY <1>1, <1>2, <2>1, ThreadsAre DEF TerminateFlush, FlushInv
    <3> QED BY <1>1, <2>1, <3>1 DEF TerminateFlush, StartFlush, ControlOK
  <2>2. CASE TerminateFlushResult
    BY <1>1, <2>2 DEF TerminateFlushResult, FlushResult, ControlOK
  <2> QED BY <2>1, <2>2
<1>4. ControlOK'
  BY <1>1, <1>3 DEF ControlOK, Stages, NoFlush
<1>5. TypeOK'
  BY <1>1, <1>3, <1>4, ControlTyped
<1>6. SnapshotInv' /\ FollowInv' /\ MutatorInv'
  BY <1>1, <1>3, ControlKept
<1>7. WorkersInv'
  <2> SUFFICES ASSUME NEW v \in Workers PROVE WorkerOK(v)'
    BY DEF WorkersInv
  <2>1. WorkerOK(v) /\ DOMAIN stacks[v] = {}
    BY <1>1, <1>2 DEF WorkersInv, WorkerOK
  <2> QED BY <1>2, <1>3, <2>1 DEF WorkerOK
<1>8. FlushInv'
  BY <1>1, <1>3, ThreadsAre DEF FlushInv, NoFlush
<1>9. EndInv'
  <2>1. CASE phase' = "flush"
    BY <1>3, <2>1 DEF EndInv, NoFlush
  <2>2. CASE phase' = "end"
    <3>1. ~flushOp.flushed /\ StripesAreEmpty /\ ~term.resurrected /\ DOMAIN stacks[VM] = {}
          /\ phase = "flush" /\ flushOp.stage = "result"
      BY <1>1, <1>3, <2>2 DEF FlushInv
    <3>2. Quiet
      BY <1>1, <3>1 DEF EndInv, Found
    <3> QED BY <1>3, <2>2, <3>1, <3>2 DEF EndInv, Quiet, StripesAreEmpty
  <2>3. CASE phase' = "start"
    BY <2>3 DEF EndInv
  <2> QED BY <1>3, <2>1, <2>2, <2>3
<1> QED BY <1>5, <1>6, <1>7, <1>8, <1>9 DEF IInv

\* At the end nothing is left to flush, unless something was resurrected.
LEMMA MarkEndStep ==
  ASSUME IInv, UNCHANGED instance, MarkEnd, CoordinatorKeeps
  PROVE  IInv'
<1> USE DEF mutatorVars, workVars, listVars, CoordinatorKeeps
<1> DEFINE pending(s) == {t \in NonJavaThreads : s \in DOMAIN stacks[t] /\ stacks[t][s] # <<>>}
<1>1. TypeOK /\ SnapshotInv /\ FollowInv /\ MutatorInv /\ WorkersInv /\ ControlOK /\ FlushInv
      /\ EndInv /\ StacksOK
  BY DEF IInv, TypeOK
<1>2. /\ phase = "end" /\ UNCHANGED <<nstripes, term, ctx, cur, pc, requested, flushOp, nproactive>>
  BY DEF MarkEnd
<1>3. \A w \in Workers : pc[w] = "idle" /\ flush[w] = None /\ DOMAIN stacks[w] = {}
  BY <1>1, <1>2 DEF WorkersInv, WorkerOK
<1>4. flushOp.stage = "none" /\ DOMAIN stacks[VM] = {}
  BY <1>1, <1>2 DEF FlushInv
<1>5. \A t \in NonJavaThreads : DOMAIN stacks[t] = {}
  BY <1>3, <1>4, ThreadsAre DEF NonJavaThreads
<1>6. \A s : pending(s) = {}
  BY <1>5
<1>7. /\ StacksOK'
      /\ \A e : Pending(e) => Pending(e)'
      /\ \A t \in NonJavaThreads : DOMAIN stacks'[t] = {}
      /\ stacks'[Mutator] = stacks[Mutator]
      /\ phase' \in {"start", "done"}
      /\ phase' = "done" => StripesAreEmpty' /\ Quiet'
  <2>1. CASE term.resurrected
    <3>1. phase' = "start" /\ UNCHANGED <<stacks, published>>
      BY <2>1 DEF MarkEnd
    <3>2. StacksOK'
      BY <1>1, <3>1, SameObjects DEF StacksOK, IsStacks
    <3>3. \A e : Pending(e) => Pending(e)'
      BY <3>1, PendingKept
    <3> QED BY <1>5, <3>1, <3>2, <3>3
  <2>2. CASE ~term.resurrected
    <3>1. StripesAreEmpty /\ Quiet
      BY <1>1, <1>2, <2>2 DEF EndInv
    <3>2. /\ stacks' = [t \in Threads |-> IF t = Mutator THEN stacks[t] ELSE <<>>]
          /\ phase' \in {"start", "done"}
          /\ published' = [s \in Stripes |->
                             SetToSeq({stacks[t][s] : t \in pending(s)}) \o published[s]]
      BY <2>2 DEF MarkEnd
    <3>3. SetToSeq({}) = <<>>
      BY FS_EmptySet DEF SetToSeq, IsInjective
    <3>4. \A s \in Stripes : published'[s] = <<>>
      <4> SUFFICES ASSUME NEW s \in Stripes PROVE published'[s] = <<>>
        OBVIOUS
      <4>1. {stacks[t][s] : t \in pending(s)} = {}
        BY <1>6
      <4>2. published[s] = <<>>
        BY <3>1 DEF StripesAreEmpty
      <4>3. published'[s] = SetToSeq({stacks[t][s] : t \in pending(s)}) \o published[s]
        BY <3>2
      <4>4. SetToSeq({stacks[t][s] : t \in pending(s)}) = <<>>
        BY <3>3, <4>1, Zenon
      <4>5. published'[s] = <<>> \o <<>>
        BY <4>2, <4>3, <4>4, Zenon
      <4> QED BY <4>5
    <3>5. DOMAIN published' = Stripes
      BY <3>2
    <3>6. StripesAreEmpty'
      BY <3>1, <3>4 DEF StripesAreEmpty
    <3>7. /\ DOMAIN stacks' = Threads /\ stacks'[Mutator] = stacks[Mutator]
          /\ \A t \in NonJavaThreads : DOMAIN stacks'[t] = {}
      BY <3>2, ThreadsAre DEF NonJavaThreads
    <3>8. Quiet'
      BY <3>1, <3>7 DEF Quiet
    <3>9. DOMAIN stacks[Mutator] = {}
      BY <3>1 DEF Quiet
    <3>10. \A t \in Threads : DOMAIN stacks[t] = {} /\ DOMAIN stacks'[t] = {}
      BY <1>5, <3>7, <3>9 DEF NonJavaThreads
    <3>11. StacksOK'
      <4>1. <<>> \in Seq(Listed)
        OBVIOUS
      <4>2. \A t \in Threads : IsStacks(stacks'[t])
        BY <3>10 DEF IsStacks
      <4>3. Listed' = Listed /\ Entries' = Entries
        BY SameObjects
      <4> QED BY <1>1, <3>4, <3>5, <3>7, <4>1, <4>2, <4>3 DEF StacksOK, IsStacks
    <3>12. \A e : ~Pending(e)
      <4> SUFFICES ASSUME NEW e, Pending(e) PROVE FALSE
        OBVIOUS
      <4>1. ~InStacks(e)
        BY <3>10 DEF InStacks
      <4>2. ~InPublished(e) /\ ~InOverflowed(e)
        BY <3>1 DEF StripesAreEmpty, InPublished, InOverflowed
      <4> QED BY <4>1, <4>2 DEF Pending
    <3> QED BY <3>2, <3>6, <3>7, <3>8, <3>11, <3>12
  <2> QED BY <2>1, <2>2
<1>8. ControlOK'
  BY <1>1, <1>2, <1>7 DEF ControlOK
<1>9. TypeOK'
  BY <1>1, <1>7, <1>8, SameObjects DEF TypeOK, HeapOK
<1>10. SnapshotInv' /\ FollowInv' /\ MutatorInv'
  <2>1. \A x : Outstanding(x) => Outstanding(x)'
    BY <1>2, <1>7 DEF Outstanding, Held
  <2>2. \A o : Following(o) => Following(o)'
    BY <1>2 DEF Following
  <2>3. \A o \in Objects : Outstanding(ToMark(o)) => Outstanding(ToMark(o))'
    BY <2>1 DEF ToMark, Entry
  <2>4. \A o \in Objects : Responsible(o) => Responsible(o)'
    BY <2>1, <2>2 DEF Responsible, ToFollow, Entry
  <2> QED BY <1>1, <2>3, <2>4, WorkKept
<1>11. WorkersInv'
  <2> SUFFICES ASSUME NEW v \in Workers PROVE WorkerOK(v)'
    BY DEF WorkersInv
  <2>1. DOMAIN stacks'[v] = {}
    BY <1>7, ThreadsAre DEF NonJavaThreads
  <2> QED BY <1>2, <1>3, <2>1 DEF WorkerOK
<1>12. FlushInv'
  <2>1. DOMAIN stacks'[VM] = {}
    BY <1>7, ThreadsAre DEF NonJavaThreads
  <2> QED BY <1>1, <1>2, <1>4, <2>1 DEF FlushInv
<1>13. EndInv'
  BY <1>2, <1>4, <1>7 DEF EndInv
<1> QED BY <1>9, <1>10, <1>11, <1>12, <1>13 DEF IInv
-----------------------------------------------------------------------------
\* Flushing a thread.
LEMMA MarkObjectKeeps ==
  ASSUME TypeOK, UNCHANGED instance, NEW t \in Threads, NEW o \in Objects, MarkObject(t, o)
  PROVE  /\ StacksOK'
         /\ \A e : Pending(e) => Pending(e)'
         /\ o \in marked \/ Pending(ToMark(o))'
         /\ \A u \in Threads \ {t} : stacks'[u] = stacks[u]
         /\ StripesAreEmpty' => StripesAreEmpty
<1>1. CASE o \in marked
  <2>1. UNCHANGED <<stacks, listVars>>
    BY <1>1 DEF MarkObject
  <2>2. StacksOK'
    BY <2>1, SameObjects DEF TypeOK, StacksOK, IsStacks, listVars
  <2>3. \A e : Pending(e) => Pending(e)'
    BY <2>1, PendingKept
  <2>4. StripesAreEmpty' => StripesAreEmpty
    BY <2>1 DEF StripesAreEmpty, listVars
  <2> QED BY <1>1, <2>1, <2>2, <2>3, <2>4
<1>2. CASE o \notin marked
  <2> DEFINE e == ToMark(o)
  <2>1. e \in Entries /\ e' = e
    BY EntryIs, SameObjects
  <2>2. Push(t, e, TRUE)
    BY <1>2, NullIsNoObject DEF MarkObject, ToMark
  <2> HIDE DEF e
  <2>3. /\ StacksOK' /\ \A u \in Threads \ {t} : stacks'[u] = stacks[u]
        /\ \A x : Pending(x) => Pending(x)'
        /\ Pending(e)'
        /\ StripesAreEmpty' => StripesAreEmpty
    BY <2>1, <2>2, PushKeeps
  <2> QED BY <2>3 DEF e
<1> QED BY <1>1, <1>2

\* The first object of the store barrier buffer is taken out and marked through.
LEMMA BufferKeeps ==
  ASSUME TypeOK, UNCHANGED <<instance, marked, pc, cur>>, NEW t \in Threads, buffer # <<>>,
         MarkObject(t, Head(buffer)), buffer' = Tail(buffer)
  PROVE  /\ StacksOK' /\ buffer' \in Seq(Objects)
         /\ \A e : Outstanding(e) => Outstanding(e)'
         /\ \A o \in Objects : Within(o, buffer) =>
              Within(o, buffer') \/ o \in marked \/ Outstanding(ToMark(o))'
         /\ \A u \in Threads \ {t} : stacks'[u] = stacks[u]
         /\ StripesAreEmpty' => StripesAreEmpty
<1> DEFINE q == buffer
           first == Head(q)
<1>1. q \in Seq(Objects) /\ q # <<>>
  BY DEF TypeOK
<1>2. /\ first \in Objects /\ Tail(q) \in Seq(Objects)
      /\ \A i \in DOMAIN q : q[i] = first \/ \E j \in DOMAIN Tail(q) : Tail(q)[j] = q[i]
  <2> HIDE DEF q
  <2> QED BY <1>1, TailIs
<1>3. PICK o \in Objects : o = first
  BY <1>2
<1>4. /\ StacksOK' /\ \A u \in Threads \ {t} : stacks'[u] = stacks[u]
      /\ \A e : Pending(e) => Pending(e)'
      /\ o \in marked \/ Pending(ToMark(o))'
      /\ StripesAreEmpty' => StripesAreEmpty
  <2>1. MarkObject(t, o)
    BY <1>3
  <2> HIDE DEF first
  <2> QED BY <2>1, MarkObjectKeeps
<1>5. \A e : Outstanding(e) => Outstanding(e)'
  BY <1>4 DEF Outstanding, Held
<1>6. ASSUME NEW x \in Objects, Within(x, buffer)
      PROVE  Within(x, buffer') \/ x \in marked \/ Outstanding(ToMark(x))'
  <2>1. PICK i \in DOMAIN q : q[i] = x
    BY <1>6 DEF Within
  <2>2. CASE x = first
    <3>1. x = o
      BY <2>2, <1>3
    <3> QED BY <1>4, <3>1 DEF Outstanding
  <2>3. CASE x # first
    <3>1. PICK j \in DOMAIN Tail(q) : Tail(q)[j] = x
      BY <1>2, <2>1, <2>3
    <3> QED BY <3>1 DEF Within
  <2> QED BY <2>2, <2>3
<1>7. buffer' \in Seq(Objects)
  BY <1>2
<1> QED BY <1>4, <1>5, <1>6, <1>7

FlusherKeeps == UNCHANGED <<heap, weakGood, marked, live, cache, nstripes, term, workVars,
                           nproactive, requested, phase, local, op, stores, disturbances>>

\* Whom a thread flushes.
LEMMA TargetIs ==
  ASSUME IInv, NEW t \in Threads, flush[t] # None
  PROVE  /\ flush[t] \in Threads
         /\ t \in Workers => flush[t] = t /\ phase = "follow"
         /\ flush[t] \in Workers => t = flush[t]
         /\ flush[t] = Mutator => /\ t \in {Mutator, VM} /\ op = <<>>
                                  /\ flushOp.stage = "handshaking"
                                  /\ \A u \in Threads \ {t} : flush[u] # Mutator
         /\ flush[t] = VM => t = VM /\ flushOp.stage = "vmflush"
         /\ phase \in {"follow", "flush"}
<1>1. FlushInv /\ WorkersInv
  BY DEF IInv
<1>2. CASE t \in Workers
  <2>1. flush[t] = t /\ phase = "follow"
    BY <1>1, <1>2 DEF FlushInv, WorkersInv, WorkerOK
  <2> QED BY <1>2, <2>1, ThreadsAre
<1>3. CASE t = Mutator
  <2>1. flush[t] = Mutator /\ op = <<>> /\ flushOp.stage = "handshaking" /\ flush[VM] # Mutator
    BY <1>1, <1>3 DEF FlushInv
  <2>2. phase \in {"follow", "flush"}
    BY <1>1, <2>1 DEF FlushInv
  <2>3. \A w \in Workers : flush[w] # Mutator
    BY <1>1, ThreadsAre DEF FlushInv
  <2> QED BY <1>3, <2>1, <2>2, <2>3, ThreadsAre
<1>4. CASE t = VM /\ flush[VM] = Mutator
  <2>1. op = <<>> /\ flushOp.stage = "handshaking" /\ flush[Mutator] # Mutator
    BY <1>1, <1>4 DEF FlushInv
  <2>2. phase \in {"follow", "flush"}
    BY <1>1, <2>1 DEF FlushInv
  <2>3. \A w \in Workers : flush[w] # Mutator
    BY <1>1, ThreadsAre DEF FlushInv
  <2> QED BY <1>4, <2>1, <2>2, <2>3, ThreadsAre
<1>5. CASE t = VM /\ flush[VM] = VM
  <2>1. flushOp.stage = "vmflush"
    BY <1>1, <1>5 DEF FlushInv
  <2>2. phase \in {"follow", "flush"}
    BY <1>1, <2>1 DEF FlushInv
  <2> QED BY <1>5, <2>1, <2>2, ThreadsAre
<1>6. t = VM => flush[VM] \in {Mutator, VM}
  BY <1>1 DEF FlushInv
<1> QED BY <1>2, <1>3, <1>4, <1>5, <1>6, ThreadsAre

LEMMA FlushBufferStep ==
  ASSUME IInv, UNCHANGED instance, NEW t \in Threads, FlushBuffer(t), FlusherKeeps
  PROVE  IInv'
<1> USE DEF workVars, FlusherKeeps
<1>1. TypeOK /\ SnapshotInv /\ FollowInv /\ MutatorInv /\ WorkersInv /\ ControlOK /\ FlushInv
      /\ EndInv
  BY DEF IInv, TypeOK
<1>2. /\ flush[t] = Mutator /\ buffer # <<>> /\ MarkObject(t, Head(buffer))
      /\ buffer' = Tail(buffer) /\ UNCHANGED <<flush, flushOp>>
  BY DEF FlushBuffer
<1>3. t \in {Mutator, VM} /\ op = <<>> /\ flushOp.stage = "handshaking"
      /\ phase \in {"follow", "flush"}
  BY <1>2, TargetIs, ThreadsAre
<1>4. /\ StacksOK' /\ buffer' \in Seq(Objects)
      /\ \A e : Outstanding(e) => Outstanding(e)'
      /\ \A o \in Objects : Within(o, buffer) =>
           Within(o, buffer') \/ o \in marked \/ Outstanding(ToMark(o))'
      /\ \A u \in Threads \ {t} : stacks'[u] = stacks[u]
  BY <1>1, <1>2, BufferKeeps
<1>5. ControlOK'
  BY <1>1, <1>2 DEF ControlOK
<1>6. TypeOK'
  BY <1>1, <1>4, <1>5, SameObjects DEF TypeOK, HeapOK
<1>7. SnapshotInv'
  <2>1. ASSUME NEW o \in Objects, Grey(o) PROVE Grey(o)'
    <3>1. Outstanding(ToMark(o)) => Outstanding(ToMark(o))'
      BY <1>4 DEF ToMark, Entry
    <3> QED BY <1>4, <2>1, <3>1 DEF Grey, Storing, Within
  <2>2. \A o \in Objects : FieldKept(o) /\ FieldFromSnapshot(o)
    BY DEF FieldKept, FieldFromSnapshot
  <2>3. LocalFromSnapshot
    BY DEF LocalFromSnapshot
  <2> QED BY <1>1, <2>1, <2>2, <2>3, SnapKept
<1>8. FollowInv'
  <2>1. \A o \in Objects : Following(o) => Following(o)'
    BY DEF Following
  <2>2. \A o \in Objects : Responsible(o) => Responsible(o)'
    BY <1>4, <2>1 DEF Responsible, ToFollow, Entry
  <2> QED BY <1>1, <2>2, FollowKept DEF TypeOK
<1>9. MutatorInv'
  BY <1>1, SameObjects DEF MutatorInv, Storing
<1>10. WorkersInv'
  <2> SUFFICES ASSUME NEW v \in Workers PROVE WorkerOK(v)'
    BY DEF WorkersInv
  <2>1. stacks'[v] = stacks[v]
    BY <1>3, <1>4, ThreadsAre
  <2> QED BY <1>1, <1>2, <2>1, WorkerKept DEF WorkersInv
<1>11. FlushInv'
  BY <1>1, <1>2, <1>3 DEF FlushInv
<1>12. EndInv'
  BY <1>2, <1>3 DEF EndInv
<1> QED BY <1>6, <1>7, <1>8, <1>9, <1>10, <1>11, <1>12 DEF IInv

\* One stack of the target is published, or freed when it is empty.
LEMMA FlushedStack ==
  ASSUME TypeOK, UNCHANGED instance, NEW t \in Threads, NEW target \in Threads,
         NEW s \in Stripes, s \in DOMAIN stacks[target], NEW stack, stack = stacks[target][s],
         Replaced(target, Without(stacks[target], s)),
         \/ stack = <<>> /\ UNCHANGED listVars
         \/ stack # <<>> /\ PublishStack(s, stack, TRUE)
  PROVE  /\ StacksOK'
         /\ \A e : Pending(e) => Pending(e)'
         /\ \A u \in Threads \ {target} : stacks'[u] = stacks[u]
         /\ DOMAIN stacks'[target] = DOMAIN stacks[target] \ {s}
         /\ \A x \in DOMAIN stacks'[target] : stacks'[target][x] = stacks[target][x]
         /\ stack # <<>> => ~StripesAreEmpty'
<1> DEFINE mine == stacks[target]
           new == Without(mine, s)
<1>1. StacksOK /\ IsStacks(mine) /\ Objects' = Objects /\ Entries' = Entries /\ Listed' = Listed
      /\ DOMAIN published = Stripes /\ DOMAIN overflowed = Stripes
  BY SameObjects DEF TypeOK, StacksOK
<1>2. /\ IsStacks(new) /\ DOMAIN new = DOMAIN mine \ {s}
      /\ \A x \in DOMAIN mine \ {s} : new[x] = mine[x]
  BY <1>1, WithoutTyped
<1> HIDE DEF new
<1>3. /\ DOMAIN stacks' = Threads /\ stacks'[target] = new
      /\ \A u \in Threads \ {target} : stacks'[u] = stacks[u]
      /\ \A u \in Threads : IsStacks(stacks'[u])
  BY <1>1, <1>2, StackReplaced DEF new
<1>4. \A e : InStacks(e) =>
        InStacks(e)' \/ \E x \in DOMAIN mine : /\ Within(e, mine[x])
                                               /\ \A y \in DOMAIN new : ~Within(e, new[y])
  BY <1>1, <1>2, StackReplaced DEF new
<1>5. \A e : InStacks(e) => InStacks(e)' \/ Within(e, stack)
  <2> SUFFICES ASSUME NEW e, InStacks(e), ~InStacks(e)' PROVE Within(e, stack)
    OBVIOUS
  <2>1. PICK x \in DOMAIN mine : Within(e, mine[x]) /\ \A y \in DOMAIN new : ~Within(e, new[y])
    BY <1>4
  <2>2. x = s
    BY <1>2, <2>1
  <2> QED BY <2>1, <2>2
<1>6. CASE stack = <<>> /\ UNCHANGED listVars
  <2>1. StacksOK'
    BY <1>1, <1>3, <1>6 DEF StacksOK, IsStacks, listVars
  <2>2. \A e : ~Within(e, stack)
    BY <1>6 DEF Within
  <2>3. \A e : Pending(e) => Pending(e)'
    BY <1>5, <1>6, <2>2, ListsKept DEF Pending
  <2> QED BY <1>2, <1>3, <1>6, <2>1, <2>3
<1>7. CASE stack # <<>> /\ PublishStack(s, stack, TRUE)
  <2>1. stack \in Listed
    BY <1>1, <1>7 DEF IsStacks, Listed
  <2>2. /\ DOMAIN published' = Stripes /\ DOMAIN overflowed' = Stripes
        /\ \A r \in Stripes : published'[r] \in Seq(Listed)
        /\ \A r \in Stripes : overflowed'[r] \in Seq(Listed)
        /\ \A e : InPublished(e) => InPublished(e)'
        /\ \A e : InOverflowed(e) => InOverflowed(e)'
        /\ \A e : Within(e, stack) => InPublished(e)' \/ InOverflowed(e)'
        /\ ~StripesAreEmpty'
    BY <1>1, <1>7, <2>1, PublishKeeps
  <2>3. StacksOK'
    BY <1>1, <1>3, <2>2 DEF StacksOK, IsStacks
  <2>4. \A e : Pending(e) => Pending(e)'
    BY <1>5, <2>2 DEF Pending
  <2> QED BY <1>2, <1>3, <2>2, <2>3, <2>4
<1> QED BY <1>6, <1>7

LEMMA FlushStackStep ==
  ASSUME IInv, UNCHANGED instance, NEW t \in Threads, FlushStack(t), FlusherKeeps
  PROVE  IInv'
<1> USE DEF workVars, FlusherKeeps
<1>1. TypeOK /\ SnapshotInv /\ FollowInv /\ MutatorInv /\ WorkersInv /\ ControlOK /\ FlushInv
      /\ EndInv /\ StacksOK
  BY DEF IInv, TypeOK
<1>2. PICK target : target = flush[t]
  OBVIOUS
<1>3. target # None /\ UNCHANGED <<flush, buffer>>
  BY <1>2 DEF FlushStack
<1>4. /\ target \in Threads
      /\ t \in Workers => target = t /\ phase = "follow"
      /\ target \in Workers => t = target
      /\ target = Mutator => t \in {Mutator, VM} /\ flushOp.stage = "handshaking"
      /\ target = VM => t = VM /\ flushOp.stage = "vmflush"
      /\ phase \in {"follow", "flush"}
  BY <1>2, <1>3, TargetIs
<1>5. PICK s \in Stripes : s = Min(DOMAIN stacks[target]) /\ s \in DOMAIN stacks[target]
  <2>1. DOMAIN stacks[target] \subseteq Stripes /\ DOMAIN stacks[target] # {}
    BY <1>1, <1>2, <1>4 DEF FlushStack, StacksOK, IsStacks
  <2>2. Stripes \subseteq Nat
    BY MarkAssumption DEF Stripes
  <2>3. PICK D : D = DOMAIN stacks[target]
    OBVIOUS
  <2>4. Min(D) \in D
    BY <2>1, <2>2, <2>3, MinOf
  <2> QED BY <2>1, <2>3, <2>4
<1>6. PICK stack : stack = stacks[target][s]
  OBVIOUS
<1>7. /\ Replaced(target, Without(stacks[target], s))
      /\ \/ stack = <<>> /\ UNCHANGED listVars /\ UNCHANGED flushOp
         \/ /\ stack # <<>> /\ PublishStack(s, stack, TRUE)
            /\ flushOp' = IF t \in Workers THEN flushOp ELSE [flushOp EXCEPT !.flushed = TRUE]
  BY <1>2, <1>5, <1>6 DEF FlushStack, Replaced
<1>8. /\ StacksOK'
      /\ \A e : Pending(e) => Pending(e)'
      /\ \A u \in Threads \ {target} : stacks'[u] = stacks[u]
      /\ DOMAIN stacks'[target] = DOMAIN stacks[target] \ {s}
      /\ \A x \in DOMAIN stacks'[target] : stacks'[target][x] = stacks[target][x]
      /\ stack # <<>> => ~StripesAreEmpty'
  BY <1>1, <1>4, <1>5, <1>6, <1>7, FlushedStack
<1>9. /\ flushOp' = [by |-> flushOp.by, stage |-> flushOp.stage, flushed |-> flushOp'.flushed]
      /\ flushOp'.stage = flushOp.stage
      /\ flushOp'.flushed = flushOp.flushed \/ flushOp'.flushed = TRUE
      /\ stack # <<>> /\ t \notin Workers => flushOp'.flushed = TRUE
  <2>1. CASE flushOp' = flushOp /\ (stack = <<>> \/ t \in Workers)
    BY <1>1, <2>1 DEF ControlOK
  <2>2. CASE flushOp' = [flushOp EXCEPT !.flushed = TRUE]
    <3>1. flushOp' = [by |-> flushOp.by, stage |-> flushOp.stage, flushed |-> TRUE]
      BY <1>1, <2>2 DEF ControlOK
    <3> QED BY <3>1
  <2> QED BY <1>7, <2>1, <2>2
<1>10. ControlOK'
  <2>1. flushOp' = [by |-> flushOp'.by, stage |-> flushOp'.stage, flushed |-> flushOp'.flushed]
        /\ flushOp'.stage \in Stages
    BY <1>1, <1>9 DEF ControlOK
  <2> QED BY <1>1, <1>3, <2>1 DEF ControlOK
<1>11. TypeOK'
  BY <1>1, <1>3, <1>8, <1>10, SameObjects DEF TypeOK, HeapOK
<1>12. SnapshotInv' /\ FollowInv' /\ MutatorInv'
  <2>1. \A x : Outstanding(x) => Outstanding(x)'
    BY <1>8 DEF Outstanding, Held
  <2>2. \A o : Following(o) => Following(o)'
    BY DEF Following
  <2>3. \A o \in Objects : Outstanding(ToMark(o)) => Outstanding(ToMark(o))'
    BY <2>1 DEF ToMark, Entry
  <2>4. \A o \in Objects : Responsible(o) => Responsible(o)'
    BY <2>1, <2>2 DEF Responsible, ToFollow, Entry
  <2> QED BY <1>1, <1>3, <2>3, <2>4, WorkKept
<1>13. WorkersInv'
  <2> SUFFICES ASSUME NEW v \in Workers PROVE WorkerOK(v)'
    BY DEF WorkersInv
  <2>1. CASE v = target
    <3>1. flush[v] = v /\ v # None /\ phase = "follow"
      BY <1>2, <1>4, <2>1, ThreadsAre
    <3>2. DOMAIN stacks'[v] \subseteq DOMAIN stacks[v]
      BY <1>8, <2>1
    <3> QED BY <1>1, <1>3, <3>1, <3>2, SameObjects DEF WorkersInv, WorkerOK
  <2>2. CASE v # target
    <3>1. stacks'[v] = stacks[v]
      BY <1>8, <2>2, ThreadsAre
    <3> QED BY <1>1, <1>3, <3>1, WorkerKept DEF WorkersInv
  <2> QED BY <2>1, <2>2
<1>14. FlushInv'
  <2>1. DOMAIN stacks'[VM] \subseteq DOMAIN stacks[VM]
    BY <1>8, ThreadsAre
  <2> QED BY <1>1, <1>3, <1>9, <2>1 DEF FlushInv
<1>15. EndInv'
  <2> SUFFICES ASSUME phase = "flush", flushOp.stage \in {"vm", "vmflush", "result"},
                      flushOp'.flushed # TRUE
               PROVE  (flushOp.flushed \/ Found \/ Quiet)'
    BY <1>4, <1>9 DEF EndInv
  <2>1. target = VM /\ t = VM /\ t \notin Workers
    BY <1>4, ThreadsAre
  <2>2. stack = <<>> /\ UNCHANGED listVars /\ flushOp'.flushed = flushOp.flushed
    BY <1>7, <1>9, <2>1
  <2>3. flushOp.flushed \/ Found \/ Quiet
    BY <1>1 DEF EndInv
  <2>4. CASE Found
    <3>1. \A x \in DOMAIN stacks[VM] : stacks[VM][x] # <<>> =>
            x \in DOMAIN stacks'[VM] /\ stacks'[VM][x] = stacks[VM][x]
      BY <1>6, <1>8, <2>1, <2>2
    <3> QED BY <2>2, <2>4, <3>1 DEF Found, StripesAreEmpty, listVars
  <2>5. CASE Quiet
    <3>1. stacks'[Mutator] = stacks[Mutator]
      BY <1>8, <2>1, ThreadsAre
    <3> QED BY <1>3, <2>5, <3>1 DEF Quiet
  <2> QED BY <2>2, <2>3, <2>4, <2>5
<1> QED BY <1>11, <1>12, <1>13, <1>14, <1>15 DEF IInv

LEMMA FlushEndStep ==
  ASSUME IInv, UNCHANGED instance, NEW t \in Threads, FlushEnd(t), FlusherKeeps
  PROVE  IInv'
<1> USE DEF workVars, FlusherKeeps
<1>1. TypeOK /\ SnapshotInv /\ FollowInv /\ MutatorInv /\ WorkersInv /\ ControlOK /\ FlushInv
      /\ EndInv /\ StacksOK
  BY DEF IInv, TypeOK
<1>2. PICK target : target = flush[t]
  OBVIOUS
<1>3. /\ target # None /\ UNCHANGED <<stacks, listVars, wake, buffer>>
      /\ ~(target = Mutator /\ buffer # <<>>) /\ DOMAIN stacks[target] = {}
      /\ flush' = [flush EXCEPT ![t] = None]
      /\ flushOp' = CASE target = Mutator -> [flushOp EXCEPT !.stage = "vm"]
                      [] target = VM      -> [flushOp EXCEPT !.stage = "result"]
                      [] OTHER            -> flushOp
  BY <1>2 DEF FlushEnd
<1>4. /\ target \in Threads
      /\ t \in Workers => target = t /\ phase = "follow"
      /\ target \in Workers => t = target
      /\ target = Mutator => /\ t \in {Mutator, VM} /\ flushOp.stage = "handshaking" /\ op = <<>>
                             /\ \A u \in Threads \ {t} : flush[u] # Mutator
      /\ target = VM => t = VM /\ flushOp.stage = "vmflush"
      /\ phase \in {"follow", "flush"}
  BY <1>2, <1>3, TargetIs
<1>5. DOMAIN flush' = Threads /\ flush'[t] = None /\ \A u \in Threads \ {t} : flush'[u] = flush[u]
  BY <1>1, <1>3 DEF ControlOK
<1>6. \/ target \in Workers /\ flushOp' = flushOp
      \/ target = Mutator /\ flushOp' = [flushOp EXCEPT !.stage = "vm"]
      \/ target = VM /\ flushOp' = [flushOp EXCEPT !.stage = "result"]
  BY <1>3, <1>4, ThreadsAre
<1>7. /\ flushOp' = [by |-> flushOp.by, stage |-> flushOp'.stage, flushed |-> flushOp.flushed]
      /\ flushOp'.flushed = flushOp.flushed
      /\ flushOp'.stage = IF target = Mutator THEN "vm"
                          ELSE IF target = VM THEN "result" ELSE flushOp.stage
      /\ flushOp'.stage \in Stages
  <2>1. CASE target \in Workers /\ flushOp' = flushOp
    BY <1>1, <2>1, ThreadsAre DEF ControlOK
  <2>2. CASE target = Mutator /\ flushOp' = [flushOp EXCEPT !.stage = "vm"]
    <3>1. flushOp' = [by |-> flushOp.by, stage |-> "vm", flushed |-> flushOp.flushed]
      BY <1>1, <2>2 DEF ControlOK
    <3> QED BY <2>2, <3>1 DEF Stages
  <2>3. CASE target = VM /\ flushOp' = [flushOp EXCEPT !.stage = "result"]
    <3>1. flushOp' = [by |-> flushOp.by, stage |-> "result", flushed |-> flushOp.flushed]
      BY <1>1, <2>3 DEF ControlOK
    <3> QED BY <2>3, <3>1, ThreadsAre DEF Stages
  <2> QED BY <1>6, <2>1, <2>2, <2>3
<1>8. ControlOK'
  <2>1. flushOp' = [by |-> flushOp'.by, stage |-> flushOp'.stage, flushed |-> flushOp'.flushed]
    BY <1>7
  <2> QED BY <1>1, <1>5, <1>7, <2>1 DEF ControlOK
<1>9. TypeOK'
  BY <1>1, <1>3, <1>8, ControlTyped DEF listVars
<1>10. SnapshotInv' /\ FollowInv' /\ MutatorInv'
  BY <1>1, <1>3, ControlKept
<1>11. WorkersInv'
  <2> SUFFICES ASSUME NEW v \in Workers PROVE WorkerOK(v)'
    BY DEF WorkersInv
  <2>1. CASE v = t
    <3>1. DOMAIN stacks[v] = {} /\ phase = "follow"
      BY <1>3, <1>4, <2>1
    <3> QED BY <1>1, <1>3, <3>1, SameObjects DEF WorkersInv, WorkerOK
  <2>2. CASE v # t
    <3>1. flush'[v] = flush[v]
      BY <1>5, <2>2, ThreadsAre
    <3> QED BY <1>1, <1>3, <3>1, WorkerKept DEF WorkersInv
  <2> QED BY <2>1, <2>2
<1>12. FlushInv'
  <2>1. \A u \in Threads : flush'[u] \in {None, flush[u]}
    BY <1>5
  <2>2. flushOp'.stage # "none" => flushOp.stage # "none"
    BY <1>4, <1>7
  <2>3. \A u \in {Mutator, VM} : flush'[u] = Mutator => flush[u] = Mutator /\ target # Mutator /\ target # VM
    BY <1>1, <1>2, <1>4, <1>5, ThreadsAre DEF FlushInv
  <2>4. flush'[VM] = VM => flush[VM] = VM /\ target # Mutator /\ target # VM
    BY <1>1, <1>2, <1>4, <1>5, ThreadsAre DEF FlushInv
  <2>5. flushOp'.stage \in {"none", "handshake", "result"} => DOMAIN stacks[VM] = {}
    BY <1>1, <1>3, <1>7 DEF FlushInv
  <2>6. phase' = phase /\ pc' = pc /\ op' = op /\ stacks' = stacks
    BY <1>3
  <2>7. \A w \in Workers : flush'[w] \in {None, w}
    BY <1>1, <2>1, ThreadsAre DEF FlushInv
  <2>8. flush'[Mutator] \in {None, Mutator} /\ flush'[VM] \in {None, Mutator, VM}
    BY <1>1, <2>1, ThreadsAre DEF FlushInv
  <2>9. \A u \in {Mutator, VM} : flush'[u] = Mutator => op' = <<>> /\ flushOp'.stage = "handshaking"
    BY <1>1, <1>7, <2>3, <2>6 DEF FlushInv
  <2>10. flush'[Mutator] # Mutator \/ flush'[VM] # Mutator
    BY <1>1, <2>3 DEF FlushInv
  <2>11. flush'[VM] = VM => flushOp'.stage = "vmflush"
    BY <1>1, <1>7, <2>4 DEF FlushInv
  <2>12. flushOp'.stage # "none" => phase' = "flush" \/ (phase' = "follow" /\ pc'[0] = "proactive")
    BY <1>1, <2>2, <2>6 DEF FlushInv
  <2> QED BY <2>5, <2>6, <2>7, <2>8, <2>9, <2>10, <2>11, <2>12 DEF FlushInv
<1>13. EndInv'
  <2> SUFFICES ASSUME phase = "flush", flushOp'.stage \in {"vm", "vmflush", "result"}
               PROVE  (flushOp.flushed \/ Found \/ Quiet)'
    BY <1>4 DEF EndInv
  <2>1. CASE target = Mutator
    <3>1. Quiet
      BY <1>3, <1>4, <2>1 DEF Quiet
    <3> QED BY <1>3, <3>1 DEF Quiet
  <2>2. CASE target # Mutator
    <3>1. flushOp.stage \in {"vm", "vmflush", "result"}
      BY <1>4, <1>7, <2>2
    <3>2. flushOp.flushed \/ Found \/ Quiet
      BY <1>1, <3>1 DEF EndInv
    <3> QED BY <1>3, <1>7, <3>2 DEF Found, Quiet, StripesAreEmpty, listVars
  <2> QED BY <2>1, <2>2
<1> QED BY <1>9, <1>10, <1>11, <1>12, <1>13 DEF IInv
-----------------------------------------------------------------------------
\* The mutator.  Once the workers are idle, their stacks published, and there
\* is nothing to find, what the mutator can reach is marked and followed.
Settled ==
  /\ \A o \in marked : heap[o].good \/ heap[o].to = Null
  /\ \A o \in marked : heap[o].to \in marked \cup {Null}
  /\ local \in marked \cup {Null}
  /\ weakGood => Referent \in marked

LEMMA NothingToFind ==
  ASSUME TypeOK, SnapshotInv, FollowInv, Quiet, StripesAreEmpty,
         \A w \in Workers : pc[w] = "idle" /\ DOMAIN stacks[w] = {},
         \A s \in DOMAIN stacks[VM] : stacks[VM][s] = <<>>
  PROVE  Settled
<1>1. \A e : ~InStacks(e)
  <2> SUFFICES ASSUME NEW e, InStacks(e) PROVE FALSE
    OBVIOUS
  <2>1. PICK t \in Threads : \E s \in DOMAIN stacks[t] : Within(e, stacks[t][s])
    BY DEF InStacks
  <2>2. PICK s \in DOMAIN stacks[t] : Within(e, stacks[t][s])
    BY <2>1
  <2>3. t = VM
    BY <2>2, ThreadsAre DEF Quiet
  <2>4. stacks[t][s] = <<>>
    BY <2>2, <2>3
  <2> QED BY <2>2, <2>4 DEF Within
<1>2. \A e : ~InPublished(e) /\ ~InOverflowed(e)
  BY DEF StripesAreEmpty, InPublished, InOverflowed
<1>3. \A e : ~Outstanding(e)
  BY <1>1, <1>2 DEF Outstanding, Pending, Held
<1>4. \A o : ~Following(o)
  BY DEF Following
<1>5. ~Storing /\ \A o : ~Within(o, buffer)
  BY NotStoring DEF Quiet, Within
<1>6. \A o : Grey(o) => o \in marked
  BY <1>3, <1>5 DEF Grey
<1>7. \A o \in marked : heap[o].good \/ heap[o].to = Null
  BY <1>3, <1>4 DEF FollowInv, Responsible
<1>8. Closed(marked)
  BY <1>6, <1>7 DEF Closed
<1>9. /\ local \in marked \cup {Null}
      /\ weakGood => Referent \in marked
      /\ \A o \in Objects : heap[o].good => heap[o].to \in marked \cup {Null}
  BY <1>8 DEF SnapshotInv, TypeOK
<1> QED BY <1>7, <1>9 DEF Settled, TypeOK

MutatorKeeps == UNCHANGED <<marked, live, cache, nstripes, workVars, flush, flushOp, nproactive,
                           requested, phase, disturbances>>

\* A step of the mutator, as the others see it.
LEMMA MutatorMoves ==
  ASSUME IInv, UNCHANGED instance, phase # "done", MutatorKeeps,
         \A t \in {Mutator, VM} : flush[t] # Mutator,
         TypeOK', SnapshotInv', FollowInv', MutatorInv',
         \A t \in Threads \ {Mutator} : stacks'[t] = stacks[t],
         term'.nworkers = term.nworkers,
         term.resurrected => term'.resurrected,
         StripesAreEmpty' => StripesAreEmpty,
         \A o \in Objects : heap'[o] = heap[o] \/ heap'[o].good,
         Quiet /\ Settled => term'.resurrected \/ (Quiet' /\ UNCHANGED listVars)
  PROVE  IInv'
<1> USE DEF MutatorKeeps, workVars
<1>1. TypeOK /\ SnapshotInv /\ FollowInv /\ WorkersInv /\ FlushInv /\ EndInv
  BY DEF IInv
<1>2. stacks'[VM] = stacks[VM] /\ \A w \in Workers : stacks'[w] = stacks[w]
  BY ThreadsAre
<1>3. WorkersInv'
  <2> SUFFICES ASSUME NEW v \in Workers PROVE WorkerOK(v)'
    BY DEF WorkersInv
  <2> QED BY <1>1, <1>2, WorkerKept DEF WorkersInv
<1>4. FlushInv'
  <2>1. flush' = flush /\ flushOp' = flushOp /\ phase' = phase /\ pc' = pc
    OBVIOUS
  <2> QED BY <1>1, <1>2, <2>1 DEF FlushInv
<1>5. phase # "follow" => \A w \in Workers : pc[w] = "idle" /\ DOMAIN stacks[w] = {}
  BY <1>1 DEF WorkersInv, WorkerOK
<1>6. EndInv'
  <2>1. ASSUME phase = "flush", flushOp.stage \in {"vm", "vmflush", "result"}
        PROVE  (flushOp.flushed \/ Found \/ Quiet)'
    <3>1. CASE flushOp.flushed
      BY <3>1
    <3>2. CASE Found
      BY <1>2, <3>2 DEF Found
    <3>3. CASE ~Found /\ Quiet
      <4>1. StripesAreEmpty /\ \A s \in DOMAIN stacks[VM] : stacks[VM][s] = <<>>
        BY <3>3 DEF Found
      <4>2. Settled
        BY <1>1, <1>5, <2>1, <3>3, <4>1, NothingToFind
      <4> QED BY <3>3, <4>2 DEF Found
    <3> QED BY <1>1, <2>1, <3>1, <3>2, <3>3 DEF EndInv
  <2>2. ASSUME phase = "end" PROVE term'.resurrected \/ (StripesAreEmpty' /\ Quiet')
    <3>1. CASE term.resurrected
      BY <3>1
    <3>2. CASE StripesAreEmpty /\ Quiet
      <4>1. DOMAIN stacks[VM] = {}
        BY <1>1, <2>2 DEF FlushInv
      <4>2. Settled
        BY <1>1, <1>5, <2>2, <3>2, <4>1, NothingToFind
      <4>3. UNCHANGED listVars => StripesAreEmpty'
        BY <3>2 DEF StripesAreEmpty, listVars
      <4> QED BY <3>2, <4>2, <4>3
    <3> QED BY <1>1, <2>2, <3>1, <3>2 DEF EndInv
  <2> QED BY <2>1, <2>2 DEF EndInv
<1> QED BY <1>3, <1>4, <1>6 DEF IInv

\* The mutator runs while nobody flushes it.
LEMMA NotFlushed ==
  ASSUME IInv, AtSafepoint \/ op # <<>>
  PROVE  \A t \in {Mutator, VM} : flush[t] # Mutator
BY ThreadsAre DEF IInv, FlushInv, AtSafepoint, Idle

\* An object the mutator reaches by a root or by its register.
LEMMA AccessibleIs ==
  ASSUME TypeOK, NEW o \in Accessible
  PROVE  o \in Objects /\ (o \in marked \/ o = local)
BY DEF TypeOK, Accessible

LEMMA LoadStep ==
  ASSUME IInv, UNCHANGED instance, phase # "done", MutatorKeeps,
         NEW o \in Accessible, Load(o)
  PROVE  IInv'
<1> USE DEF MutatorKeeps, workVars
<1>1. TypeOK /\ SnapshotInv /\ FollowInv /\ MutatorInv /\ ControlOK
  BY DEF IInv, TypeOK
<1>2. /\ AtSafepoint /\ local' = heap[o].to /\ op = <<>>
      /\ UNCHANGED <<heap, weakGood, stacks, listVars, term, wake, buffer, op, stores>>
  BY DEF Load, AtSafepoint
<1>3. o \in Objects /\ (o \in marked \/ o = local) /\ heap[o].to \in Objects \cup {Null}
  BY <1>1, AccessibleIs DEF TypeOK, HeapOK
<1>4. TypeOK'
  <2>1. ControlOK'
    BY <1>1, <1>2 DEF ControlOK
  <2> QED BY <1>1, <1>2, <1>3, <2>1, SameObjects DEF TypeOK, HeapOK, StacksOK, IsStacks, listVars
<1>5. \A e : Outstanding(e) => Outstanding(e)'
  BY <1>2, PendingKept DEF Outstanding, Held
<1>6. SnapshotInv'
  <2>1. \A x \in Objects : Grey(x) => Grey(x)'
    BY <1>2, <1>5 DEF Grey, Storing, Within, ToMark, Entry
  <2>2. \A x \in Objects : FieldKept(x) /\ FieldFromSnapshot(x)
    BY <1>2 DEF FieldKept, FieldFromSnapshot
  <2>3. LocalFromSnapshot
    BY <1>2, <1>3 DEF LocalFromSnapshot
  <2> QED BY <1>1, <1>2, <2>1, <2>2, <2>3, SnapKept
<1>7. FollowInv'
  <2>1. \A x : Following(x) => Following(x)'
    BY DEF Following
  <2>2. \A x \in Objects : Responsible(x) => Responsible(x)'
    BY <1>5, <2>1 DEF Responsible, ToFollow, Entry
  <2> QED BY <1>1, <1>2, <2>2, FollowKept DEF TypeOK
<1>8. MutatorInv'
  BY <1>2, NotStoring DEF MutatorInv
<1>9. Quiet => Quiet' /\ UNCHANGED listVars
  BY <1>2 DEF Quiet
<1>10. StripesAreEmpty' => StripesAreEmpty
  BY <1>2 DEF StripesAreEmpty, listVars
<1> QED BY <1>2, <1>4, <1>6, <1>7, <1>8, <1>9, <1>10, MutatorMoves, NotFlushed

\* A store to a field that is good or null, and one that runs the barrier first.
LEMMA StoreStep ==
  ASSUME IInv, UNCHANGED instance, phase # "done", MutatorKeeps,
         NEW o \in Accessible, NEW v \in {Null, local}, Store(o, v)
  PROVE  IInv'
<1> USE DEF MutatorKeeps, workVars
<1>1. TypeOK /\ SnapshotInv /\ FollowInv /\ MutatorInv /\ ControlOK
  BY DEF IInv, TypeOK
<1>2. /\ AtSafepoint /\ op = <<>>
      /\ UNCHANGED <<weakGood, stacks, listVars, term, wake, local, buffer>>
  BY DEF Store, AtSafepoint
<1>3. o \in Objects /\ (o \in marked \/ o = local) /\ heap[o].to \in Objects \cup {Null}
  BY <1>1, AccessibleIs DEF TypeOK, HeapOK
<1>4. \/ /\ heap[o].to = Null \/ heap[o].good
         /\ heap' = [heap EXCEPT ![o] = [to |-> v, good |-> TRUE]] /\ op' = op
      \/ /\ heap[o].to # Null /\ ~heap[o].good
         /\ heap' = heap /\ op' = <<"add", o, v, heap[o].to>>
  BY DEF Store
<1>5. ControlOK'
  BY <1>1, <1>2 DEF ControlOK
<1>6. v \in Objects \cup {Null}
  BY <1>1 DEF TypeOK
<1>7. \A e : Outstanding(e) => Outstanding(e)'
  BY <1>2, PendingKept DEF Outstanding, Held
<1>8. \A x \in Objects : Responsible(x) => Responsible(x)'
  <2>1. \A x : Following(x) => Following(x)'
    BY DEF Following
  <2> QED BY <1>7, <2>1 DEF Responsible, ToFollow, Entry
<1>9. \A x \in Objects : Grey(x) => Grey(x)'
  BY <1>2, <1>7, NotStoring DEF Grey, Within, ToMark, Entry
<1>10. StripesAreEmpty' => StripesAreEmpty
  BY <1>2 DEF StripesAreEmpty, listVars
<1>11. LocalFromSnapshot
  BY <1>2 DEF LocalFromSnapshot
<1>12. CASE /\ heap[o].to = Null \/ heap[o].good
            /\ heap' = [heap EXCEPT ![o] = [to |-> v, good |-> TRUE]] /\ op' = op
  <2>1. /\ DOMAIN heap' = Objects /\ heap'[o] = [to |-> v, good |-> TRUE]
        /\ \A x \in Objects \ {o} : heap'[x] = heap[x]
    BY <1>1, <1>3, <1>12 DEF TypeOK, HeapOK
  <2>2. HeapOK'
    <3>1. ASSUME NEW x \in Objects
          PROVE  /\ heap'[x] = [to |-> heap'[x].to, good |-> heap'[x].good]
                 /\ heap'[x].to \in Objects \cup {Null} /\ heap'[x].good \in BOOLEAN
      <4>1. CASE x = o
        <5>1. heap'[x] = [to |-> v, good |-> TRUE]
          BY <2>1, <4>1
        <5>2. heap'[x].to = v
          BY <5>1
        <5>3. heap'[x].good = TRUE
          BY <5>1
        <5>4. heap'[x] = [to |-> heap'[x].to, good |-> heap'[x].good]
          BY <5>1, <5>2, <5>3
        <5> QED BY <1>6, <5>2, <5>3, <5>4
      <4>2. CASE x # o
        BY <1>1, <2>1, <4>2 DEF TypeOK, HeapOK
      <4> QED BY <4>1, <4>2
    <3> QED BY <2>1, <3>1, SameObjects DEF HeapOK
  <2>3. TypeOK'
    BY <1>1, <1>2, <1>5, <2>2, SameObjects DEF TypeOK, StacksOK, IsStacks, listVars
  <2>4. \A x \in Objects : FieldKept(x) /\ FieldFromSnapshot(x)
    <3> SUFFICES ASSUME NEW x \in Objects PROVE FieldKept(x) /\ FieldFromSnapshot(x)
      OBVIOUS
    <3>1. CASE x = o
      <4>1. heap'[x].to = v
        BY <2>1, <3>1
      <4> QED BY <1>12, <3>1, <4>1 DEF FieldKept, FieldFromSnapshot
    <3>2. CASE x # o
      BY <2>1, <3>2 DEF FieldKept, FieldFromSnapshot
    <3> QED BY <3>1, <3>2
  <2>5. SnapshotInv'
    BY <1>1, <1>2, <1>9, <1>11, <2>4, SnapKept
  <2>6. \A x \in Objects : heap'[x] = heap[x] \/ heap'[x].good
    <3>1. heap'[o].good
      BY <2>1
    <3> QED BY <2>1, <3>1
  <2>7. FollowInv'
    BY <1>1, <1>8, <2>6, FollowKept DEF TypeOK
  <2>8. MutatorInv'
    BY <1>2, <1>12, NotStoring DEF MutatorInv
  <2>9. Quiet => Quiet' /\ UNCHANGED listVars
    BY <1>2, <1>12 DEF Quiet
  <2> QED BY <1>2, <1>10, <2>3, <2>5, <2>6, <2>7, <2>8, <2>9, MutatorMoves, NotFlushed
<1>13. CASE /\ heap[o].to # Null /\ ~heap[o].good
            /\ heap' = heap /\ op' = <<"add", o, v, heap[o].to>>
  <2>1. TypeOK'
    BY <1>1, <1>2, <1>5, <1>13, SameObjects DEF TypeOK, HeapOK, StacksOK, IsStacks, listVars
  <2>2. \A x \in Objects : FieldKept(x) /\ FieldFromSnapshot(x)
    BY <1>13 DEF FieldKept, FieldFromSnapshot
  <2>3. SnapshotInv'
    BY <1>1, <1>2, <1>9, <1>11, <2>2, SnapKept
  <2>4. FollowInv'
    BY <1>1, <1>8, <1>13, FollowKept DEF TypeOK
  <2>5. MutatorInv'
    <3>1. /\ DOMAIN op' = 1..4 /\ op'[1] = "add" /\ op'[2] = o /\ op'[3] = v
          /\ op'[4] = heap[o].to
      BY <1>13
    <3>2. Storing'
      BY <3>1 DEF Storing
    <3>3. op'[4] \in Objects
      BY <1>3, <1>13, <3>1
    <3> QED BY <1>2, <1>3, <1>13, <3>1, <3>2, <3>3, SameObjects DEF MutatorInv
  <2>6. ~Settled
    <3> SUFFICES ASSUME Settled PROVE FALSE
      OBVIOUS
    <3>1. o \in marked
      BY <1>1, <1>3, NullIsNoObject DEF Settled
    <3> QED BY <1>13, <3>1 DEF Settled
  <2> QED BY <1>2, <1>10, <1>13, <2>1, <2>3, <2>4, <2>5, <2>6, MutatorMoves, NotFlushed
<1> QED BY <1>4, <1>12, <1>13

\* A weak load: of a good field, of a marked referent, or one that resurrects.
LEMMA WeakLoadStep ==
  ASSUME IInv, UNCHANGED instance, phase # "done", MutatorKeeps, WeakLoad
  PROVE  IInv'
<1> USE DEF MutatorKeeps, workVars
<1>1. TypeOK /\ SnapshotInv /\ FollowInv /\ MutatorInv /\ ControlOK
  BY DEF IInv, TypeOK
<1>2. /\ AtSafepoint /\ op = <<>>
      /\ UNCHANGED <<heap, stacks, listVars, wake, buffer, stores>>
  BY DEF WeakLoad, AtSafepoint
<1>3. Referent \in Objects
  BY <1>1, MarkAssumption DEF TypeOK, Referent, Objects
<1>4. \/ /\ weakGood \/ Referent \in marked
         /\ local' = Referent /\ op' = op /\ term' = term
         /\ weakGood' => weakGood \/ Referent \in marked
      \/ /\ op' = <<"resurrect">> /\ term' = [term EXCEPT !.resurrected = TRUE]
         /\ UNCHANGED <<local, weakGood>>
  BY DEF WeakLoad
<1>5. /\ term' = [nworkers |-> term.nworkers, nworking |-> term.nworking,
                  nawakening |-> term.nawakening, resurrected |-> term'.resurrected]
      /\ term'.resurrected = term.resurrected \/ term'.resurrected = TRUE
      /\ op' # op => term'.resurrected = TRUE
  <2>1. CASE term' = term /\ op' = op
    BY <1>1, <2>1 DEF ControlOK
  <2>2. CASE term' = [term EXCEPT !.resurrected = TRUE]
    <3>1. term' = [nworkers |-> term.nworkers, nworking |-> term.nworking,
                   nawakening |-> term.nawakening, resurrected |-> TRUE]
      BY <1>1, <2>2 DEF ControlOK
    <3> QED BY <3>1
  <2> QED BY <1>4, <2>1, <2>2
<1>6. ControlOK'
  <2>1. term' = [nworkers |-> term'.nworkers, nworking |-> term'.nworking,
                 nawakening |-> term'.nawakening, resurrected |-> term'.resurrected]
        /\ term'.nworkers = term.nworkers
    BY <1>5
  <2> QED BY <1>1, <1>2, <2>1 DEF ControlOK
<1>7. TypeOK'
  <2>1. local' \in Objects \cup {Null}
    BY <1>1, <1>3, <1>4 DEF TypeOK
  <2> QED BY <1>1, <1>2, <1>6, <2>1, SameObjects DEF TypeOK, HeapOK, StacksOK, IsStacks, listVars
<1>8. \A e : Outstanding(e) => Outstanding(e)'
  BY <1>2, PendingKept DEF Outstanding, Held
<1>9. \A x \in Objects : Grey(x) => Grey(x)'
  BY <1>2, <1>8, NotStoring DEF Grey, Within, ToMark, Entry
<1>10. SnapshotInv'
  <2>1. \A x \in Objects : FieldKept(x) /\ FieldFromSnapshot(x)
    BY <1>2 DEF FieldKept, FieldFromSnapshot
  <2>2. PICK r \in Objects : r = Referent
    BY <1>3
  <2>3. Referent \in marked => Grey(r)'
    BY <2>2 DEF Grey
  <2>4. LocalFromSnapshot
    BY <1>4, <2>2, <2>3 DEF LocalFromSnapshot
  <2>5. weakGood' => weakGood \/ \E x \in Objects : x = Referent /\ Grey(x)'
    BY <1>4, <2>2, <2>3
  <2> QED BY <1>1, <1>9, <2>1, <2>4, <2>5, SnapKept
<1>11. FollowInv'
  <2>1. \A x : Following(x) => Following(x)'
    BY DEF Following
  <2>2. \A x \in Objects : Responsible(x) => Responsible(x)'
    BY <1>8, <2>1 DEF Responsible, ToFollow, Entry
  <2> QED BY <1>1, <1>2, <2>2, FollowKept DEF TypeOK
<1>12. MutatorInv'
  BY <1>2, <1>4, NotStoring DEF MutatorInv
<1>13. Quiet => term'.resurrected \/ (Quiet' /\ UNCHANGED listVars)
  BY <1>2, <1>5 DEF Quiet
<1>14. StripesAreEmpty' => StripesAreEmpty
  BY <1>2 DEF StripesAreEmpty, listVars
<1>15. term'.nworkers = term.nworkers /\ (term.resurrected => term'.resurrected)
  BY <1>5
<1> QED BY <1>2, <1>7, <1>10, <1>11, <1>12, <1>13, <1>14, <1>15, MutatorMoves, NotFlushed

\* What is stored over enters the buffer before the store.
LEMMA StoreBarrierStep ==
  ASSUME IInv, UNCHANGED instance, phase # "done", MutatorKeeps, StoreBarrier
  PROVE  IInv'
<1> USE DEF MutatorKeeps, workVars
<1>1. TypeOK /\ SnapshotInv /\ FollowInv /\ MutatorInv /\ ControlOK
  BY DEF IInv, TypeOK
<1>2. /\ op # <<>> /\ op[1] \in {"add", "drain"}
      /\ UNCHANGED <<weakGood, term, local, stores>>
  BY DEF StoreBarrier
<1>3. Storing /\ op[2] \in Objects /\ op[3] \in {Null, local} /\ op[4] \in Objects
      /\ op[4] = heap[op[2]].to
  <2>1. op # <<"resurrect">>
    BY <1>2
  <2> QED BY <1>1, <1>2, <2>1 DEF MutatorInv
<1>4. ~Quiet
  BY <1>2 DEF Quiet
<1>5. ControlOK'
  BY <1>1, <1>2 DEF ControlOK
<1>6. LocalFromSnapshot
  BY <1>2 DEF LocalFromSnapshot
<1>7. \A x : Following(x) => Following(x)'
  BY DEF Following
<1>8. CASE /\ op[1] = "add" /\ op' = [op EXCEPT ![1] = "drain"]
           /\ UNCHANGED <<heap, stacks, listVars, wake, buffer>>
  <2>1. /\ DOMAIN op' = 1..4 /\ op'[1] = "drain" /\ op'[2] = op[2] /\ op'[3] = op[3]
        /\ op'[4] = op[4]
    BY <1>3, <1>8 DEF Storing
  <2>2. Storing'
    BY <2>1 DEF Storing
  <2>3. TypeOK'
    BY <1>1, <1>2, <1>5, <1>8, SameObjects DEF TypeOK, HeapOK, StacksOK, IsStacks, listVars
  <2>4. \A e : Outstanding(e) => Outstanding(e)'
    BY <1>8, PendingKept DEF Outstanding, Held
  <2>5. SnapshotInv'
    <3>1. \A x \in Objects : Grey(x) => Grey(x)'
      BY <1>8, <2>1, <2>2, <2>4 DEF Grey, Within, ToMark, Entry
    <3>2. \A x \in Objects : FieldKept(x) /\ FieldFromSnapshot(x)
      BY <1>8 DEF FieldKept, FieldFromSnapshot
    <3> QED BY <1>1, <1>2, <1>6, <3>1, <3>2, SnapKept
  <2>6. FollowInv'
    <3>1. \A x \in Objects : Responsible(x) => Responsible(x)'
      BY <1>7, <2>4 DEF Responsible, ToFollow, Entry
    <3> QED BY <1>1, <1>8, <3>1, FollowKept DEF TypeOK
  <2>7. MutatorInv'
    BY <1>2, <1>3, <1>8, <2>1, <2>2, SameObjects DEF MutatorInv
  <2>8. StripesAreEmpty' => StripesAreEmpty
    BY <1>8 DEF StripesAreEmpty, listVars
  <2> QED BY <1>2, <1>4, <1>8, <2>3, <2>5, <2>6, <2>7, <2>8, MutatorMoves, NotFlushed
<1>9. CASE /\ buffer # <<>> /\ MarkObject(Mutator, Head(buffer)) /\ buffer' = Tail(buffer)
           /\ UNCHANGED <<heap, op>>
  <2>1. /\ StacksOK' /\ buffer' \in Seq(Objects)
        /\ \A e : Outstanding(e) => Outstanding(e)'
        /\ \A o \in Objects : Within(o, buffer) =>
             Within(o, buffer') \/ o \in marked \/ Outstanding(ToMark(o))'
        /\ \A u \in Threads \ {Mutator} : stacks'[u] = stacks[u]
        /\ StripesAreEmpty' => StripesAreEmpty
    BY <1>1, <1>9, BufferKeeps, ThreadsAre
  <2>2. TypeOK'
    BY <1>1, <1>2, <1>5, <1>9, <2>1, SameObjects DEF TypeOK, HeapOK
  <2>3. SnapshotInv'
    <3>1. ASSUME NEW o \in Objects, Grey(o) PROVE Grey(o)'
      <4>1. Outstanding(ToMark(o)) => Outstanding(ToMark(o))'
        BY <2>1 DEF ToMark, Entry
      <4> QED BY <1>9, <2>1, <3>1, <4>1 DEF Grey, Storing, Within
    <3>2. \A x \in Objects : FieldKept(x) /\ FieldFromSnapshot(x)
      BY <1>9 DEF FieldKept, FieldFromSnapshot
    <3> QED BY <1>1, <1>2, <1>6, <3>1, <3>2, SnapKept
  <2>4. FollowInv'
    <3>1. \A x \in Objects : Responsible(x) => Responsible(x)'
      BY <1>7, <2>1 DEF Responsible, ToFollow, Entry
    <3> QED BY <1>1, <1>9, <3>1, FollowKept DEF TypeOK
  <2>5. MutatorInv'
    BY <1>1, <1>2, <1>9, SameObjects DEF MutatorInv, Storing
  <2> QED BY <1>2, <1>4, <1>9, <2>1, <2>2, <2>3, <2>4, <2>5, MutatorMoves, NotFlushed
<1>10. CASE /\ buffer' = Append(buffer, op[4])
            /\ heap' = [heap EXCEPT ![op[2]] = [to |-> op[3], good |-> TRUE]]
            /\ op' = <<>>
            /\ UNCHANGED <<stacks, listVars, wake>>
  <2>1. PICK o \in Objects, v \in {Null, local}, old \in Objects :
          /\ op[2] = o /\ op[3] = v /\ op[4] = old /\ heap[o].to = old
    BY <1>3
  <2>2. v \in Objects \cup {Null}
    BY <1>1 DEF TypeOK
  <2>3. /\ buffer' \in Seq(Objects) /\ Within(old, buffer')
        /\ \A x : Within(x, buffer) => Within(x, buffer')
    <3> DEFINE q == buffer
               new == Append(q, old)
    <3>1. q \in Seq(Objects)
      BY <1>1 DEF TypeOK
    <3>2. new \in Seq(Objects) /\ Within(old, new) /\ \A x : Within(x, q) => Within(x, new)
      BY <3>1, AppendIs
    <3>3. new = buffer'
      BY <1>10, <2>1
    <3> HIDE DEF new
    <3> QED BY <3>2, <3>3 DEF Within
  <2>4. /\ DOMAIN heap' = Objects /\ heap'[o] = [to |-> v, good |-> TRUE]
        /\ \A x \in Objects \ {o} : heap'[x] = heap[x]
    BY <1>1, <1>10, <2>1 DEF TypeOK, HeapOK
  <2>5. HeapOK'
    <3>1. ASSUME NEW x \in Objects
          PROVE  /\ heap'[x] = [to |-> heap'[x].to, good |-> heap'[x].good]
                 /\ heap'[x].to \in Objects \cup {Null} /\ heap'[x].good \in BOOLEAN
      <4>1. CASE x = o
        <5>1. heap'[x] = [to |-> v, good |-> TRUE]
          BY <2>4, <4>1
        <5>2. heap'[x].to = v
          BY <5>1
        <5>3. heap'[x].good = TRUE
          BY <5>1
        <5>4. heap'[x] = [to |-> heap'[x].to, good |-> heap'[x].good]
          BY <5>1, <5>2, <5>3
        <5> QED BY <2>2, <5>2, <5>3, <5>4
      <4>2. CASE x # o
        BY <1>1, <2>4, <4>2 DEF TypeOK, HeapOK
      <4> QED BY <4>1, <4>2
    <3> QED BY <2>4, <3>1, SameObjects DEF HeapOK
  <2>6. TypeOK'
    BY <1>1, <1>2, <1>5, <1>10, <2>3, <2>5, SameObjects DEF TypeOK, StacksOK, IsStacks, listVars
  <2>7. \A e : Outstanding(e) => Outstanding(e)'
    BY <1>10, PendingKept DEF Outstanding, Held
  <2>8. \A x \in Objects : Grey(x) => Grey(x)'
    <3> SUFFICES ASSUME NEW x \in Objects, Grey(x) PROVE Grey(x)'
      OBVIOUS
    <3>1. Outstanding(ToMark(x)) => Outstanding(ToMark(x))'
      BY <2>7 DEF ToMark, Entry
    <3>2. x \in marked \/ Outstanding(ToMark(x)) \/ Within(x, buffer) \/ x = old
      BY <2>1 DEF Grey
    <3>3. x \in marked' \/ Outstanding(ToMark(x))' \/ Within(x, buffer')
      BY <2>3, <3>1, <3>2
    <3> QED BY <3>3 DEF Grey, Within
  <2>9. \A x \in Objects : FieldKept(x) /\ FieldFromSnapshot(x)
    <3> SUFFICES ASSUME NEW x \in Objects PROVE FieldKept(x) /\ FieldFromSnapshot(x)
      OBVIOUS
    <3>1. CASE x = o
      <4>1. heap'[x].to = v
        BY <2>4, <3>1
      <4>2. Grey(old)'
        BY <2>3 DEF Grey, Within
      <4>3. FieldKept(x)
        BY <2>1, <3>1, <4>2 DEF FieldKept
      <4> QED BY <4>1, <4>3 DEF FieldFromSnapshot
    <3>2. CASE x # o
      BY <2>4, <3>2 DEF FieldKept, FieldFromSnapshot
    <3> QED BY <3>1, <3>2
  <2>10. SnapshotInv'
    BY <1>1, <1>2, <1>6, <2>8, <2>9, SnapKept
  <2>11. \A x \in Objects : heap'[x] = heap[x] \/ heap'[x].good
    <3>1. heap'[o].good
      BY <2>4
    <3> QED BY <2>4, <3>1
  <2>12. FollowInv'
    <3>1. \A x \in Objects : Responsible(x) => Responsible(x)'
      BY <1>7, <2>7 DEF Responsible, ToFollow, Entry
    <3> QED BY <1>1, <2>11, <3>1, FollowKept DEF TypeOK
  <2>13. MutatorInv'
    BY <1>10, NotStoring DEF MutatorInv
  <2>14. StripesAreEmpty' => StripesAreEmpty
    BY <1>10 DEF StripesAreEmpty, listVars
  <2> QED BY <1>2, <1>4, <1>10, <2>6, <2>10, <2>11, <2>12, <2>13, <2>14, MutatorMoves, NotFlushed
<1> QED BY <1>8, <1>9, <1>10 DEF StoreBarrier

\* The referent of a weak reference is pushed before the mutator gets it.
LEMMA ResurrectStep ==
  ASSUME IInv, UNCHANGED instance, phase # "done", MutatorKeeps, Resurrect
  PROVE  IInv'
<1> USE DEF MutatorKeeps, workVars
<1>1. TypeOK /\ SnapshotInv /\ FollowInv /\ MutatorInv /\ ControlOK
  BY DEF IInv, TypeOK
<1>2. PICK r \in Objects : r = Referent
  BY <1>1, MarkAssumption DEF TypeOK, Referent, Objects
<1>3. /\ op = <<"resurrect">> /\ Push(Mutator, ToMark(r), TRUE)
      /\ weakGood' = TRUE /\ local' = r /\ op' = <<>>
      /\ UNCHANGED <<heap, term, buffer, stores>>
  BY <1>2 DEF Resurrect, ToMark
<1>4. op # <<>>
  BY <1>3
<1>5. /\ StacksOK' /\ \A u \in Threads \ {Mutator} : stacks'[u] = stacks[u]
      /\ \A x : Pending(x) => Pending(x)'
      /\ Pending(ToMark(r))'
      /\ StripesAreEmpty' => StripesAreEmpty
  <2> DEFINE e == ToMark(r)
  <2>1. e \in Entries /\ e' = e /\ Push(Mutator, e, TRUE)
    BY <1>3, EntryIs, SameObjects
  <2> HIDE DEF e
  <2>2. /\ StacksOK' /\ \A u \in Threads \ {Mutator} : stacks'[u] = stacks[u]
        /\ \A x : Pending(x) => Pending(x)'
        /\ Pending(e)'
        /\ StripesAreEmpty' => StripesAreEmpty
    BY <1>1, <2>1, PushKeeps, ThreadsAre
  <2> QED BY <2>2 DEF e
<1>6. ControlOK'
  BY <1>1, <1>3 DEF ControlOK
<1>7. TypeOK'
  BY <1>1, <1>3, <1>5, <1>6, SameObjects DEF TypeOK, HeapOK
<1>8. \A e : Outstanding(e) => Outstanding(e)'
  BY <1>5 DEF Outstanding, Held
<1>9. Grey(r)'
  BY <1>5 DEF Grey, Outstanding
<1>10. SnapshotInv'
  <2>1. \A x \in Objects : Grey(x) => Grey(x)'
    BY <1>3, <1>8, NotStoring DEF Grey, Within, ToMark, Entry
  <2>2. \A x \in Objects : FieldKept(x) /\ FieldFromSnapshot(x)
    BY <1>3 DEF FieldKept, FieldFromSnapshot
  <2>3. LocalFromSnapshot
    BY <1>3, <1>9 DEF LocalFromSnapshot
  <2>4. \E o \in Objects : o = Referent /\ Grey(o)'
    BY <1>2, <1>9
  <2> QED BY <1>1, <2>1, <2>2, <2>3, <2>4, SnapKept
<1>11. FollowInv'
  <2>1. \A x : Following(x) => Following(x)'
    BY DEF Following
  <2>2. \A x \in Objects : Responsible(x) => Responsible(x)'
    BY <1>8, <2>1 DEF Responsible, ToFollow, Entry
  <2> QED BY <1>1, <1>3, <2>2, FollowKept DEF TypeOK
<1>12. MutatorInv'
  BY <1>3, NotStoring DEF MutatorInv
<1>13. ~Quiet
  BY <1>4 DEF Quiet
<1> QED BY <1>3, <1>4, <1>5, <1>7, <1>10, <1>11, <1>12, <1>13, MutatorMoves, NotFlushed
-----------------------------------------------------------------------------
\* Every step.
LEMMA WorkStep ==
  ASSUME IInv, UNCHANGED instance, NEW w \in Workers, Work(w)
  PROVE  IInv'
<1>1. UNCHANGED <<weakGood, requested, phase, mutatorVars>>
  BY DEF Work
<1>2. CASE EndWork(w)
  BY <1>1, <1>2, EndWorkStep
<1>3. CASE UNCHANGED live /\ (Drain(w) \/ Pop(w) \/ Mark(w) \/ Follow(w))
  BY <1>1, <1>3, DrainStep, PopStep, MarkStep, FollowStep
<1>4. CASE UNCHANGED live /\ (MarkChild(w) \/ Heal(w) \/ Rebalance(w) \/ Leave(w) \/ TryTerminate(w))
  BY <1>1, <1>4, MarkChildStep, HealStep, RebalanceStep, LeaveStep
<1>5. CASE UNCHANGED live /\ (TrySteal(w) \/ ProactiveFlush(w) \/ Woken(w))
  BY <1>1, <1>5, TryStealStep, ProactiveStep, WokenStep
<1> QED BY <1>2, <1>3, <1>4, <1>5 DEF Work

LEMMA MutatorStepKeeps ==
  ASSUME IInv, UNCHANGED instance, MutatorStep
  PROVE  IInv'
<1>1. phase # "done" /\ MutatorKeeps
  BY DEF MutatorStep, MutatorKeeps
<1>2. ASSUME NEW o \in Accessible, Load(o) \/ \E v \in {Null, local} : Store(o, v)
      PROVE  IInv'
  BY <1>1, <1>2, LoadStep, StoreStep
<1>3. CASE WeakLoad \/ StoreBarrier \/ Resurrect
  BY <1>1, <1>3, WeakLoadStep, StoreBarrierStep, ResurrectStep
<1> QED BY <1>2, <1>3 DEF MutatorStep

LEMMA CoordinateStep ==
  ASSUME IInv, UNCHANGED instance, Coordinate
  PROVE  IInv'
<1>1. CoordinatorKeeps
  BY DEF Coordinate, CoordinatorKeeps
<1> QED BY <1>1, TaskStep, TerminateStep, MarkEndStep DEF Coordinate

LEMMA FlushAndFreeStep ==
  ASSUME IInv, UNCHANGED instance, NEW t \in Threads, FlushAndFree(t)
  PROVE  IInv'
<1>1. FlusherKeeps
  BY DEF FlushAndFree, FlusherKeeps
<1> QED BY <1>1, FlushBufferStep, FlushStackStep, FlushEndStep DEF FlushAndFree

LEMMA Stutter ==
  ASSUME IInv, UNCHANGED vars
  PROVE  IInv'
<1> USE DEF vars, listVars, workVars, mutatorVars
<1>1. TypeOK /\ SnapshotInv /\ FollowInv /\ MutatorInv /\ WorkersInv /\ ControlOK /\ FlushInv
      /\ EndInv
  BY DEF IInv, TypeOK
<1>2. ControlOK'
  BY <1>1 DEF ControlOK
<1>3. TypeOK'
  BY <1>1, <1>2, ControlTyped
<1>4. SnapshotInv' /\ FollowInv' /\ MutatorInv'
  BY <1>1, ControlKept
<1>5. WorkersInv'
  <2> SUFFICES ASSUME NEW v \in Workers PROVE WorkerOK(v)'
    BY DEF WorkersInv
  <2> QED BY <1>1, WorkerKept DEF WorkersInv
<1>6. FlushInv' /\ EndInv'
  BY <1>1, FlushKept, EndKept DEF FlushInv
<1> QED BY <1>3, <1>4, <1>5, <1>6 DEF IInv

LEMMA NextStep ==
  ASSUME IInv, [Next]_vars
  PROVE  IInv'
<1>1. CASE UNCHANGED vars
  BY <1>1, Stutter
<1>2. CASE Next
  <2>1. UNCHANGED instance
    BY <1>2 DEF Next
  <2>2. ASSUME NEW t \in Threads, WakeUp(t) \/ FlushAndFree(t) PROVE IInv'
    BY <2>1, <2>2, WakeUpStep, FlushAndFreeStep
  <2>3. CASE (\E t \in {Mutator, VM} : Handshake(t)) \/ VMFlush
    BY <2>1, <2>3, HandshakeStep
  <2>4. ASSUME NEW w \in Workers, Work(w) \/ SpuriousWakeUp(w) PROVE IInv'
    BY <2>1, <2>4, WorkStep, SpuriousStep
  <2>5. ASSUME NEW n \in 1..MaxWorkers, RequestResize(n) PROVE IInv'
    BY <2>1, <2>5, ResizeStep
  <2>6. CASE Coordinate \/ MutatorStep
    BY <2>1, <2>6, CoordinateStep, MutatorStepKeeps
  <2>7. CASE Done
    BY <2>7, Stutter DEF Done
  <2> QED BY <1>2, <2>2, <2>3, <2>4, <2>5, <2>6, <2>7 DEF Next
<1> QED BY <1>1, <1>2
-----------------------------------------------------------------------------
\* The root scan's entries are all on the stripes' lists.
LEMMA SetToSeqIs ==
  ASSUME NEW S, IsFiniteSet(S)
  PROVE  /\ SetToSeq(S) \in Seq(S)
         /\ \A x \in S : \E i \in DOMAIN SetToSeq(S) : SetToSeq(S)[i] = x
<1>1. PICK n \in Nat : n = Cardinality(S) /\ ExistsBijection(1..n, S)
  BY FS_CardinalityType
<1>2. \E f \in [1..n -> S] : IsInjective(f)
  BY <1>1 DEF ExistsBijection, Bijection, Injection
<1>3. PICK f : f = SetToSeq(S) /\ f \in [1..n -> S] /\ IsInjective(f)
  <2>1. SetToSeq(S) = CHOOSE f \in [1..n -> S] : IsInjective(f)
    BY <1>1 DEF SetToSeq
  <2> QED BY <1>2, <2>1
<1>4. f \in Injection(1..n, S)
  BY <1>3 DEF Injection
<1>5. Cardinality(1..n) = Cardinality(S)
  BY <1>1, FS_Interval
<1>6. f \in Surjection(1..n, S)
  BY <1>4, <1>5, FS_Injection
<1>7. f \in Seq(S) /\ DOMAIN f = 1..n
  BY <1>3
<1> QED BY <1>3, <1>6, <1>7 DEF Surjection

Started(s) == {<<ToFollow(o)>> : o \in {r \in Roots : StripeForAddr(r) = s}}

LEMMA StartedIs ==
  ASSUME NEW s, IsFiniteSet(Roots), Roots \subseteq Objects
  PROVE  IsFiniteSet(Started(s)) /\ Started(s) \subseteq Listed
<1> DEFINE R == {r \in Roots : StripeForAddr(r) = s}
           f == [o \in R |-> <<ToFollow(o)>>]
<1>1. IsFiniteSet(R)
  BY FS_Subset
<1>2. f \in Surjection(R, Started(s))
  BY DEF Surjection, Started
<1>3. IsFiniteSet(Started(s))
  BY <1>1, <1>2, FS_Surjection
<1>4. ASSUME NEW o \in R PROVE <<ToFollow(o)>> \in Listed
  <2>1. ToFollow(o) \in Entries
    BY EntryIs
  <2>2. <<ToFollow(o)>> \in Seq(Entries) /\ <<ToFollow(o)>> # <<>>
    BY <2>1
  <2> QED BY <2>2 DEF Listed
<1> QED BY <1>3, <1>4 DEF Started

LEMMA InitInv ==
  ASSUME Init
  PROVE  IInv
<1>1. /\ instance \in Instances /\ instance.workers \in 1..MaxWorkers
      /\ Objects \subseteq Nat \ {0} /\ IsFiniteSet(Objects)
      /\ instance.fields \in [Objects -> Objects \cup {0}]
      /\ Roots \subseteq Objects
  BY MarkAssumption DEF Init, Objects, Roots
<1>2. IsFiniteSet(Roots)
  BY <1>1, FS_Subset
<1>3. nstripes \in StripeNumbers
  <2>1. instance.workers \in Nat /\ instance.workers >= 1
    BY <1>1, MarkAssumption
  <2> QED BY <2>1, Calculated DEF Init
<1>4. \A o \in Objects : StripeForAddr(o) \in Stripes
  <2> SUFFICES ASSUME NEW o \in Objects PROVE StripeForAddr(o) \in Stripes
    OBVIOUS
  <2>1. nstripes \in Nat /\ nstripes >= 1 /\ o \in Nat
    BY <1>1, <1>3, StripeNumber
  <2>2. o % nstripes \in 0..nstripes - 1
    BY <2>1
  <2> QED BY <1>3, <2>2, StripeNumber DEF StripeForAddr
<1>5. HeapOK
  <2>1. heap = [o \in Objects |-> [to |-> instance.fields[o], good |-> FALSE]]
    BY DEF Init, Objects
  <2> QED BY <1>1, <2>1 DEF HeapOK, Null
<1>6. published = [s \in Stripes |-> SetToSeq(Started(s))]
  BY DEF Init, Started, ToFollow
<1>7. /\ DOMAIN published = Stripes
      /\ \A s \in Stripes : published[s] \in Seq(Listed)
      /\ \A s \in Stripes : \A x \in Started(s) : \E i \in DOMAIN published[s] : published[s][i] = x
  <2>1. ASSUME NEW s \in Stripes
        PROVE  /\ published[s] \in Seq(Listed)
               /\ \A x \in Started(s) : \E i \in DOMAIN published[s] : published[s][i] = x
    <3>1. published[s] = SetToSeq(Started(s))
      BY <1>6
    <3>2. IsFiniteSet(Started(s)) /\ Started(s) \subseteq Listed
      BY <1>1, <1>2, StartedIs
    <3>3. PICK S : S = Started(s)
      OBVIOUS
    <3>4. /\ SetToSeq(S) \in Seq(S)
          /\ \A x \in S : \E i \in DOMAIN SetToSeq(S) : SetToSeq(S)[i] = x
      BY <3>2, <3>3, SetToSeqIs
    <3>5. published[s] \in Seq(S)
      BY <3>1, <3>3, <3>4
    <3> QED BY <3>1, <3>2, <3>3, <3>4, <3>5
  <2> QED BY <1>6, <2>1
<1>8. StacksOK
  <2>1. /\ stacks = [t \in Threads |-> <<>>] /\ overflowed = [s \in Stripes |-> <<>>]
    BY DEF Init
  <2>2. \A t \in Threads : stacks[t] = <<>> /\ DOMAIN stacks[t] = {}
    BY <2>1
  <2>3. \A s \in Stripes : overflowed[s] \in Seq(Listed)
    BY <2>1
  <2> QED BY <1>7, <2>1, <2>2, <2>3 DEF StacksOK, IsStacks
<1>9. ControlOK
  <2>1. 0 \in Stripes
    BY MarkAssumption DEF Stripes
  <2>2. term = [nworkers |-> instance.workers, nworking |-> 0, nawakening |-> 0,
                resurrected |-> FALSE]
    BY DEF Init
  <2>3. \A w \in Workers : /\ ctx[w] = [stripe |-> 0, nstripes |-> 0, processed |-> 0]
                           /\ cur[w] = [obj |-> Null, mark |-> FALSE, incLive |-> FALSE,
                                       child |-> Null]
                           /\ pc[w] = "idle"
    BY DEF Init, NoContext, NoEntry, Entry
  <2>4. /\ DOMAIN ctx = Workers /\ DOMAIN cur = Workers /\ DOMAIN pc = Workers
        /\ DOMAIN flush = Threads /\ requested = 0 /\ phase = "start"
    BY DEF Init
  <2>5. flushOp = [by |-> None, stage |-> "none", flushed |-> FALSE]
    BY DEF Init, NoFlush
  <2>6. requested \in 0..MaxWorkers
    BY <2>4, MarkAssumption
  <2>7. /\ term = [nworkers |-> term.nworkers, nworking |-> term.nworking,
                   nawakening |-> term.nawakening, resurrected |-> term.resurrected]
        /\ term.nworkers \in 1..MaxWorkers
    BY <1>1, <2>2
  <2>8. ASSUME NEW w \in Workers
        PROVE  /\ ctx[w] = [stripe |-> ctx[w].stripe, nstripes |-> ctx[w].nstripes,
                            processed |-> ctx[w].processed]
               /\ ctx[w].stripe \in Stripes
               /\ cur[w] = [obj |-> cur[w].obj, mark |-> cur[w].mark,
                            incLive |-> cur[w].incLive, child |-> cur[w].child]
               /\ pc[w] \in PCs
    BY <2>1, <2>3 DEF PCs
  <2> QED BY <1>3, <2>4, <2>5, <2>6, <2>7, <2>8 DEF ControlOK, Stages
<1>10. TypeOK
  BY <1>1, <1>5, <1>8, <1>9 DEF Init, TypeOK
<1>11. SnapshotInv
  BY <1>5 DEF Init, SnapshotInv, Objects
<1>12. FollowInv
  <2> SUFFICES ASSUME NEW o \in Roots PROVE Responsible(o)
    BY DEF Init, FollowInv
  <2>1. PICK s \in Stripes : s = StripeForAddr(o)
    BY <1>1, <1>4
  <2>2. <<ToFollow(o)>> \in Started(s)
    BY <2>1 DEF Started
  <2>3. PICK i \in DOMAIN published[s] : published[s][i] = <<ToFollow(o)>>
    BY <1>7, <2>2
  <2>4. Within(ToFollow(o), published[s][i])
    BY <2>3 DEF Within
  <2> QED BY <2>4 DEF Responsible, Outstanding, Pending, InPublished
<1>13. WorkersInv
  <2>1. \A w \in Workers : pc[w] = "idle" /\ flush[w] = None /\ DOMAIN stacks[w] = {}
    BY ThreadsAre DEF Init
  <2> QED BY <2>1 DEF WorkersInv, WorkerOK
<1>14. MutatorInv /\ FlushInv /\ EndInv
  <2>1. op = <<>> /\ phase = "start" /\ flushOp.stage = "none" /\ DOMAIN stacks[VM] = {}
        /\ \A t \in Threads : flush[t] = None
    BY ThreadsAre DEF Init, NoFlush
  <2>2. MutatorInv
    BY <2>1, NotStoring DEF MutatorInv
  <2>3. FlushInv
    BY <2>1, ThreadsAre DEF FlushInv
  <2> QED BY <2>1, <2>2, <2>3 DEF EndInv
<1> QED BY <1>10, <1>11, <1>12, <1>13, <1>14 DEF IInv
-----------------------------------------------------------------------------
\* Marking is incremental and its invariant inductive: nothing the mutator got
\* from the snapshot escapes what remains to be marked (SnapshotInv), and no
\* marked object's field is forgotten (FollowInv).
THEOREM MarkInvariant == Spec => []IInv
<1> QED BY InitInv, NextStep, PTL DEF Spec

LEMMA EndOfMarking ==
  ASSUME IInv PROVE MarkingIsComplete
<1> SUFFICES ASSUME phase = "done"
             PROVE  /\ ReachableFrom(Roots \cup ({local} \ {Null})) \subseteq marked
                    /\ StripesAreEmpty
                    /\ \A t \in Threads : DOMAIN stacks[t] = {}
  BY DEF MarkingIsComplete
<1>1. TypeOK /\ SnapshotInv /\ FollowInv /\ WorkersInv /\ FlushInv /\ EndInv
  BY DEF IInv
<1>2. StripesAreEmpty /\ Quiet
  BY <1>1 DEF EndInv
<1>3. \A w \in Workers : pc[w] = "idle" /\ DOMAIN stacks[w] = {}
  BY <1>1 DEF WorkersInv, WorkerOK
<1>4. DOMAIN stacks[VM] = {}
  BY <1>1 DEF FlushInv
<1>5. \A t \in Threads : DOMAIN stacks[t] = {}
  BY <1>2, <1>3, <1>4, ThreadsAre DEF Quiet
<1>6. Settled
  BY <1>1, <1>2, <1>3, <1>4, NothingToFind
<1>7. marked \in SUBSET DOMAIN heap
  BY <1>1 DEF TypeOK, HeapOK
<1>8. Roots \cup ({local} \ {Null}) \subseteq marked
  BY <1>1, <1>6 DEF TypeOK, Settled
<1>9. \A p \in marked : heap[p].to \in marked \cup {Null}
  BY <1>6 DEF Settled
<1>10. ReachableFrom(Roots \cup ({local} \ {Null})) \subseteq marked
  BY <1>7, <1>8, <1>9 DEF ReachableFrom
<1> QED BY <1>2, <1>5, <1>10

\* When marking has ended, every object the mutator can still reach is marked
\* and no mark stack holds work, for any number of workers, stripes, objects
\* and stores, any stack size and any resizing (ZMark::mark_follow, ZMark::end).
THEOREM MarkingComplete == Spec => []MarkingIsComplete
<1> QED BY MarkInvariant, EndOfMarking, PTL
=============================================================================

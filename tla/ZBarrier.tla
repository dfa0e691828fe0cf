------------------------------ MODULE ZBarrier ------------------------------
(***************************************************************************)
(* The barriers, the coloured pointers they heal, and the phases of the    *)
(* two generations that make pointers bad: the store barrier buffer of a   *)
(* thread and its stack watermark, young collections with their remembered *)
(* set, promotion and relocation, and one old collection that runs beside  *)
(* them.  An object has one field and is alone on its page, so a page's    *)
(* address is also the address of its object and of its field.             *)
(* How marking is shared among workers is ZMark's subject, how a page is   *)
(* relocated ZForwarding's and ZRelocateTargets', and how remembered bits  *)
(* move with a page ZRelocatedRemset's.                                    *)
(***************************************************************************)
EXTENDS Integers, FiniteSets

CONSTANTS NoAddr,      \* the null address
          Addr,        \* addresses, each room for one page
          Objects,     \* identities of objects (never seen by the code)
          Slots,       \* local variables of the thread
          NoObject,    \* no object
          Situations   \* initial heaps with bounds, see Init

ASSUME AddrAssumption == NoAddr \notin Addr /\ IsFiniteSet(Addr)
ASSUME SituationsAssumption ==
  /\ NoObject \notin Objects
  /\ \A s \in Situations :
       /\ DOMAIN s.age \subseteq Addr
       /\ \A a \in DOMAIN s.age : s.age[a] \in {"young", "old"} /\ s.obj[a] \in Objects

VARIABLES
  color,   \* the good colours
  page,    \* by address: the page there, with its object and its field
  young,   \* the young generation
  old,     \* the old generation
  remset,  \* remembered fields, [current, previous]
  thread,  \* a Java thread: locals, store barrier buffer, watermark colour
  worker,  \* by generation: the barrier a GC worker is in the middle of
  bounds   \* operations and collections that may still come

vars == <<color, page, young, old, remset, thread, worker, bounds>>

-----------------------------------------------------------------------------
(* Coloured pointers.  A pointer in a field of an object carries metadata    *)
(* bits that say what the collector has done with it; which of them are good *)
(* is a matter of three global colours that flip when a phase starts.  A     *)
(* pointer has one of the four remapped bits, here as the two parities the   *)
(* remapped masks of the generations test (ry, ro), one young mark bit (my), *)
(* one old mark or finalizable bit (mo, strong), and one or both of the      *)
(* remembered bits (rem).  A raw null has no bit at all.                     *)

Bit == {0, 1}

\* The good colour: what ZPointerRemappedYoungMask, ZPointerRemappedOldMask,
\* ZPointerMarkedYoung, ZPointerMarkedOld (and ZPointerFinalizable, which
\* flips with it) and ZPointerRemembered select.
Colors == [ry : Bit, ro : Bit, my : Bit, mo : Bit, rem : Bit]

RawNull == [addr |-> NoAddr, ry |-> 0, ro |-> 0, my |-> 0, mo |-> 0,
            strong |-> FALSE, rem |-> {}]

InitialColor == [ry |-> 0, ro |-> 0, my |-> 0, mo |-> 0, rem |-> 0]

FlipYoungMarkStart(c) == [c EXCEPT !.my = 1 - @, !.rem = 1 - @]
FlipYoungRelocateStart(c) == [c EXCEPT !.ry = 1 - @]
FlipOldMarkStart(c) == [c EXCEPT !.mo = 1 - @]
FlipOldRelocateStart(c) == [c EXCEPT !.ro = 1 - @]

-----------------------------------------------------------------------------
(* ZPointer: what a pointer's bits say under the good colour c *)

IsRawNull(o) == o.rem = {}
IsNullAny(o) == o.addr = NoAddr

IsYoungLoadGood(o, c) == o.ry = c.ry
IsOldLoadGood(o, c) == o.ro = c.ro
IsMarkedYoung(o, c) == o.my = c.my
IsMarkedAnyOld(o, c) == o.mo = c.mo
IsMarkedOld(o, c) == IsMarkedAnyOld(o, c) /\ o.strong
IsMarkedFinalizable(o, c) == IsMarkedAnyOld(o, c) /\ ~o.strong

IsLoadGood(o, c) ==
  ~IsRawNull(o) /\ IsYoungLoadGood(o, c) /\ IsOldLoadGood(o, c)
IsMarkGood(o, c) ==
  IsLoadGood(o, c) /\ IsMarkedYoung(o, c) /\ IsMarkedOld(o, c)
IsStoreGood(o, c) == IsMarkGood(o, c) /\ o.rem = {c.rem}

-----------------------------------------------------------------------------
(* ZAddress: colouring an address, given the pointer it was read from *)

StoreGood(a, c) ==
  [addr |-> a, ry |-> c.ry, ro |-> c.ro, my |-> c.my, mo |-> c.mo,
   strong |-> TRUE, rem |-> {c.rem}]

\* Load good and with both remembered bits; the mark bits are as given.
Remapped(a, my, mo, strong, c) ==
  [addr |-> a, ry |-> c.ry, ro |-> c.ro, my |-> my, mo |-> mo, strong |-> strong, rem |-> Bit]

ColorNull(c) == Remapped(NoAddr, c.my, c.mo, TRUE, c)

\* Mutant of LoadGood: the young mark bit gets lost.
LoadGoodUnmarked(a, prev, c) ==
  IF IsNullAny(prev) THEN ColorNull(c) ELSE Remapped(a, 1 - c.my, prev.mo, prev.strong, c)

LoadGood(a, prev, c) ==
  IF IsNullAny(prev) THEN ColorNull(c) ELSE Remapped(a, prev.my, prev.mo, prev.strong, c)

MarkYoungGood(a, prev, c) ==
  IF IsNullAny(prev) THEN ColorNull(c) ELSE Remapped(a, c.my, prev.mo, prev.strong, c)

MarkGood(a, prev, c) ==
  IF IsNullAny(prev) THEN ColorNull(c) ELSE Remapped(a, c.my, c.mo, TRUE, c)

\* ZBarrier::assert_transition_monotonicity: a heal never takes a quality away.
Monotonic(was, is, c) ==
  /\ IsLoadGood(was, c) => IsLoadGood(is, c)
  /\ IsMarkGood(was, c) => IsMarkGood(is, c)
  /\ IsStoreGood(was, c) => IsStoreGood(is, c)
  /\ ~IsNullAny(is) =>
       /\ IsMarkedYoung(was, c) => IsMarkedYoung(is, c)
       /\ IsMarkedOld(was, c) => IsMarkedOld(is, c)
       /\ IsMarkedFinalizable(was, c) => IsMarkedAnyOld(is, c)

-----------------------------------------------------------------------------
(* Pages and generations *)

FreePage == [age |-> "free", allocating |-> FALSE, obj |-> NoObject, field |-> RawNull]

Free == {a \in Addr : page[a].age = "free"}
IsYoung(a) == page[a].age = "young"
IsOld(a) == page[a].age = "old"
PagesOf(age) == {a \in Addr : page[a].age = age}

\* A generation that has not collected anything.  fwd is its forwarding table:
\* by the address of a page in the relocation set, where the object went (if
\* it did), the age it gets, and whether the page has been relocated and freed.
IdleGeneration ==
  [stage |-> "idle", major |-> FALSE, marked |-> {}, todo |-> {},
   flushed |-> FALSE, flipped |-> {}, fwd |-> [a \in {} |-> NoAddr]]

IsPhaseMark(g) == g.stage \in {"snapshot", "mark"}
IsPhaseRelocate(g) == g.stage \in {"idle", "relocate"}

Forwarding(g, a) == a \in DOMAIN g.fwd
Unforwarded(g, a) == Forwarding(g, a) /\ g.fwd[a].to = NoAddr
Remap(g, a) == IF Forwarding(g, a) THEN g.fwd[a].to ELSE a

\* ZMark::mark_object: an object on an allocating page is live anyway.
MarkObjects(g, S) ==
  LET new == {a \in S \ g.marked : ~page[a].allocating}
  IN  [g EXCEPT !.marked = @ \cup new, !.todo = @ \cup new]

\* ZBarrier::mark: each generation marks its own objects, while it marks.
MarkYoungIfActive(S) ==
  IF IsPhaseMark(young) THEN MarkObjects(young, S \cap PagesOf("young")) ELSE young
MarkOldIfActive(S) ==
  IF IsPhaseMark(old) THEN MarkObjects(old, S \cap PagesOf("old")) ELSE old

Remember(p) == IF IsOld(p) THEN [remset EXCEPT !.current = @ \cup {p}] ELSE remset

-----------------------------------------------------------------------------
(* Barriers *)

RemapGeneration(o) ==
  IF IsOldLoadGood(o, color) THEN young
  ELSE IF IsYoungLoadGood(o, color) THEN old
  ELSE IF o.rem = Bit THEN old
  ELSE IF Forwarding(young, o.addr) THEN young ELSE old

MakeLoadGood(o) ==
  IF IsNullAny(o) \/ IsLoadGood(o, color) THEN o.addr
  ELSE Remap(RemapGeneration(o), o.addr)

\* A barrier that finds an object that is not yet relocated relocates it
\* first: that is Copy, whoever takes the step, and the barrier goes on when
\* it is done.
Ready(o) ==
  \/ IsNullAny(o) \/ IsLoadGood(o, color)
  \/ ~Unforwarded(RemapGeneration(o), o.addr)

IsLoadGoodOrNull(o) == IsRawNull(o) \/ IsLoadGood(o, color)

\* The barriers GC workers apply to a field: when the pointer is fine as it is,
IsFast(kind, o) ==
  CASE kind = "follow young" -> IsNullAny(o) \/ IsStoreGood(o, color)
    [] kind = "follow old" -> IsMarkGood(o, color)
    [] kind = "scan" -> IsLoadGood(o, color) /\ IsMarkedYoung(o, color)
    [] kind \in {"remap", "promoted", "flipped"} -> IsLoadGoodOrNull(o)

\* and the pointer they heal it with otherwise.  Marking through an old object
\* leaves pointers to young objects to the remembered set.
HealWith(kind, a, o) ==
  CASE kind = "follow young" -> StoreGood(a, color)
    [] kind = "follow old" -> MarkGood(IF a # NoAddr /\ IsYoung(a) THEN NoAddr ELSE a, o, color)
    [] kind = "scan" -> IF a = NoAddr \/ IsYoung(a) THEN MarkGood(a, o, color)
                        ELSE MarkYoungGood(a, o, color)
    [] kind \in {"remap", "promoted", "flipped"} -> LoadGood(a, o, color)

\* Mutant of SelfHeal: the field is overwritten whatever it holds by now.
SelfHealBlindly(kind, p, o, heal) ==
  IF IsNullAny(heal) /\ ~IsNullAny(o) THEN page
  ELSE [page EXCEPT ![p].field = heal]

\* ZBarrier::self_heal: compare and exchange until the field is healed, or
\* someone else has healed it at least as well; never with a null for an object.
SelfHeal(kind, p, o, heal) ==
  IF \/ IsNullAny(heal) /\ ~IsNullAny(o)
     \/ page[p].field # o /\ IsFast(kind, page[p].field)
  THEN page ELSE [page EXCEPT ![p].field = heal]

-----------------------------------------------------------------------------
(* The thread.  It runs only with an up to date watermark; the barriers and  *)
(* the access are one step: safepoints are blocked in between.               *)

NoEntry == [p |-> NoAddr, prev |-> RawNull]

Awake == thread.color = color
MutatorRuns == Awake /\ bounds.ops > 0 /\ bounds' = [bounds EXCEPT !.ops = @ - 1]

\* Applied to a strong field of an object.
Load(x, y) ==
  LET p == thread.local[y]
      o == page[p].field
      a == MakeLoadGood(o)
  IN  /\ MutatorRuns
      /\ p # NoAddr
      /\ Ready(o)
      /\ page' = IF IsLoadGoodOrNull(o) THEN page
                 ELSE [page EXCEPT ![p].field = LoadGood(a, o, color)]
      /\ thread' = [thread EXCEPT !.local[x] = a]
      /\ UNCHANGED <<color, young, old, remset, worker>>

\* What the buffer's entry still has to mark and to remember.
EntryMarks == {MakeLoadGood(thread.entry.prev)}
EntryRemset == IF thread.entry = NoEntry THEN remset ELSE Remember(thread.entry.p)

\* ZStoreBarrierBuffer::flush and add
AddToBuffer(p, prev) ==
  /\ Ready(thread.entry.prev) /\ Ready(prev)
  /\ young' = MarkYoungIfActive(EntryMarks)
  /\ old' = MarkOldIfActive(EntryMarks)
  /\ remset' = EntryRemset
  /\ thread' = [thread EXCEPT !.entry = [p |-> p, prev |-> prev]]

\* ZBarrier::mark_and_remember
MarkAndRemember(p, prev) ==
  /\ Ready(prev)
  /\ young' = MarkYoungIfActive({MakeLoadGood(prev)})
  /\ old' = MarkOldIfActive({MakeLoadGood(prev)})
  /\ remset' = Remember(p)
  /\ UNCHANGED thread

NoSlowPath == UNCHANGED <<young, old, remset, thread>>

\* A plain store leaves its barrier's work to the buffer, and raw nulls are
\* good enough for it; an atomic access does the work at once, and its barrier
\* heals the field before the access overwrites it.
Store(x, a) ==
  LET p == thread.local[x]
      prev == page[p].field
  IN  /\ MutatorRuns
      /\ p # NoAddr
      /\ \/ IF IsRawNull(prev) \/ IsStoreGood(prev, color) THEN NoSlowPath
            ELSE AddToBuffer(p, prev)
         \/ IF IsStoreGood(prev, color) THEN NoSlowPath ELSE MarkAndRemember(p, prev)
      /\ page' = [page EXCEPT ![p].field = StoreGood(a, color)]
      /\ UNCHANGED <<color, worker>>

Allocated(a, age, obj, field) ==
  [page EXCEPT ![a] = [age |-> age, allocating |-> TRUE, obj |-> obj, field |-> field]]

\* The object is new: its field is a raw null.
New(x) ==
  /\ MutatorRuns
  /\ \E a \in Free, o \in Objects :
       /\ \A b \in Addr : page[b].obj # o
       /\ page' = Allocated(a, "young", o, RawNull)
       /\ thread' = [thread EXCEPT !.local[x] = a]
  /\ UNCHANGED <<color, young, old, remset, worker>>

Forget(x) ==
  /\ MutatorRuns
  /\ thread.local[x] # NoAddr
  /\ thread' = [thread EXCEPT !.local[x] = NoAddr]
  /\ UNCHANGED <<color, page, young, old, remset, worker>>

\* What the thread's locals and its buffered field were when it last ran.
Stale(a) == StoreGood(a, thread.color)

\* The remembered sets were flipped since the thread last ran.
WokeUpInYoungMark == thread.color.my # color.my

\* The stack watermark: a thread that wakes up in a new phase makes its locals
\* good and marks them, and then deals with its buffer.  A field buffered
\* before young marking started was meant for the remembered set that marking
\* scans by now: it is scanned here.
WakeUp ==
  LET locals == {MakeLoadGood(Stale(thread.local[x])) : x \in Slots}
      p == MakeLoadGood(Stale(thread.entry.p))
      prev == thread.entry.prev
      fieldOfOld == p # NoAddr /\ IsOld(p)
      scan == fieldOfOld /\ WokeUpInYoungMark
      o == page[p].field
      a == MakeLoadGood(o)
      inSnapshot == fieldOfOld /\ IsPhaseMark(old) /\ thread.color.mo = color.mo
  IN  /\ ~Awake
      /\ \A x \in Slots : Ready(Stale(thread.local[x]))
      /\ Ready(Stale(thread.entry.p))
      /\ scan => Ready(o)
      /\ inSnapshot => Ready(prev)
      /\ young' = MarkYoungIfActive(locals \cup (IF scan /\ ~IsFast("scan", o) THEN {a} ELSE {}))
      /\ old' = MarkOldIfActive(locals \cup (IF inSnapshot THEN {MakeLoadGood(prev)} ELSE {}))
      /\ page' = IF scan /\ ~IsFast("scan", o) THEN SelfHeal("scan", p, o, HealWith("scan", a, o))
                 ELSE page
      /\ remset' = IF fieldOfOld /\ (scan => a # NoAddr /\ IsYoung(a)) THEN Remember(p) ELSE remset
      /\ thread' = [color |-> color, entry |-> NoEntry,
                    local |-> [x \in Slots |-> MakeLoadGood(Stale(thread.local[x]))]]
      /\ UNCHANGED <<color, worker, bounds>>

-----------------------------------------------------------------------------
(* Barriers of GC workers: the pointer is read in one step, and dealt with   *)
(* in another; phases change only when no worker is in between.              *)

NoBarrier == [kind |-> "none", p |-> NoAddr, o |-> RawNull]
Quiet == \A g \in {"young", "old"} : worker[g] = NoBarrier

Read(g, kind, p) ==
  /\ worker[g] = NoBarrier
  /\ worker' = [worker EXCEPT ![g] = [kind |-> kind, p |-> p, o |-> page[p].field]]

Healed(g) ==
  LET w == worker[g] IN
  /\ Ready(w.o)
  /\ page' = IF IsFast(w.kind, w.o) THEN page
             ELSE SelfHeal(w.kind, w.p, w.o, HealWith(w.kind, MakeLoadGood(w.o), w.o))
  /\ worker' = [worker EXCEPT ![g] = NoBarrier]

\* What the slow path marks
Slow(g) == IF IsFast(worker[g].kind, worker[g].o) THEN {} ELSE {MakeLoadGood(worker[g].o)}

-----------------------------------------------------------------------------
(* The young generation *)

YoungMarkStart(major) ==
  /\ young.stage = "idle" /\ old.stage # "remap" /\ Quiet
  /\ bounds.young > 0
  /\ major => bounds.major /\ old.stage = "idle"
  /\ color' = IF major THEN FlipOldMarkStart(FlipYoungMarkStart(color))
              ELSE FlipYoungMarkStart(color)
  /\ page' = [a \in Addr |-> IF IsYoung(a) \/ (major /\ IsOld(a))
                             THEN [page[a] EXCEPT !.allocating = FALSE] ELSE page[a]]
  /\ young' = [young EXCEPT !.stage = "mark", !.major = major, !.marked = {}]
  /\ old' = IF major THEN [old EXCEPT !.stage = "snapshot", !.marked = {}] ELSE old
  /\ remset' = [current |-> remset.previous, previous |-> remset.current]
  /\ bounds' = [bounds EXCEPT !.young = @ - 1, !.major = @ /\ ~major]
  /\ UNCHANGED <<thread, worker>>

FollowYoung(p) ==
  /\ young.stage = "mark" /\ p \in young.todo
  /\ Read("young", "follow young", p)
  /\ young' = [young EXCEPT !.todo = @ \ {p}]
  /\ UNCHANGED <<color, page, old, remset, thread, bounds>>

\* The first young collection of a major one finds the old collection's roots
\* in the young generation.
YoungFollowed ==
  /\ worker.young.kind = "follow young"
  /\ Healed("young")
  /\ young' = MarkYoungIfActive(Slow("young"))
  /\ old' = IF young.major THEN MarkOldIfActive(Slow("young")) ELSE old
  /\ UNCHANGED <<color, remset, thread, bounds>>

\* Mutant of KnownDead: liveness is trusted while it is still being found out.
TrustedTooEarly(p) == ~page[p].allocating /\ p \notin old.marked

\* Liveness is known of an old page unless it is allocating or old is marking.
KnownDead(p) ==
  ~page[p].allocating /\ ~IsPhaseMark(old) /\ p \notin old.marked

\* A remembered field of a page that is being relocated is scanned where its
\* object goes, one of a dead object not at all.
Scan(q) ==
  LET moves == IsPhaseRelocate(old) /\ Forwarding(old, q) /\ ~old.fwd[q].done
      p == IF moves THEN old.fwd[q].to ELSE q
  IN  /\ young.stage = "mark" /\ q \in remset.previous
      /\ p # NoAddr
      /\ IF ~moves /\ KnownDead(p) THEN worker.young = NoBarrier /\ UNCHANGED worker
         ELSE Read("young", "scan", p)
      /\ remset' = [remset EXCEPT !.previous = @ \ {q}]
      /\ UNCHANGED <<color, page, young, old, thread, bounds>>

Scanned ==
  LET a == MakeLoadGood(worker.young.o) IN
  /\ worker.young.kind = "scan"
  /\ Healed("young")
  /\ young' = MarkYoungIfActive(Slow("young"))
  /\ remset' = IF a # NoAddr /\ IsYoung(a) THEN Remember(worker.young.p) ELSE remset
  /\ UNCHANGED <<color, old, thread, bounds>>

\* The handshake that ends marking of one generation flushes the buffer of the
\* thread, which has its watermark up to date by then.
TerminateFlush ==
  /\ Awake /\ Ready(thread.entry.prev)
  /\ remset' = EntryRemset
  /\ thread' = [thread EXCEPT !.entry = NoEntry]
  /\ UNCHANGED <<color, page, worker, bounds>>

YoungTerminate ==
  /\ young.stage = "mark" /\ ~young.flushed
  /\ young.todo = {} /\ remset.previous = {} /\ worker.young = NoBarrier
  /\ TerminateFlush
  /\ LET g == MarkYoungIfActive(EntryMarks) IN young' = [g EXCEPT !.flushed = g.todo = {}]
  /\ old' = MarkOldIfActive(EntryMarks)

\* Marking continues if work has turned up since.
MarkEnd(g) == IF g.todo = {} THEN [g EXCEPT !.stage = "complete", !.flushed = FALSE]
              ELSE [g EXCEPT !.flushed = FALSE]

YoungMarkEnd ==
  /\ young.stage = "mark" /\ young.flushed /\ Quiet
  /\ young' = MarkEnd(young)
  /\ UNCHANGED <<color, page, old, remset, thread, worker, bounds>>

YoungReset ==
  /\ young.stage = "complete"
  /\ young' = [young EXCEPT !.stage = "reset", !.fwd = IdleGeneration.fwd]
  /\ UNCHANGED <<color, page, old, remset, thread, worker, bounds>>

Installed(R, age) == [a \in R |-> [to |-> NoAddr, age |-> age[a], done |-> FALSE]]

\* Mutant of PromoteBarrier: nulls are skipped.
PromoteBarrierSkipsNulls(o) ==
  IF IsNullAny(o) \/ IsStoreGood(o, color) THEN o ELSE StoreGood(MakeLoadGood(o), color)

\* Before an object is promoted, its fields become store good, nulls too.
PromoteBarrier(o) == IF IsStoreGood(o, color) THEN o ELSE StoreGood(MakeLoadGood(o), color)

\* Dead pages are freed, and the others relocated or aged where they are.
YoungSelect ==
  LET relocatable == {a \in PagesOf("young") : ~page[a].allocating}
      live == relocatable \cap young.marked
  IN  /\ young.stage = "reset"
      /\ \A a \in live : Ready(page[a].field)
      /\ \E R \in SUBSET live, age \in [live -> {"young", "old"}] :
           LET Aged(a) == [page[a] EXCEPT
                 !.field = IF age[a] = "old" THEN PromoteBarrier(@) ELSE @,
                 !.age = IF a \in R THEN @ ELSE age[a],
                 !.allocating = a \notin R]
           IN  /\ page' = [a \in Addr |-> IF a \in live THEN Aged(a)
                                         ELSE IF a \in relocatable THEN FreePage ELSE page[a]]
               /\ young' = [young EXCEPT !.stage = "selected", !.fwd = Installed(R, age),
                              !.flipped = {a \in live \ R : age[a] = "old"}]
      /\ UNCHANGED <<color, old, remset, thread, worker, bounds>>

YoungRelocateStart ==
  /\ young.stage = "selected" /\ Quiet
  /\ color' = FlipYoungRelocateStart(color)
  /\ young' = [young EXCEPT !.stage = "relocate"]
  /\ UNCHANGED <<page, old, remset, thread, worker, bounds>>

\* Someone relocates an object: a worker, or a barrier that came across it.
Copied(g, a, b) ==
  /\ g.stage = "relocate" /\ Unforwarded(g, a) /\ b \in Free
  /\ page' = Allocated(b, g.fwd[a].age, page[a].obj, page[a].field)
  /\ UNCHANGED <<color, remset, thread, worker, bounds>>

CopyYoung(a, b) ==
  /\ Copied(young, a, b)
  /\ young' = [young EXCEPT !.fwd[a].to = b]
  /\ UNCHANGED old

Relocated(g, a) == Forwarding(g, a) /\ g.fwd[a].to # NoAddr /\ ~g.fwd[a].done

\* A survivor's page is done with, a promoted object's field is seen to first.
FinishYoung(a) ==
  /\ young.stage = "relocate" /\ Relocated(young, a)
  /\ IF young.fwd[a].age = "old"
     THEN Read("young", "promoted", young.fwd[a].to) /\ UNCHANGED <<page, young>>
     ELSE /\ worker.young = NoBarrier
          /\ page' = [page EXCEPT ![a] = FreePage]
          /\ young' = [young EXCEPT !.fwd[a].done = TRUE]
          /\ UNCHANGED worker
  /\ UNCHANGED <<color, old, remset, thread, bounds>>

\* update_remset_promoted: the field of a promoted object is remembered unless
\* it is known not to point to a young object.
Promoted(a) ==
  LET w == worker.young
      to == Remap(young, w.o.addr)
      mayBeYoung == ~IsNullAny(w.o) /\ (to # NoAddr => IsYoung(to))
      settled == IsStoreGood(w.o, color) \/ IsLoadGood(w.o, color)
      healed == IF settled \/ mayBeYoung THEN page
                ELSE SelfHeal("promoted", w.p, w.o, LoadGood(MakeLoadGood(w.o), w.o, color))
  IN  /\ w.kind = "promoted" /\ Relocated(young, a) /\ young.fwd[a].to = w.p
      /\ remset' = IF ~IsStoreGood(w.o, color)
                      /\ (IF settled THEN ~IsNullAny(w.o) /\ IsYoung(w.o.addr) ELSE mayBeYoung)
                   THEN Remember(w.p) ELSE remset
      /\ page' = [healed EXCEPT ![a] = FreePage]
      /\ young' = [young EXCEPT !.fwd[a].done = TRUE]
      /\ worker' = [worker EXCEPT !.young = NoBarrier]
      /\ UNCHANGED <<color, old, thread, bounds>>

AllDone(g) == \A a \in DOMAIN g.fwd : g.fwd[a].done

\* After that the pages that were promoted where they are.
FlipPromoted(p) ==
  /\ young.stage = "relocate" /\ AllDone(young) /\ p \in young.flipped
  /\ Read("young", "flipped", p)
  /\ young' = [young EXCEPT !.flipped = @ \ {p}]
  /\ UNCHANGED <<color, page, old, remset, thread, bounds>>

FlipRemembered ==
  LET w == worker.young
      a == MakeLoadGood(w.o)
  IN  /\ w.kind = "flipped"
      /\ IF IsStoreGood(w.o, color)
         THEN /\ worker' = [worker EXCEPT !.young = NoBarrier]
              /\ UNCHANGED <<page, remset>>
         ELSE /\ Healed("young")
              /\ remset' = IF a # NoAddr /\ IsYoung(a) THEN Remember(w.p) ELSE remset
      /\ UNCHANGED <<color, young, old, thread, bounds>>

YoungEnd ==
  /\ young.stage = "relocate" /\ AllDone(young) /\ young.flipped = {}
  /\ worker.young = NoBarrier
  /\ young' = [young EXCEPT !.stage = "idle"]
  /\ UNCHANGED <<color, page, old, remset, thread, worker, bounds>>

-----------------------------------------------------------------------------
(* The old generation.  Its marking goes on when the young collection it     *)
(* started with has ended.                                                   *)

OldMark ==
  /\ old.stage = "snapshot" /\ young.stage = "idle"
  /\ old' = [old EXCEPT !.stage = "mark"]
  /\ UNCHANGED <<color, page, young, remset, thread, worker, bounds>>

FollowOld(p) ==
  /\ old.stage = "mark" /\ p \in old.todo
  /\ Read("old", "follow old", p)
  /\ old' = [old EXCEPT !.todo = @ \ {p}]
  /\ UNCHANGED <<color, page, young, remset, thread, bounds>>

OldFollowed ==
  /\ worker.old.kind = "follow old"
  /\ Healed("old")
  /\ old' = MarkOldIfActive(Slow("old"))
  /\ UNCHANGED <<color, young, remset, thread, bounds>>

OldTerminate ==
  /\ old.stage = "mark" /\ ~old.flushed
  /\ old.todo = {} /\ worker.old = NoBarrier
  /\ TerminateFlush
  /\ young' = MarkYoungIfActive(EntryMarks)
  /\ LET g == MarkOldIfActive(EntryMarks) IN old' = [g EXCEPT !.flushed = g.todo = {}]

OldMarkEnd ==
  /\ old.stage = "mark" /\ old.flushed /\ Quiet
  /\ old' = MarkEnd(old)
  /\ UNCHANGED <<color, page, young, remset, thread, worker, bounds>>

OldSelect ==
  LET relocatable == {a \in PagesOf("old") : ~page[a].allocating}
      live == relocatable \cap old.marked
      dead == relocatable \ live
  IN  /\ old.stage = "complete"
      /\ page' = [a \in Addr |-> IF a \in dead THEN FreePage ELSE page[a]]
      /\ remset' = [current |-> remset.current \ dead, previous |-> remset.previous \ dead]
      /\ \E R \in SUBSET live :
           old' = [old EXCEPT !.stage = "selected",
                              !.fwd = Installed(R, [a \in R |-> "old"])]
      /\ UNCHANGED <<color, young, thread, worker, bounds>>

\* Under the driver lock, so with no young collection at work: the roots of
\* the young generation are made load good, page by page of the old
\* generation and at any time in between the thread.
OldRemapStart ==
  /\ old.stage = "selected" /\ young.stage = "idle"
  /\ old' = [old EXCEPT !.stage = "remap", !.todo = PagesOf("old")]
  /\ UNCHANGED <<color, page, young, remset, thread, worker, bounds>>

RemapRoots(p) ==
  /\ old.stage = "remap" /\ p \in old.todo
  /\ IF p \in remset.current THEN Read("old", "remap", p)
     ELSE worker.old = NoBarrier /\ UNCHANGED worker
  /\ old' = [old EXCEPT !.todo = @ \ {p}]
  /\ UNCHANGED <<color, page, young, remset, thread, bounds>>

RootsRemapped ==
  /\ worker.old.kind = "remap"
  /\ Healed("old")
  /\ UNCHANGED <<color, young, old, remset, thread, bounds>>

OldRelocateStart ==
  /\ old.stage = "remap" /\ old.todo = {} /\ Awake /\ Quiet
  /\ color' = FlipOldRelocateStart(color)
  /\ old' = [old EXCEPT !.stage = "relocate"]
  /\ UNCHANGED <<page, young, remset, thread, worker, bounds>>

CopyOld(a, b) ==
  /\ Copied(old, a, b)
  /\ old' = [old EXCEPT !.fwd[a].to = b]
  /\ UNCHANGED young

\* update_remset_old_to_old: the remembered bits go with the object.
Moved(S, a, b) == IF a \in S THEN (S \ {a}) \cup {b} ELSE S

FinishOld(a) ==
  /\ old.stage = "relocate" /\ Relocated(old, a) /\ worker.old = NoBarrier
  /\ remset' = [current |-> Moved(remset.current, a, old.fwd[a].to),
                previous |-> Moved(remset.previous, a, old.fwd[a].to)]
  /\ page' = [page EXCEPT ![a] = FreePage]
  /\ old' = [old EXCEPT !.fwd[a].done = TRUE]
  /\ UNCHANGED <<color, young, thread, worker, bounds>>

OldEnd ==
  /\ old.stage = "relocate" /\ AllDone(old)
  /\ old' = [old EXCEPT !.stage = "idle"]
  /\ UNCHANGED <<color, page, young, remset, thread, worker, bounds>>

-----------------------------------------------------------------------------

\* What the collection that promoted an object has left in its field.
Settled(a) == [StoreGood(a, InitialColor) EXCEPT !.rem = Bit]

\* A situation says which pages there are, which addresses their fields and
\* the locals refer to, and how much may happen: operations, young collections,
\* a major one among them.  Nothing has been collected yet, and the fields of
\* old objects that point to young ones are remembered.
Init ==
  \E s \in Situations :
    /\ color = InitialColor
    /\ page = [a \in Addr |->
                 IF a \notin DOMAIN s.age THEN FreePage
                 ELSE [age |-> s.age[a], allocating |-> TRUE, obj |-> s.obj[a],
                       field |-> IF s.age[a] = "old" THEN Settled(s.field[a])
                                 ELSE StoreGood(s.field[a], InitialColor)]]
    /\ young = IdleGeneration
    /\ old = IdleGeneration
    /\ remset = [previous |-> {}, current |->
                   {a \in DOMAIN s.age : /\ s.age[a] = "old" /\ s.field[a] # NoAddr
                                         /\ s.age[s.field[a]] = "young"}]
    /\ thread = [color |-> InitialColor, entry |-> NoEntry, local |-> s.local]
    /\ worker = [young |-> NoBarrier, old |-> NoBarrier]
    /\ bounds = s.bounds

Mutator ==
  \/ \E x, y \in Slots : Load(x, y)
  \/ \E x, y \in Slots : Store(x, thread.local[y])
  \/ \E x \in Slots : Store(x, NoAddr) \/ New(x) \/ Forget(x)
  \/ WakeUp

YoungCollection ==
  \/ \E major \in BOOLEAN : YoungMarkStart(major)
  \/ \E p \in Addr : FollowYoung(p) \/ Scan(p) \/ FinishYoung(p) \/ Promoted(p) \/ FlipPromoted(p)
  \/ \E a, b \in Addr : CopyYoung(a, b)
  \/ YoungFollowed \/ Scanned \/ FlipRemembered
  \/ YoungTerminate \/ YoungMarkEnd \/ YoungReset \/ YoungSelect
  \/ YoungRelocateStart \/ YoungEnd

OldCollection ==
  \/ \E p \in Addr : FollowOld(p) \/ RemapRoots(p) \/ FinishOld(p)
  \/ \E a, b \in Addr : CopyOld(a, b)
  \/ OldMark \/ OldFollowed \/ OldTerminate \/ OldMarkEnd \/ OldSelect
  \/ OldRemapStart \/ RootsRemapped \/ OldRelocateStart \/ OldEnd

Next == Mutator \/ YoungCollection \/ OldCollection

Spec == Init /\ [][Next]_vars

-----------------------------------------------------------------------------
(* Properties *)

\* Where a pointer leads: to the copy of a relocated object, and to the
\* object itself while it is only going to be relocated.
Target(o) ==
  IF IsNullAny(o) \/ IsLoadGood(o, color) \/ ~Ready(o) THEN o.addr ELSE MakeLoadGood(o)

LocalTarget(x) == Target(Stale(thread.local[x]))

\* What the thread can reach, by address.
Reachable ==
  LET follow[S \in SUBSET Addr] == S \cup ({Target(page[a].field) : a \in S} \ {NoAddr})
      reach[n \in 0..Cardinality(Addr)] ==
        IF n = 0 THEN {LocalTarget(x) : x \in Slots} \ {NoAddr} ELSE follow[reach[n - 1]]
  IN  reach[Cardinality(Addr)]

\* Fields someone still has to look at: remembered, buffered, in the hands of
\* a worker, or in a page or object that is being promoted or relocated.
LookedAfter ==
  LET entry == Target(Stale(thread.entry.p))
      bits == remset.current \cup remset.previous
  IN  bits \cup {entry, worker.young.p} \cup young.flipped
      \cup {young.fwd[a].to : a \in {a \in DOMAIN young.fwd : ~young.fwd[a].done}}
      \cup {old.fwd[a].to : a \in {a \in DOMAIN old.fwd : a \in bits /\ ~old.fwd[a].done}}

\* Young collections find every pointer from an old object to a young one
\* without looking at the old generation: its field is remembered, or someone
\* is about to remember it, whatever promotions, buffered stores, sleeping
\* threads, scans and relocations are under way (ZRemembered,
\* ZStoreBarrierBuffer::on_new_phase, update_remset_promoted).
OldToYoungIsRemembered ==
  \A a \in Reachable \ LookedAfter :
    IsOld(a) /\ Target(page[a].field) # NoAddr => ~IsYoung(Target(page[a].field))

\* Workers are never led astray, through floating garbage and the remembered
\* fields of dead objects either: whatever pointer one finds in a field leads
\* to a page that is there (ZBarrier::remap_generation, ZRemembered::scan_page,
\* ZGeneration::free_empty_pages).
NothingDangles ==
  \A g \in {"young", "old"} : Target(worker[g].o) \notin Free

\* Neither a heal nor a store takes a quality away from a pointer that somebody
\* else has established, whichever barriers meet at a field
\* (ZBarrier::assert_transition_monotonicity, ZBarrier::self_heal).
HealingIsMonotonic ==
  [][\A p \in Addr : page[p].obj = page'[p].obj
       => Monotonic(page[p].field, page'[p].field, color)]_vars
=============================================================================

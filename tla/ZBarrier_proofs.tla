-------------------------- MODULE ZBarrier_proofs ---------------------------
(***************************************************************************)
(* Proofs about ZBarrier.  For all pointers and all colours, a heal takes   *)
(* the fast path from then on, and keeps what other barriers have           *)
(* established; and that is so of every step of the specification: whatever *)
(* happens between the moment a worker reads a field and the moment it      *)
(* heals it, nothing is taken from what the field says by then.             *)
(***************************************************************************)
EXTENDS ZBarrier, TLAPS

Kinds == {"follow young", "follow old", "scan", "remap", "promoted", "flipped"}

\* A pointer coloured with the good colours is good in every respect.
LEMMA StoreGoodIsGood ==
  ASSUME NEW c \in Colors, NEW a
  PROVE  /\ IsStoreGood(StoreGood(a, c), c)
         /\ IsMarkGood(StoreGood(a, c), c)
         /\ IsLoadGood(StoreGood(a, c), c)
  BY DEF Colors, StoreGood, IsStoreGood, IsMarkGood, IsLoadGood, IsRawNull,
         IsYoungLoadGood, IsOldLoadGood, IsMarkedYoung, IsMarkedOld, IsMarkedAnyOld

\* So is a null, but for the remembered bits.
LEMMA ColorNullIsGood ==
  ASSUME NEW c \in Colors
  PROVE  IsMarkGood(ColorNull(c), c) /\ IsLoadGood(ColorNull(c), c) /\ IsMarkedYoung(ColorNull(c), c)
  BY DEF Colors, ColorNull, Remapped, IsMarkGood, IsLoadGood, IsRawNull, Bit,
         IsYoungLoadGood, IsOldLoadGood, IsMarkedYoung, IsMarkedOld, IsMarkedAnyOld

\* The colours given to a pointer, each good for what the barriers that use it
\* ask.
LEMMA ColoursAreGood ==
  ASSUME NEW c \in Colors, NEW o, NEW a
  PROVE  /\ IsLoadGood(LoadGood(a, o, c), c)
         /\ IsLoadGood(MarkYoungGood(a, o, c), c) /\ IsMarkedYoung(MarkYoungGood(a, o, c), c)
         /\ IsMarkGood(MarkGood(a, o, c), c)
         /\ IsLoadGood(MarkGood(a, o, c), c) /\ IsMarkedYoung(MarkGood(a, o, c), c)
<1>1. CASE IsNullAny(o)
  BY <1>1, ColorNullIsGood DEF LoadGood, MarkYoungGood, MarkGood
<1>2. CASE ~IsNullAny(o)
  BY <1>2 DEF LoadGood, MarkYoungGood, MarkGood, Remapped, Colors, Bit, IsMarkGood, IsLoadGood,
         IsRawNull, IsYoungLoadGood, IsOldLoadGood, IsMarkedYoung, IsMarkedOld, IsMarkedAnyOld
<1> QED BY <1>1, <1>2

\* What each barrier heals with.
LEMMA Heals ==
  ASSUME NEW o, NEW a
  PROVE  /\ HealWith("follow young", a, o) = StoreGood(a, color)
         /\ \E b : HealWith("follow old", a, o) = MarkGood(b, o, color)
         /\ HealWith("scan", a, o) \in {MarkGood(a, o, color), MarkYoungGood(a, o, color)}
         /\ \A kind \in {"remap", "promoted", "flipped"} : HealWith(kind, a, o) = LoadGood(a, o, color)
  BY DEF HealWith

\* And when it does not.
LEMMA Fasts ==
  ASSUME NEW o
  PROVE  /\ IsFast("follow young", o) <=> IsNullAny(o) \/ IsStoreGood(o, color)
         /\ IsFast("follow old", o) <=> IsMarkGood(o, color)
         /\ IsFast("scan", o) <=> IsLoadGood(o, color) /\ IsMarkedYoung(o, color)
         /\ \A kind \in {"remap", "promoted", "flipped"} : IsFast(kind, o) <=> IsLoadGoodOrNull(o)
  BY DEF IsFast, IsNullAny, IsStoreGood, IsMarkGood, IsLoadGood, IsMarkedYoung, IsLoadGoodOrNull

\* After a barrier has healed a field, the same barrier takes its fast path:
\* the compare and exchange of ZBarrier::self_heal ends, and nobody heals the
\* field for the same reason again before the next phase
\* (ZBarrier::barrier and its colour functions).
THEOREM HealsAreFast ==
  ASSUME color \in Colors, NEW kind \in Kinds, NEW o, NEW a
  PROVE  IsFast(kind, HealWith(kind, a, o))
<1>1. CASE kind = "follow young"
  BY <1>1, StoreGoodIsGood, Heals, Fasts
<1>2. CASE kind = "follow old"
  BY <1>2, ColoursAreGood, Heals, Fasts
<1>3. CASE kind = "scan"
  BY <1>3, ColoursAreGood, Heals, Fasts
<1>4. CASE kind \in {"remap", "promoted", "flipped"}
  BY <1>4, ColoursAreGood, Heals, Fasts DEF IsLoadGoodOrNull
<1> QED BY <1>1, <1>2, <1>3, <1>4 DEF Kinds

\* A barrier that does not take its fast path heals the pointer with one that
\* keeps what the old one was good for (ZBarrier::assert_transition_monotonicity).
THEOREM HealsAreMonotonic ==
  ASSUME color \in Colors, NEW kind \in Kinds, NEW o, NEW a,
         ~IsFast(kind, o)
  PROVE  Monotonic(o, HealWith(kind, a, o), color)
<1>1. CASE kind = "follow young"
  <2>1. ~IsStoreGood(o, color)
    BY <1>1, Fasts
  <2>2. Monotonic(o, StoreGood(a, color), color)
    BY <2>1, StoreGoodIsGood
       DEF Monotonic, IsMarkGood, IsMarkedOld, IsMarkedFinalizable
  <2> QED BY <1>1, <2>2, Heals
<1>2. CASE kind = "follow old"
  <2>1. ~IsMarkGood(o, color) /\ ~IsStoreGood(o, color)
    BY <1>2, Fasts DEF IsStoreGood
  <2>2. \A b : Monotonic(o, MarkGood(b, o, color), color)
    BY <2>1, ColoursAreGood DEF Monotonic, IsMarkGood, IsMarkedOld, IsMarkedFinalizable
  <2> QED BY <1>2, <2>2, Heals
<1>3. CASE kind = "scan"
  <2>1. ~IsMarkGood(o, color) /\ ~IsStoreGood(o, color)
    BY <1>3, Fasts DEF IsMarkGood, IsStoreGood
  <2>2. Monotonic(o, MarkGood(a, o, color), color)
    BY <2>1, ColoursAreGood DEF Monotonic, IsMarkGood, IsMarkedOld, IsMarkedFinalizable
  <2> DEFINE heal == MarkYoungGood(a, o, color)
  <2>3. ~IsNullAny(o) => heal.mo = o.mo /\ heal.strong = o.strong
    BY DEF MarkYoungGood, Remapped
  <2>4. IsNullAny(o) => IsMarkGood(heal, color)
    BY ColorNullIsGood DEF MarkYoungGood
  <2>5. Monotonic(o, heal, color)
    BY <2>1, <2>3, <2>4, ColoursAreGood
       DEF Monotonic, IsMarkGood, IsMarkedOld, IsMarkedAnyOld, IsMarkedFinalizable
  <2> QED BY <1>3, <2>2, <2>5, Heals
<1>4. CASE kind \in {"remap", "promoted", "flipped"}
  <2> DEFINE heal == LoadGood(a, o, color)
  <2>1. ~IsLoadGood(o, color) /\ ~IsMarkGood(o, color) /\ ~IsStoreGood(o, color)
    BY <1>4, Fasts DEF IsLoadGoodOrNull, IsMarkGood, IsStoreGood
  <2>2. ~IsNullAny(o) => heal.my = o.my /\ heal.mo = o.mo /\ heal.strong = o.strong
    BY DEF LoadGood, Remapped
  <2>3. IsNullAny(o) => IsMarkGood(heal, color) /\ IsMarkedYoung(heal, color)
    BY ColorNullIsGood DEF LoadGood
  <2>4. Monotonic(o, heal, color)
    BY <2>1, <2>2, <2>3
       DEF Monotonic, IsMarkGood, IsMarkedOld, IsMarkedYoung, IsMarkedAnyOld, IsMarkedFinalizable
  <2> QED BY <1>4, <2>4, Heals
<1> QED BY <1>1, <1>2, <1>3, <1>4 DEF Kinds

-----------------------------------------------------------------------------
(* What pages, generations and workers are in the middle of.               *)

\* A page is as it is, and free if there is no object in it.
PageInv ==
  /\ color \in Colors
  /\ page = [a \in Addr |-> [age |-> page[a].age, allocating |-> page[a].allocating,
                             obj |-> page[a].obj, field |-> page[a].field]]
  /\ \A a \in Addr : /\ page[a].age \in {"free", "young", "old"}
                     /\ page[a].allocating \in BOOLEAN
                     /\ page[a].age = "free" <=> page[a].obj = NoObject

\* A page is done with only when its object has been relocated.
EntriesOK(f) ==
  \A a \in DOMAIN f : /\ f[a].done \in BOOLEAN /\ f[a].age \in {"young", "old"}
                      /\ f[a].done => f[a].to # NoAddr

IsGeneration(g) ==
  /\ g = [stage |-> g.stage, major |-> g.major, marked |-> g.marked, todo |-> g.todo,
          flushed |-> g.flushed, flipped |-> g.flipped, fwd |-> g.fwd]
  /\ DOMAIN g.fwd \subseteq Addr
  /\ g.fwd = [a \in DOMAIN g.fwd |->
                [to |-> g.fwd[a].to, age |-> g.fwd[a].age, done |-> g.fwd[a].done]]
  /\ EntriesOK(g.fwd)

\* A page that the current collections must not touch.
IsNewOld(a) == a \in Addr => IsOld(a) /\ page[a].allocating

\* A page that is still to be relocated is neither new nor freed, nor is the
\* page its object gets promoted to; those promoted where they are are new too.
YoungInv ==
  /\ IsGeneration(young)
  /\ \A a \in DOMAIN young.fwd : ~young.fwd[a].done =>
       /\ young.stage \in {"selected", "relocate"}
       /\ IsYoung(a) /\ ~page[a].allocating
       /\ young.fwd[a].age = "old" => IsNewOld(young.fwd[a].to)
  /\ \A p \in young.flipped : young.stage \in {"selected", "relocate"} /\ IsNewOld(p)

OldInv ==
  /\ IsGeneration(old)
  /\ \A a \in DOMAIN old.fwd : ~old.fwd[a].done =>
       /\ old.stage \in {"selected", "remap", "relocate"}
       /\ IsOld(a) /\ ~page[a].allocating
       /\ old.fwd[a].age = "old" /\ IsNewOld(old.fwd[a].to)
  /\ old.stage = "remap" => young.stage = "idle"

RemsetInv ==
  /\ remset = [current |-> remset.current, previous |-> remset.previous]
  /\ \A q \in (remset.current \cup remset.previous) \cap Addr : IsOld(q)

\* The field a worker has read is as it was, or load good by now.
HasRead(w) ==
  w.p \in Addr => IsOld(w.p) /\ (page[w.p].field = w.o \/ IsLoadGood(page[w.p].field, color))

\* A scanned field is as it was, or load good by now, and marked for the young
\* generation or as much for the old one as it was.
Scanning(w) ==
  w.p \in Addr =>
    LET o == page[w.p].field IN
    /\ IsOld(w.p)
    /\ page[w.p].allocating \/ IsPhaseMark(old) \/ w.p \in old.marked
    /\ old.stage = "relocate" /\ Forwarding(old, w.p) => old.fwd[w.p].done
    /\ \/ o = w.o
       \/ IsLoadGood(o, color) /\ (IsMarkedYoung(o, color) \/ (o.mo = w.o.mo /\ o.strong = w.o.strong))

WorkersInv ==
  /\ worker = [young |-> worker.young, old |-> worker.old]
  /\ worker.young.kind \in {"none", "follow young", "scan", "promoted", "flipped"}
  /\ worker.old.kind \in {"none", "follow old", "remap"}
  /\ worker.young.kind = "scan" => young.stage = "mark" /\ Scanning(worker.young)
  /\ worker.young.kind \in {"promoted", "flipped"} =>
       young.stage = "relocate" /\ IsNewOld(worker.young.p) /\ HasRead(worker.young)
  /\ worker.old.kind = "remap" => old.stage = "remap" /\ HasRead(worker.old)

IInv == PageInv /\ YoungInv /\ OldInv /\ RemsetInv /\ WorkersInv

-----------------------------------------------------------------------------
(* Pages are as they were, but for fields that have been healed.           *)

\* n is what o has become: load good, and marked for the young generation, or
\* marked as it was.
Improved(o, n) ==
  \/ n = o
  \/ /\ IsLoadGood(n, color)
     /\ IsMarkedYoung(n, color) \/ (n.my = o.my /\ n.mo = o.mo /\ n.strong = o.strong)

Healing(P) ==
  /\ P = [a \in Addr |-> [age |-> page[a].age, allocating |-> page[a].allocating,
                          obj |-> page[a].obj, field |-> P[a].field]]
  /\ \A a \in Addr : Improved(page[a].field, P[a].field)
                     /\ Monotonic(page[a].field, P[a].field, color)

\* The work of a generation goes on: its phase and its pages are the same.
Continues(g, h) ==
  /\ h = [g EXCEPT !.marked = h.marked, !.todo = h.todo, !.flushed = h.flushed,
                   !.flipped = h.flipped]
  /\ g.marked \subseteq h.marked /\ h.flipped \subseteq g.flipped

LEMMA NothingHealed ==
  ASSUME PageInv
  PROVE  Healing(page)
  BY DEF PageInv, Healing, Improved, Monotonic, IsMarkedFinalizable

\* A field is overwritten.
LEMMA FieldHealed ==
  ASSUME PageInv, NEW p, NEW n,
         p \in Addr => Improved(page[p].field, n) /\ Monotonic(page[p].field, n, color)
  PROVE  Healing([page EXCEPT ![p].field = n])
<1> DEFINE P == [page EXCEPT ![p].field = n]
<1>0. P = [a \in Addr |-> IF a = p THEN [page[a] EXCEPT !.field = n] ELSE page[a]]
  BY DEF PageInv
<1> HIDE DEF P
<1>1. P = [a \in Addr |-> [age |-> page[a].age, allocating |-> page[a].allocating,
                           obj |-> page[a].obj, field |-> P[a].field]]
  <2>1. ASSUME NEW a \in Addr
        PROVE  P[a] = [age |-> page[a].age, allocating |-> page[a].allocating,
                       obj |-> page[a].obj, field |-> P[a].field]
    <3>1. page[a] = [age |-> page[a].age, allocating |-> page[a].allocating,
                     obj |-> page[a].obj, field |-> page[a].field]
      BY DEF PageInv
    <3>2. P[a] = IF a = p THEN [page[a] EXCEPT !.field = n] ELSE page[a]
      BY <1>0
    <3> QED BY <3>1, <3>2
  <2> QED BY <1>0, <2>1
<1>2. \A a \in Addr : P[a].field = page[a].field \/ (a = p /\ P[a].field = n)
  <2>1. \A a \in Addr : page[a] = [age |-> page[a].age, allocating |-> page[a].allocating,
                                   obj |-> page[a].obj, field |-> page[a].field]
    BY DEF PageInv
  <2> QED BY <1>0, <2>1
<1>3. \A a \in Addr : Monotonic(page[a].field, page[a].field, color)
  BY DEF Monotonic, IsMarkedFinalizable
<1>4. Healing(P)
  BY <1>1, <1>2, <1>3 DEF Healing, Improved
<1> QED BY <1>4 DEF P

LEMMA Continued ==
  ASSUME NEW g, IsGeneration(g), NEW h, Continues(g, h)
  PROVE  /\ IsGeneration(h)
         /\ h.stage = g.stage /\ h.fwd = g.fwd
         /\ g.marked \subseteq h.marked /\ h.flipped \subseteq g.flipped
<1>1. h = [stage |-> g.stage, major |-> g.major, marked |-> h.marked, todo |-> h.todo,
           flushed |-> h.flushed, flipped |-> h.flipped, fwd |-> g.fwd]
  BY DEF IsGeneration, Continues
<1>2. h.stage = g.stage /\ h.fwd = g.fwd
      /\ h = [stage |-> h.stage, major |-> h.major, marked |-> h.marked, todo |-> h.todo,
              flushed |-> h.flushed, flipped |-> h.flipped, fwd |-> h.fwd]
  BY <1>1
<1>3. IsGeneration(h)
  BY <1>2 DEF IsGeneration
<1> QED BY <1>2, <1>3 DEF Continues

LEMMA GenerationRests ==
  ASSUME NEW g, IsGeneration(g)
  PROVE  Continues(g, g)
  BY DEF IsGeneration, Continues

LEMMA MarkingContinues ==
  ASSUME YoungInv, OldInv, NEW S
  PROVE  /\ Continues(young, MarkYoungIfActive(S))
         /\ Continues(old, MarkOldIfActive(S))
<1>1. ASSUME NEW g, NEW T, IsGeneration(g) PROVE Continues(g, MarkObjects(g, T))
  BY <1>1 DEF MarkObjects, Continues, IsGeneration
<1> QED BY <1>1, GenerationRests DEF MarkYoungIfActive, MarkOldIfActive, YoungInv, OldInv

\* Remembering adds fields of old pages.
RemsetGrows ==
  /\ remset' = [current |-> remset'.current, previous |-> remset'.previous]
  /\ \A q \in Addr : q \in remset'.current \cup remset'.previous =>
       q \in remset.current \cup remset.previous \/ IsOld(q)

LEMMA RemsetRests ==
  ASSUME RemsetInv
  PROVE  /\ UNCHANGED remset => RemsetGrows
         /\ \A p : remset' = Remember(p) => RemsetGrows
  BY DEF RemsetInv, RemsetGrows, Remember

\* A scanned field stays one.
LEMMA ScansGoOn ==
  ASSUME NEW w, w.p \in Addr, Scanning(w), color' = color,
         IsOld(w.p)', page'[w.p].allocating = page[w.p].allocating,
         Improved(page[w.p].field, page'[w.p].field),
         IsPhaseMark(old) => IsPhaseMark(old)', old.marked \subseteq old'.marked,
         (old.stage = "relocate" /\ Forwarding(old, w.p) => old.fwd[w.p].done)
           => (old'.stage = "relocate" /\ Forwarding(old', w.p) => old'.fwd[w.p].done)
  PROVE  Scanning(w)'
<1>1. page'[w.p].allocating \/ IsPhaseMark(old)' \/ w.p \in old'.marked
  BY DEF Scanning
<1>2. old'.stage = "relocate" /\ Forwarding(old', w.p) => old'.fwd[w.p].done
  BY DEF Scanning
<1> DEFINE Good(o) ==
      \/ o = w.o
      \/ IsLoadGood(o, color) /\ (IsMarkedYoung(o, color) \/ (o.mo = w.o.mo /\ o.strong = w.o.strong))
<1>3. Good(page[w.p].field)
  BY DEF Scanning
<1>4. ASSUME NEW o, NEW n, Good(o), Improved(o, n) PROVE Good(n)
  <2>1. CASE n = o
    BY <1>4, <2>1
  <2>2. CASE n # o
    BY <1>4, <2>2 DEF Improved, IsMarkedYoung
  <2> QED BY <2>1, <2>2
<1>5. Good(page'[w.p].field)
  BY <1>3, <1>4
<1> QED BY <1>1, <1>2, <1>5 DEF Scanning

\* What stays true while fields are healed.
LEMMA HealingKeeps ==
  ASSUME IInv, color' = color, Healing(page'), Continues(young, young'), Continues(old, old'),
         RemsetGrows
  PROVE  /\ PageInv' /\ YoungInv' /\ OldInv' /\ RemsetInv'
         /\ \A a : IsNewOld(a) => IsNewOld(a)'
         /\ \A w : (Scanning(w) => Scanning(w)') /\ (HasRead(w) => HasRead(w)')
<1>1. \A a \in Addr : /\ page'[a].age = page[a].age
                      /\ page'[a].allocating = page[a].allocating
                      /\ page'[a].obj = page[a].obj
                      /\ Improved(page[a].field, page'[a].field)
  BY DEF Healing
<1>2. PageInv'
  BY <1>1 DEF Healing, IInv, PageInv
<1>3. \A a \in Addr : (IsYoung(a)' <=> IsYoung(a)) /\ (IsOld(a)' <=> IsOld(a))
  BY <1>1 DEF IsYoung, IsOld
<1>4. \A a : IsNewOld(a) => IsNewOld(a)'
  BY <1>1, <1>3 DEF IsNewOld
<1>5. /\ IsGeneration(young') /\ young'.stage = young.stage /\ young'.fwd = young.fwd
      /\ young'.flipped \subseteq young.flipped
      /\ IsGeneration(old') /\ old'.stage = old.stage /\ old'.fwd = old.fwd
      /\ old.marked \subseteq old'.marked
  BY Continued DEF IInv, YoungInv, OldInv
<1>6. DOMAIN young.fwd \subseteq Addr /\ DOMAIN old.fwd \subseteq Addr
  BY DEF IInv, YoungInv, OldInv, IsGeneration
<1>7. YoungInv'
  BY <1>1, <1>3, <1>4, <1>5, <1>6 DEF IInv, YoungInv, IsGeneration
<1>8. OldInv'
  BY <1>1, <1>3, <1>4, <1>5, <1>6 DEF IInv, OldInv, IsGeneration
<1>9. RemsetInv'
  BY <1>3 DEF IInv, RemsetInv, RemsetGrows
<1>10. ASSUME NEW w, Scanning(w) PROVE Scanning(w)'
  <2> SUFFICES ASSUME w.p \in Addr PROVE Scanning(w)'
    BY DEF Scanning
  <2>1. IsOld(w.p)' /\ page'[w.p].allocating = page[w.p].allocating
        /\ Improved(page[w.p].field, page'[w.p].field)
    BY <1>1, <1>3, <1>10 DEF Scanning
  <2>2. IsPhaseMark(old) => IsPhaseMark(old)'
    BY <1>5 DEF IsPhaseMark
  <2>3. (old.stage = "relocate" /\ Forwarding(old, w.p) => old.fwd[w.p].done)
          => (old'.stage = "relocate" /\ Forwarding(old', w.p) => old'.fwd[w.p].done)
    BY <1>5 DEF Forwarding
  <2> QED BY <1>5, <1>10, <2>1, <2>2, <2>3, ScansGoOn
<1>11. ASSUME NEW w, HasRead(w) PROVE HasRead(w)'
  BY <1>1, <1>3, <1>11 DEF HasRead, Improved
<1> QED BY <1>2, <1>4, <1>7, <1>8, <1>9, <1>10, <1>11

\* And of the workers, each goes on with its barrier, or is done with it.
LEMMA HealingStep ==
  ASSUME IInv, color' = color, Healing(page'), Continues(young, young'), Continues(old, old'),
         RemsetGrows,
         \/ UNCHANGED worker
         \/ \E g \in {"young", "old"} : worker' = [worker EXCEPT ![g] = NoBarrier]
  PROVE  IInv'
<1>1. /\ worker' = [young |-> worker'.young, old |-> worker'.old]
      /\ worker'.young \in {worker.young, NoBarrier} /\ worker'.old \in {worker.old, NoBarrier}
  BY DEF IInv, WorkersInv
<1>2. young'.stage = young.stage /\ old'.stage = old.stage
  BY Continued DEF IInv, YoungInv, OldInv
<1>3. NoBarrier.kind = "none"
  BY DEF NoBarrier
<1>4. WorkersInv'
  BY <1>1, <1>2, <1>3, HealingKeeps DEF IInv, WorkersInv
<1> QED BY <1>4, HealingKeeps DEF IInv

-----------------------------------------------------------------------------
(* What the barriers write.                                                *)

LEMMA MarksImprove ==
  ASSUME color \in Colors, NEW f, NEW n, IsMarkGood(n, color),
         ~IsStoreGood(f, color) \/ IsStoreGood(n, color)
  PROVE  Improved(f, n) /\ Monotonic(f, n, color)
  BY DEF Improved, Monotonic, IsMarkGood, IsMarkedOld, IsMarkedFinalizable

LEMMA LoadsImprove ==
  ASSUME color \in Colors, NEW o, NEW a, ~IsLoadGood(o, color)
  PROVE  Improved(o, LoadGood(a, o, color)) /\ Monotonic(o, LoadGood(a, o, color), color)
<1> DEFINE n == LoadGood(a, o, color)
<1>1. ~IsMarkGood(o, color) /\ ~IsStoreGood(o, color) /\ IsLoadGood(n, color)
  BY ColoursAreGood DEF IsMarkGood, IsStoreGood
<1>2. ~IsNullAny(o) => n.my = o.my /\ n.mo = o.mo /\ n.strong = o.strong
  BY DEF LoadGood, Remapped
<1>3. IsNullAny(o) => IsMarkGood(n, color) /\ IsMarkedYoung(n, color)
  BY ColorNullIsGood DEF LoadGood
<1> HIDE DEF n
<1>4. Improved(o, n)
  BY <1>1, <1>2, <1>3 DEF Improved
<1>5. Monotonic(o, n, color)
  BY <1>1, <1>2, <1>3
     DEF Monotonic, IsMarkGood, IsMarkedOld, IsMarkedYoung, IsMarkedAnyOld, IsMarkedFinalizable
<1> QED BY <1>4, <1>5 DEF n

\* A field scanned for the young generation, healed as far as is seen from
\* what was read there, f being there by now.
LEMMA ScansImprove ==
  ASSUME color \in Colors, NEW o, NEW f, NEW a,
         ~(IsLoadGood(f, color) /\ IsMarkedYoung(f, color)),
         f = o \/ (f.mo = o.mo /\ f.strong = o.strong)
  PROVE  /\ Improved(f, HealWith("scan", a, o))
         /\ Monotonic(f, HealWith("scan", a, o), color)
<1>1. ~IsMarkGood(f, color) /\ ~IsStoreGood(f, color)
  BY DEF IsMarkGood, IsStoreGood
<1>2. Improved(f, MarkGood(a, o, color)) /\ Monotonic(f, MarkGood(a, o, color), color)
  BY <1>1, ColoursAreGood, MarksImprove
<1> DEFINE n == MarkYoungGood(a, o, color)
<1>3. IsLoadGood(n, color) /\ IsMarkedYoung(n, color)
  BY ColoursAreGood
<1>4. ~IsNullAny(o) => n.mo = o.mo /\ n.strong = o.strong
  BY DEF MarkYoungGood, Remapped
<1>5. IsNullAny(o) => IsMarkGood(n, color)
  BY ColorNullIsGood DEF MarkYoungGood
<1> HIDE DEF n
<1>6. Improved(f, n)
  BY <1>3 DEF Improved
<1>7. Monotonic(f, n, color)
  BY <1>1, <1>3, <1>4, <1>5
     DEF Monotonic, IsMarkGood, IsMarkedOld, IsMarkedAnyOld, IsMarkedFinalizable
<1> QED BY <1>2, <1>6, <1>7, Heals DEF n

\* Healing with a compare and exchange: of a field to mark,
LEMMA FollowHeals ==
  ASSUME PageInv, NEW kind \in {"follow young", "follow old"}, NEW p, NEW o, NEW a,
         ~IsFast(kind, o)
  PROVE  Healing(SelfHeal(kind, p, o, HealWith(kind, a, o)))
<1> DEFINE n == HealWith(kind, a, o)
<1>1. \/ kind = "follow young" /\ IsStoreGood(n, color) /\ IsMarkGood(n, color)
      \/ kind = "follow old" /\ IsMarkGood(n, color)
  <2>0. color \in Colors
    BY DEF PageInv
  <2>1. CASE kind = "follow young"
    <3>1. n = StoreGood(a, color)
      BY <2>1, Heals
    <3> QED BY <2>0, <2>1, <3>1, StoreGoodIsGood
  <2>2. CASE kind = "follow old"
    <3>1. PICK b : n = MarkGood(b, o, color)
      BY <2>2, Heals
    <3> QED BY <2>0, <2>2, <3>1, ColoursAreGood
  <2> QED BY <2>1, <2>2
<1>2. ASSUME NEW f, ~IsFast(kind, f) PROVE Improved(f, n) /\ Monotonic(f, n, color)
  <2>1. ~IsStoreGood(f, color)
    BY <1>2, Fasts DEF IsStoreGood
  <2> QED BY <1>1, <2>1, MarksImprove DEF PageInv
<1> HIDE DEF n
<1>3. CASE SelfHeal(kind, p, o, n) = page
  BY <1>3, NothingHealed DEF n
<1>4. CASE SelfHeal(kind, p, o, n) # page
  <2>1. SelfHeal(kind, p, o, n) = [page EXCEPT ![p].field = n] /\ ~IsFast(kind, page[p].field)
    BY <1>4 DEF SelfHeal
  <2>2. Healing([page EXCEPT ![p].field = n])
    BY <1>2, <2>1, FieldHealed
  <2> QED BY <2>1, <2>2 DEF n
<1> QED BY <1>3, <1>4

\* of one to scan,
LEMMA ScanHeals ==
  ASSUME PageInv, NEW p, NEW o, NEW a, ~IsFast("scan", o),
         p \in Addr =>
           \/ page[p].field = o
           \/ IsFast("scan", page[p].field)
           \/ page[p].field.mo = o.mo /\ page[p].field.strong = o.strong
  PROVE  Healing(SelfHeal("scan", p, o, HealWith("scan", a, o)))
<1> DEFINE n == HealWith("scan", a, o)
<1>2. ASSUME NEW f, ~IsFast("scan", f), f = o \/ (f.mo = o.mo /\ f.strong = o.strong)
      PROVE  Improved(f, n) /\ Monotonic(f, n, color)
  BY <1>2, ScansImprove, Fasts DEF PageInv
<1> HIDE DEF n
<1>3. CASE SelfHeal("scan", p, o, n) = page
  BY <1>3, NothingHealed DEF n
<1>4. CASE SelfHeal("scan", p, o, n) # page
  <2>1. SelfHeal("scan", p, o, n) = [page EXCEPT ![p].field = n] /\ ~IsFast("scan", page[p].field)
    BY <1>4 DEF SelfHeal
  <2> QED BY <1>2, <2>1, FieldHealed DEF n
<1> QED BY <1>3, <1>4

\* and of one to remap.
LEMMA RemapHeals ==
  ASSUME PageInv, NEW kind \in {"remap", "promoted", "flipped"}, NEW p, NEW o, NEW a,
         ~IsLoadGood(o, color),
         p \in Addr => page[p].field = o \/ IsLoadGood(page[p].field, color)
  PROVE  Healing(SelfHeal(kind, p, o, LoadGood(a, o, color)))
<1> DEFINE n == LoadGood(a, o, color)
<1>2. Improved(o, n) /\ Monotonic(o, n, color)
  BY LoadsImprove DEF PageInv
<1> HIDE DEF n
<1>3. CASE SelfHeal(kind, p, o, n) = page
  BY <1>3, NothingHealed DEF n
<1>4. CASE SelfHeal(kind, p, o, n) # page
  <2>1. SelfHeal(kind, p, o, n) = [page EXCEPT ![p].field = n]
        /\ (page[p].field = o \/ ~IsFast(kind, page[p].field))
    BY <1>4 DEF SelfHeal
  <2>2. p \in Addr => page[p].field = o
    BY <2>1, Fasts DEF IsLoadGoodOrNull
  <2>3. Healing([page EXCEPT ![p].field = n])
    BY <1>2, <2>2, FieldHealed
  <2> QED BY <2>1, <2>3 DEF n
<1> QED BY <1>3, <1>4

-----------------------------------------------------------------------------
(* Steps that heal fields.                                                 *)

LEMMA LoadHeals ==
  ASSUME IInv, NEW x \in Slots, NEW y \in Slots, Load(x, y)
  PROVE  IInv' /\ Healing(page')
<1> DEFINE p == thread.local[y]
           n == LoadGood(MakeLoadGood(page[p].field), page[p].field, color)
<1>1. page' = page \/ (page' = [page EXCEPT ![p].field = n] /\ ~IsLoadGood(page[p].field, color))
  BY DEF Load, IsLoadGoodOrNull
<1>2. UNCHANGED <<color, young, old, remset, worker>>
  BY DEF Load
<1>3. PageInv
  BY DEF IInv
<1>4. ~IsLoadGood(page[p].field, color) =>
        Improved(page[p].field, n) /\ Monotonic(page[p].field, n, color)
  BY <1>3, LoadsImprove DEF PageInv
<1> HIDE DEF n, p
<1>5. Healing(page')
  BY <1>1, <1>3, <1>4, FieldHealed, NothingHealed
<1>6. Continues(young, young') /\ Continues(old, old') /\ RemsetGrows
  BY <1>2, GenerationRests, RemsetRests DEF IInv, YoungInv, OldInv
<1> QED BY <1>2, <1>5, <1>6, HealingStep

LEMMA StoreHeals ==
  ASSUME IInv, NEW x \in Slots, NEW a, Store(x, a)
  PROVE  IInv' /\ Healing(page')
<1> DEFINE p == thread.local[x]
           n == StoreGood(a, color)
<1>1. page' = [page EXCEPT ![p].field = n]
  BY DEF Store
<1>2. UNCHANGED <<color, worker>>
  BY DEF Store
<1>3. PageInv
  BY DEF IInv
<1>4. Improved(page[p].field, n) /\ Monotonic(page[p].field, n, color)
  BY <1>3, StoreGoodIsGood, MarksImprove DEF PageInv
<1>5. \/ UNCHANGED <<young, old, remset>>
      \/ /\ \E S : young' = MarkYoungIfActive(S)
         /\ \E S : old' = MarkOldIfActive(S)
         /\ UNCHANGED remset \/ \E q : remset' = Remember(q)
  BY DEF Store, NoSlowPath, AddToBuffer, MarkAndRemember, EntryRemset
<1> HIDE DEF n, p
<1>6. Healing(page')
  BY <1>1, <1>3, <1>4, FieldHealed
<1>7. Continues(young, young') /\ Continues(old, old') /\ RemsetGrows
  BY <1>5, GenerationRests, MarkingContinues, RemsetRests DEF IInv, YoungInv, OldInv
<1> QED BY <1>2, <1>6, <1>7, HealingStep

LEMMA WakeUpHeals ==
  ASSUME IInv, WakeUp
  PROVE  IInv' /\ Healing(page')
<1>1. UNCHANGED <<color, worker>>
  BY DEF WakeUp
<1>2. PageInv
  BY DEF IInv
<1>3. \/ page' = page
      \/ \E p, a : /\ ~IsFast("scan", page[p].field)
                   /\ page' = SelfHeal("scan", p, page[p].field,
                                       HealWith("scan", a, page[p].field))
  BY DEF WakeUp
<1>4. /\ \E S : young' = MarkYoungIfActive(S)
      /\ \E S : old' = MarkOldIfActive(S)
      /\ UNCHANGED remset \/ \E q : remset' = Remember(q)
  BY DEF WakeUp
<1>5. Healing(page')
  BY <1>2, <1>3, ScanHeals, NothingHealed
<1>6. Continues(young, young') /\ Continues(old, old') /\ RemsetGrows
  BY <1>4, MarkingContinues, RemsetRests DEF IInv, YoungInv, OldInv
<1> QED BY <1>1, <1>5, <1>6, HealingStep

\* What a worker's barrier heals.
LEMMA HealedHeals ==
  ASSUME IInv, NEW g \in {"young", "old"}, Healed(g), worker[g].kind # "none"
  PROVE  Healing(page')
<1> DEFINE w == worker[g]
<1>1. page' = page \/ (/\ ~IsFast(w.kind, w.o)
                       /\ page' = SelfHeal(w.kind, w.p, w.o,
                                           HealWith(w.kind, MakeLoadGood(w.o), w.o)))
  BY DEF Healed
<1>2. PageInv
  BY DEF IInv
<1>3. CASE w.kind \in {"follow young", "follow old"}
  BY <1>1, <1>2, <1>3, FollowHeals, NothingHealed
<1>4. CASE w.kind = "scan"
  <2>1. Scanning(w)
    BY <1>4 DEF IInv, WorkersInv
  <2>2. w.p \in Addr => \/ page[w.p].field = w.o
                        \/ IsFast("scan", page[w.p].field)
                        \/ page[w.p].field.mo = w.o.mo /\ page[w.p].field.strong = w.o.strong
    BY <2>1, Fasts DEF Scanning
  <2> QED BY <1>1, <1>2, <1>4, <2>2, ScanHeals, NothingHealed
<1>5. CASE w.kind \in {"remap", "promoted", "flipped"}
  <2>1. HasRead(w)
    BY <1>5 DEF IInv, WorkersInv
  <2>2. w.p \in Addr => page[w.p].field = w.o \/ IsLoadGood(page[w.p].field, color)
    BY <2>1 DEF HasRead
  <2>3. IsFast(w.kind, w.o) \/ ~IsLoadGood(w.o, color)
    BY <1>5, Fasts DEF IsLoadGoodOrNull
  <2>4. HealWith(w.kind, MakeLoadGood(w.o), w.o) = LoadGood(MakeLoadGood(w.o), w.o, color)
    BY <1>5, Heals
  <2> QED BY <1>1, <1>2, <1>5, <2>2, <2>3, <2>4, RemapHeals, NothingHealed
<1> QED BY <1>3, <1>4, <1>5 DEF IInv, WorkersInv

LEMMA WorkerHeals ==
  ASSUME IInv, YoungFollowed \/ Scanned \/ FlipRemembered \/ OldFollowed \/ RootsRemapped
  PROVE  IInv' /\ Healing(page')
<1>1. \/ \E g \in {"young", "old"} : Healed(g) /\ worker[g].kind # "none"
      \/ UNCHANGED page /\ worker' = [worker EXCEPT !.young = NoBarrier]
  BY DEF YoungFollowed, Scanned, FlipRemembered, OldFollowed, RootsRemapped
<1>2. color' = color /\ \E g \in {"young", "old"} : worker' = [worker EXCEPT ![g] = NoBarrier]
  BY <1>1 DEF Healed, YoungFollowed, Scanned, FlipRemembered, OldFollowed, RootsRemapped
<1>3. Healing(page')
  BY <1>1, HealedHeals, NothingHealed DEF IInv
<1>4. /\ UNCHANGED young \/ \E S : young' = MarkYoungIfActive(S)
      /\ UNCHANGED old \/ \E S : old' = MarkOldIfActive(S)
      /\ UNCHANGED remset \/ \E q : remset' = Remember(q)
  BY DEF YoungFollowed, Scanned, FlipRemembered, OldFollowed, RootsRemapped
<1>5. Continues(young, young') /\ Continues(old, old') /\ RemsetGrows
  BY <1>4, MarkingContinues, GenerationRests, RemsetRests DEF IInv, YoungInv, OldInv
<1> QED BY <1>2, <1>3, <1>5, HealingStep

-----------------------------------------------------------------------------
(* Steps that touch no page.                                               *)

\* What HealingIsMonotonic asks of a step.
KeepsQualities ==
  \A p \in Addr : page[p].obj = page'[p].obj =>
    Monotonic(page[p].field, page'[p].field, color)

LEMMA HealingIsKeeping ==
  ASSUME PageInv
  PROVE  (Healing(page') => KeepsQualities) /\ (UNCHANGED page => KeepsQualities)
  BY NothingHealed DEF Healing, KeepsQualities

LEMMA YoungReads ==
  ASSUME IInv, UNCHANGED <<color, page, old>>, Continues(young, young'), RemsetGrows,
         NEW w, worker' = [worker EXCEPT !.young = w],
         \/ w.kind \in {"none", "follow young"}
         \/ w.kind = "scan" /\ young.stage = "mark" /\ Scanning(w)
         \/ /\ w.kind \in {"promoted", "flipped"}
            /\ young.stage = "relocate" /\ IsNewOld(w.p) /\ HasRead(w)
  PROVE  IInv'
<1>1. Healing(page') /\ Continues(old, old')
  BY NothingHealed, GenerationRests DEF IInv, OldInv
<1>2. young'.stage = young.stage /\ old'.stage = old.stage
  BY Continued DEF IInv, YoungInv
<1>3. worker' = [young |-> w, old |-> worker.old]
  BY DEF IInv, WorkersInv
<1>4. WorkersInv'
  BY <1>1, <1>2, <1>3, HealingKeeps DEF IInv, WorkersInv
<1> QED BY <1>1, <1>4, HealingKeeps DEF IInv

LEMMA OldReads ==
  ASSUME IInv, UNCHANGED <<color, page, young, remset>>, Continues(old, old'),
         NEW w, worker' = [worker EXCEPT !.old = w],
         \/ w.kind \in {"none", "follow old"}
         \/ w.kind = "remap" /\ old.stage = "remap" /\ HasRead(w)
  PROVE  IInv'
<1>1. Healing(page') /\ Continues(young, young') /\ RemsetGrows
  BY NothingHealed, GenerationRests, RemsetRests DEF IInv, YoungInv
<1>2. young'.stage = young.stage /\ old'.stage = old.stage
  BY Continued DEF IInv, OldInv
<1>3. worker' = [young |-> worker.young, old |-> w]
  BY DEF IInv, WorkersInv
<1>4. WorkersInv'
  BY <1>1, <1>2, <1>3, HealingKeeps DEF IInv, WorkersInv
<1> QED BY <1>1, <1>4, HealingKeeps DEF IInv

LEMMA FollowYoungStep ==
  ASSUME IInv, NEW p \in Addr, FollowYoung(p)
  PROVE  IInv'
<1>1. Continues(young, young')
  BY DEF FollowYoung, IInv, YoungInv, IsGeneration, Continues
<1> DEFINE w == [kind |-> "follow young", p |-> p, o |-> page[p].field]
<1>2. worker' = [worker EXCEPT !.young = w] /\ w.kind = "follow young"
  BY DEF FollowYoung, Read
<1> HIDE DEF w
<1>3. RemsetGrows /\ UNCHANGED <<color, page, old>>
  BY RemsetRests DEF FollowYoung, IInv
<1> QED BY <1>1, <1>2, <1>3, YoungReads

LEMMA ScanStep ==
  ASSUME IInv, NEW q \in Addr, Scan(q)
  PROVE  IInv'
<1> DEFINE moves == IsPhaseRelocate(old) /\ Forwarding(old, q) /\ ~old.fwd[q].done
           p == IF moves THEN old.fwd[q].to ELSE q
<1>1. UNCHANGED <<color, page, young, old>> /\ q \in remset.previous /\ young.stage = "mark"
  BY DEF Scan
<1>2. RemsetGrows
  BY DEF Scan, IInv, RemsetInv, RemsetGrows
<1>3. Continues(young, young')
  BY <1>1, GenerationRests DEF IInv, YoungInv
<1>4. CASE ~moves /\ KnownDead(p)
  BY <1>1, <1>2, <1>3, <1>4, HealingStep, NothingHealed, GenerationRests
     DEF Scan, IInv, OldInv
<1>5. CASE ~(~moves /\ KnownDead(p))
  <2> DEFINE w == [kind |-> "scan", p |-> p, o |-> page[p].field]
  <2>1. worker' = [worker EXCEPT !.young = w]
    BY <1>5 DEF Scan, Read
  <2>0. w.p = p /\ w.o = page[p].field /\ w.kind = "scan"
    OBVIOUS
  <2> HIDE DEF w
  <2>2. IsOld(q)
    BY <1>1 DEF IInv, RemsetInv
  <2>3. ASSUME moves PROVE Scanning(w)
    <3>1. p = old.fwd[q].to /\ q \in DOMAIN old.fwd /\ ~old.fwd[q].done
      BY <2>3 DEF Forwarding
    <3>2. IsNewOld(p)
      BY <3>1 DEF IInv, OldInv
    <3>3. p \in Addr /\ p \in DOMAIN old.fwd => old.fwd[p].done
      BY <3>2 DEF IInv, OldInv, IsNewOld
    <3> HIDE DEF p
    <3> QED BY <2>0, <3>2, <3>3 DEF Scanning, IsNewOld, Forwarding
  <2>4. ASSUME ~moves PROVE Scanning(w)
    <3>1. p = q /\ ~KnownDead(q)
      BY <1>5, <2>4
    <3>2. page[q].allocating \/ IsPhaseMark(old) \/ q \in old.marked
      BY <3>1 DEF KnownDead
    <3>3. old.stage = "relocate" /\ Forwarding(old, q) => old.fwd[q].done
      BY <2>4 DEF IsPhaseRelocate
    <3> HIDE DEF p
    <3> QED BY <2>0, <2>2, <3>1, <3>2, <3>3 DEF Scanning
  <2>5. Scanning(w) /\ w.kind = "scan"
    BY <2>0, <2>3, <2>4
  <2> QED BY <1>1, <1>2, <1>3, <2>1, <2>5, YoungReads
<1> QED BY <1>4, <1>5

LEMMA FlipPromotedStep ==
  ASSUME IInv, NEW p \in Addr, FlipPromoted(p)
  PROVE  IInv'
<1> DEFINE w == [kind |-> "flipped", p |-> p, o |-> page[p].field]
<1>1. Continues(young, young')
  BY DEF FlipPromoted, IInv, YoungInv, IsGeneration, Continues
<1>2. worker' = [worker EXCEPT !.young = w] /\ young.stage = "relocate"
  BY DEF FlipPromoted, Read
<1>3. RemsetGrows /\ UNCHANGED <<color, page, old>>
  BY RemsetRests DEF FlipPromoted, IInv
<1>4. IsNewOld(w.p) /\ HasRead(w) /\ w.kind = "flipped"
  BY DEF FlipPromoted, IInv, YoungInv, IsNewOld, HasRead
<1> HIDE DEF w
<1> QED BY <1>1, <1>2, <1>3, <1>4, YoungReads

\* A promoted object's field is looked at.
LEMMA FinishPromotedStep ==
  ASSUME IInv, NEW a \in Addr, FinishYoung(a), young.fwd[a].age = "old"
  PROVE  IInv' /\ UNCHANGED page
<1> DEFINE w == [kind |-> "promoted", p |-> young.fwd[a].to, o |-> page[young.fwd[a].to].field]
<1>1. worker' = [worker EXCEPT !.young = w] /\ young.stage = "relocate"
  BY DEF FinishYoung, Read
<1>2. RemsetGrows /\ UNCHANGED <<color, page, young, old>>
  BY RemsetRests DEF FinishYoung, IInv
<1>3. Continues(young, young')
  BY <1>2, GenerationRests DEF IInv, YoungInv
<1>4. IsNewOld(young.fwd[a].to)
  BY DEF FinishYoung, Relocated, Forwarding, IInv, YoungInv
<1>5. IsNewOld(w.p) /\ HasRead(w) /\ w.kind = "promoted"
  BY <1>4 DEF IsNewOld, HasRead
<1> HIDE DEF w
<1> QED BY <1>1, <1>2, <1>3, <1>5, YoungReads

LEMMA FollowOldStep ==
  ASSUME IInv, NEW p \in Addr, FollowOld(p)
  PROVE  IInv'
<1>1. Continues(old, old')
  BY DEF FollowOld, IInv, OldInv, IsGeneration, Continues
<1> DEFINE w == [kind |-> "follow old", p |-> p, o |-> page[p].field]
<1>2. worker' = [worker EXCEPT !.old = w] /\ w.kind = "follow old"
  BY DEF FollowOld, Read
<1> HIDE DEF w
<1> QED BY <1>1, <1>2, OldReads DEF FollowOld

LEMMA RemapRootsStep ==
  ASSUME IInv, NEW p \in Addr, RemapRoots(p)
  PROVE  IInv'
<1>1. Continues(old, old')
  BY DEF RemapRoots, IInv, OldInv, IsGeneration, Continues
<1>2. UNCHANGED <<color, page, young, remset>> /\ old.stage = "remap"
  BY DEF RemapRoots
<1>3. CASE p \in remset.current
  <2> DEFINE w == [kind |-> "remap", p |-> p, o |-> page[p].field]
  <2>1. worker' = [worker EXCEPT !.old = w]
    BY <1>3 DEF RemapRoots, Read
  <2>2. HasRead(w) /\ w.kind = "remap"
    BY <1>3 DEF HasRead, IInv, RemsetInv
  <2> HIDE DEF w
  <2> QED BY <1>1, <1>2, <2>1, <2>2, OldReads
<1>4. CASE p \notin remset.current
  <2>1. worker' = [worker EXCEPT !.old = worker.old] /\ worker.old.kind = "none"
    <3>1. worker' = worker /\ worker.old = NoBarrier
      BY <1>4 DEF RemapRoots
    <3>2. worker = [young |-> worker.young, old |-> worker.old]
      BY DEF IInv, WorkersInv
    <3>3. [worker EXCEPT !.old = worker.old] = worker
      BY <3>2
    <3> QED BY <3>1, <3>3 DEF NoBarrier
  <2> QED BY <1>1, <1>2, <2>1, OldReads
<1> QED BY <1>3, <1>4

\* The handshakes that end marking.
LEMMA TerminateStep ==
  ASSUME IInv, YoungTerminate \/ OldTerminate
  PROVE  IInv' /\ UNCHANGED page
<1>1. UNCHANGED <<color, page, worker>> /\ (UNCHANGED remset \/ \E q : remset' = Remember(q))
  BY DEF YoungTerminate, OldTerminate, TerminateFlush, EntryRemset
<1>2. ASSUME NEW g, NEW h, NEW b, IsGeneration(g), Continues(g, h)
      PROVE  Continues(g, [h EXCEPT !.flushed = b])
  BY <1>2, Continued DEF Continues, IsGeneration
<1>3. Continues(young, young') /\ Continues(old, old')
  BY <1>2, MarkingContinues DEF YoungTerminate, OldTerminate, IInv, YoungInv, OldInv
<1>4. Healing(page') /\ RemsetGrows
  BY <1>1, NothingHealed, RemsetRests DEF IInv
<1> QED BY <1>1, <1>3, <1>4, HealingStep

-----------------------------------------------------------------------------
(* Phases.                                                                 *)

LEMMA Flips ==
  ASSUME NEW c \in Colors
  PROVE  /\ FlipYoungMarkStart(c) \in Colors /\ FlipOldMarkStart(c) \in Colors
         /\ FlipYoungRelocateStart(c) \in Colors /\ FlipOldRelocateStart(c) \in Colors
<1>1. c = [ry |-> c.ry, ro |-> c.ro, my |-> c.my, mo |-> c.mo, rem |-> c.rem]
      /\ c.ry \in Bit /\ c.ro \in Bit /\ c.my \in Bit /\ c.mo \in Bit /\ c.rem \in Bit
  BY DEF Colors
<1>2. \A i \in Bit : 1 - i \in Bit
  BY DEF Bit
<1> QED BY <1>1, <1>2
        DEF FlipYoungMarkStart, FlipOldMarkStart, FlipYoungRelocateStart, FlipOldRelocateStart,
            Colors

\* A generation enters a phase, or forgets its forwarding table.
LEMMA Generations ==
  ASSUME NEW g, IsGeneration(g), NEW h,
         h = [stage |-> h.stage, major |-> h.major, marked |-> h.marked, todo |-> h.todo,
              flushed |-> h.flushed, flipped |-> h.flipped, fwd |-> h.fwd],
         h.fwd = g.fwd \/ h.fwd = IdleGeneration.fwd
  PROVE  IsGeneration(h)
<1>1. IdleGeneration.fwd = [a \in {} |-> NoAddr]
  BY DEF IdleGeneration
<1>2. CASE h.fwd = g.fwd
  BY <1>2 DEF IsGeneration
<1>3. CASE h.fwd = [a \in {} |-> NoAddr]
  <2>1. DOMAIN h.fwd = {}
    BY <1>3
  <2>2. h.fwd = [a \in DOMAIN h.fwd |->
                  [to |-> h.fwd[a].to, age |-> h.fwd[a].age, done |-> h.fwd[a].done]]
    BY <1>3, <2>1
  <2>3. EntriesOK(h.fwd)
    BY <2>1 DEF EntriesOK
  <2> QED BY <2>1, <2>2, <2>3 DEF IsGeneration
<1> QED BY <1>1, <1>2, <1>3

LEMMA QuietWorkers ==
  ASSUME IInv, Quiet, UNCHANGED worker
  PROVE  WorkersInv'
<1>1. worker.young.kind = "none" /\ worker.old.kind = "none"
  BY DEF Quiet, NoBarrier
<1> QED BY <1>1 DEF IInv, WorkersInv

LEMMA MarkStartStep ==
  ASSUME IInv, NEW major \in BOOLEAN, YoungMarkStart(major)
  PROVE  IInv' /\ KeepsQualities
<1>1. /\ young.stage = "idle" /\ old.stage # "remap" /\ Quiet /\ UNCHANGED worker
      /\ major => old.stage = "idle"
      /\ young' = [young EXCEPT !.stage = "mark", !.major = major, !.marked = {}]
      /\ old' = IF major THEN [old EXCEPT !.stage = "snapshot", !.marked = {}] ELSE old
      /\ remset' = [current |-> remset.previous, previous |-> remset.current]
  BY DEF YoungMarkStart
<1>2. color' \in Colors
  BY Flips DEF YoungMarkStart, IInv, PageInv
<1>3. ASSUME NEW a \in Addr
      PROVE  /\ page'[a] = [age |-> page[a].age, allocating |-> page'[a].allocating,
                            obj |-> page[a].obj, field |-> page[a].field]
             /\ page'[a].allocating \in BOOLEAN
             /\ ~page[a].allocating => ~page'[a].allocating
             /\ IsOld(a) /\ ~major => page'[a] = page[a]
  <2>1. page[a] = [age |-> page[a].age, allocating |-> page[a].allocating,
                   obj |-> page[a].obj, field |-> page[a].field]
        /\ page[a].allocating \in BOOLEAN
    BY DEF IInv, PageInv
  <2>2. page'[a] = IF IsYoung(a) \/ (major /\ IsOld(a))
                   THEN [page[a] EXCEPT !.allocating = FALSE] ELSE page[a]
    BY DEF YoungMarkStart
  <2> QED BY <2>1, <2>2 DEF IsYoung, IsOld
<1>4. PageInv'
  <2>1. page' = [a \in Addr |-> page'[a]]
    BY DEF YoungMarkStart
  <2> QED BY <1>2, <1>3, <2>1 DEF IInv, PageInv
<1>5. \A a \in Addr : /\ page'[a].age = page[a].age /\ page'[a].obj = page[a].obj
                      /\ page'[a].field = page[a].field
  <2>1. ASSUME NEW a \in Addr, NEW b,
               page'[a] = [age |-> page[a].age, allocating |-> b, obj |-> page[a].obj,
                           field |-> page[a].field]
        PROVE  /\ page'[a].age = page[a].age /\ page'[a].obj = page[a].obj
               /\ page'[a].field = page[a].field
    BY <2>1
  <2> QED BY <1>3, <2>1
<1>51. \A a \in Addr : (IsYoung(a)' <=> IsYoung(a)) /\ (IsOld(a)' <=> IsOld(a))
  BY <1>5 DEF IsYoung, IsOld
<1>6. YoungInv'
  <2>1. /\ young = [stage |-> young.stage, major |-> young.major, marked |-> young.marked,
                    todo |-> young.todo, flushed |-> young.flushed, flipped |-> young.flipped,
                    fwd |-> young.fwd]
        /\ IsGeneration(young)
        /\ young.flipped = {} /\ \A a \in DOMAIN young.fwd : young.fwd[a].done
    BY <1>1 DEF IInv, YoungInv, IsGeneration
  <2>2. young' = [stage |-> "mark", major |-> major, marked |-> {}, todo |-> young.todo,
                  flushed |-> young.flushed, flipped |-> young.flipped, fwd |-> young.fwd]
    BY <1>1, <2>1
  <2>3. young'.fwd = young.fwd /\ young'.flipped = young.flipped
        /\ young' = [stage |-> young'.stage, major |-> young'.major, marked |-> young'.marked,
                     todo |-> young'.todo, flushed |-> young'.flushed,
                     flipped |-> young'.flipped, fwd |-> young'.fwd]
    BY <2>2
  <2>4. IsGeneration(young')
    BY <2>1, <2>3, Generations
  <2> QED BY <2>1, <2>3, <2>4 DEF YoungInv
<1>7. OldInv'
  <2>1. CASE major
    <3>1. /\ old = [stage |-> old.stage, major |-> old.major, marked |-> old.marked,
                    todo |-> old.todo, flushed |-> old.flushed, flipped |-> old.flipped,
                    fwd |-> old.fwd]
          /\ IsGeneration(old) /\ \A a \in DOMAIN old.fwd : old.fwd[a].done
      BY <1>1, <2>1 DEF IInv, OldInv, IsGeneration
    <3>2. old' = [stage |-> "snapshot", major |-> old.major, marked |-> {}, todo |-> old.todo,
                  flushed |-> old.flushed, flipped |-> old.flipped, fwd |-> old.fwd]
      BY <1>1, <2>1, <3>1
    <3>3. old'.fwd = old.fwd /\ old'.stage = "snapshot"
          /\ old' = [stage |-> old'.stage, major |-> old'.major, marked |-> old'.marked,
                     todo |-> old'.todo, flushed |-> old'.flushed,
                     flipped |-> old'.flipped, fwd |-> old'.fwd]
      BY <3>2
    <3>4. IsGeneration(old')
      BY <3>1, <3>3, Generations
    <3> QED BY <3>1, <3>3, <3>4 DEF OldInv
  <2>2. CASE ~major
    <3>1. old' = old
      BY <1>1, <2>2
    <3>2. \A a : IsNewOld(a) => IsNewOld(a)'
      BY <1>3, <1>51, <2>2 DEF IsNewOld
    <3>3. \A a \in DOMAIN old.fwd : a \in Addr
      BY DEF IInv, OldInv, IsGeneration
    <3>4. IsGeneration(old') /\ old'.stage # "remap"
      BY <1>1, <3>1 DEF IInv, OldInv
    <3> QED BY <1>3, <1>51, <3>1, <3>2, <3>3, <3>4 DEF IInv, OldInv
  <2> QED BY <2>1, <2>2
<1>8. RemsetInv'
  BY <1>1, <1>51 DEF IInv, RemsetInv
<1>9. WorkersInv'
  BY <1>1, QuietWorkers
<1>10. KeepsQualities
  <2>1. \A o : Monotonic(o, o, color)
    BY DEF Monotonic, IsMarkedFinalizable
  <2> QED BY <1>5, <2>1 DEF KeepsQualities
<1> QED BY <1>4, <1>6, <1>7, <1>8, <1>9, <1>10 DEF IInv

\* The other changes of phase of a young collection,
LEMMA YoungPhaseStep ==
  ASSUME IInv, YoungMarkEnd \/ YoungReset \/ YoungRelocateStart \/ YoungEnd
  PROVE  IInv' /\ UNCHANGED page
<1>1. UNCHANGED <<page, old, remset, worker>>
  BY DEF YoungMarkEnd, YoungReset, YoungRelocateStart, YoungEnd
<1>2. /\ IsGeneration(young') /\ young'.flipped = young.flipped
      /\ young'.fwd = young.fwd \/ DOMAIN young'.fwd = {}
  <2>1. /\ young = [stage |-> young.stage, major |-> young.major, marked |-> young.marked,
                    todo |-> young.todo, flushed |-> young.flushed, flipped |-> young.flipped,
                    fwd |-> young.fwd]
        /\ IsGeneration(young)
    BY DEF IInv, YoungInv, IsGeneration
  <2>2. \E stage, flushed, fwd :
          /\ young' = [stage |-> stage, major |-> young.major, marked |-> young.marked,
                       todo |-> young.todo, flushed |-> flushed, flipped |-> young.flipped,
                       fwd |-> fwd]
          /\ fwd = young.fwd \/ fwd = IdleGeneration.fwd
    <3>1. CASE YoungMarkEnd
      <4>1. \/ young' = [young EXCEPT !.stage = "complete", !.flushed = FALSE]
            \/ young' = [young EXCEPT !.flushed = FALSE]
        BY <3>1 DEF YoungMarkEnd, MarkEnd
      <4> QED BY <2>1, <4>1
    <3>2. CASE YoungReset
      BY <2>1, <3>2 DEF YoungReset
    <3>3. CASE YoungRelocateStart
      BY <2>1, <3>3 DEF YoungRelocateStart
    <3>4. CASE YoungEnd
      BY <2>1, <3>4 DEF YoungEnd
    <3> QED BY <3>1, <3>2, <3>3, <3>4
  <2>3. /\ young' = [stage |-> young'.stage, major |-> young'.major, marked |-> young'.marked,
                     todo |-> young'.todo, flushed |-> young'.flushed,
                     flipped |-> young'.flipped, fwd |-> young'.fwd]
        /\ young'.flipped = young.flipped
        /\ young'.fwd = young.fwd \/ young'.fwd = IdleGeneration.fwd
    BY <2>2
  <2>4. DOMAIN IdleGeneration.fwd = {}
    BY DEF IdleGeneration
  <2> QED BY <2>1, <2>3, <2>4, Generations
<1>3. \/ /\ young.stage \notin {"selected", "relocate"} /\ young.stage # "idle"
         /\ young'.stage # "relocate" /\ color' = color
         /\ young'.stage = "mark" \/ worker.young.kind # "scan"
      \/ young.stage = "selected" /\ young'.stage = "relocate" /\ Quiet /\ color' \in Colors
      \/ /\ young.stage = "relocate" /\ young'.stage = "idle" /\ young'.fwd = young.fwd
         /\ AllDone(young) /\ young.flipped = {} /\ worker.young = NoBarrier /\ color' = color
  <2>1. CASE YoungMarkEnd
    BY <2>1 DEF YoungMarkEnd, MarkEnd, Quiet, NoBarrier, IInv, YoungInv, IsGeneration
  <2>2. CASE YoungReset
    BY <2>2 DEF YoungReset, IInv, YoungInv, WorkersInv, IsGeneration
  <2>3. CASE YoungRelocateStart
    BY <2>3 DEF YoungRelocateStart, FlipYoungRelocateStart, Colors, Bit, IInv, PageInv,
                YoungInv, IsGeneration
  <2>4. CASE YoungEnd
    BY <2>4 DEF YoungEnd, IInv, YoungInv, IsGeneration
  <2> QED BY <2>1, <2>2, <2>3, <2>4
<1>4. PageInv'
  BY <1>1, <1>3 DEF IInv, PageInv
<1>5. YoungInv'
  <2>1. \A a : IsNewOld(a) => IsNewOld(a)'
    BY <1>1 DEF IsNewOld, IsOld
  <2> QED BY <1>1, <1>2, <1>3, <2>1 DEF IInv, YoungInv, IsYoung, AllDone
<1>6. OldInv'
  BY <1>1, <1>3 DEF IInv, OldInv, IsNewOld, IsOld
<1>7. RemsetInv'
  BY <1>1 DEF IInv, RemsetInv, IsOld
<1>8. WorkersInv'
  <2>1. CASE Quiet
    BY <1>1, <2>1, QuietWorkers
  <2>2. CASE ~Quiet
    <3>1. color' = color
      BY <1>3, <2>2
    <3>2. \A w : (Scanning(w) => Scanning(w)') /\ (HasRead(w) => HasRead(w)')
                 /\ (IsNewOld(w.p) => IsNewOld(w.p)')
      BY <1>1, <3>1 DEF Scanning, HasRead, IsNewOld, IsOld
    <3>3. NoBarrier.kind = "none"
      BY DEF NoBarrier
    <3>4. /\ worker'.young = worker.young /\ worker'.old = worker.old
          /\ worker' = [young |-> worker'.young, old |-> worker'.old]
          /\ worker'.young.kind \in {"none", "follow young", "scan", "promoted", "flipped"}
          /\ worker'.old.kind \in {"none", "follow old", "remap"}
      BY <1>1 DEF IInv, WorkersInv
    <3>5. worker.young.kind = "scan" => young'.stage = "mark" /\ Scanning(worker.young)'
      <4> SUFFICES ASSUME worker.young.kind = "scan"
                   PROVE  young'.stage = "mark" /\ Scanning(worker.young)'
        OBVIOUS
      <4>1. young.stage = "mark" /\ Scanning(worker.young)
        BY DEF IInv, WorkersInv
      <4> QED BY <1>3, <4>1, <3>2, <3>4
    <3>6. worker.young.kind \in {"promoted", "flipped"} =>
            young'.stage = "relocate" /\ IsNewOld(worker.young.p)' /\ HasRead(worker.young)'
      <4> SUFFICES ASSUME worker.young.kind \in {"promoted", "flipped"}
                   PROVE  young'.stage = "relocate" /\ IsNewOld(worker.young.p)'
                          /\ HasRead(worker.young)'
        OBVIOUS
      <4>1. young.stage = "relocate" /\ IsNewOld(worker.young.p) /\ HasRead(worker.young)
        BY DEF IInv, WorkersInv
      <4>2. worker.young # NoBarrier
        BY <3>3
      <4> QED BY <1>3, <4>1, <4>2, <2>2, <3>2
    <3>7. worker.old.kind = "remap" => old'.stage = "remap" /\ HasRead(worker.old)'
      BY <1>1, <3>2 DEF IInv, WorkersInv
    <3> QED BY <3>4, <3>5, <3>6, <3>7 DEF WorkersInv
  <2> QED BY <2>1, <2>2
<1> QED BY <1>1, <1>4, <1>5, <1>6, <1>7, <1>8 DEF IInv

\* and of an old one.
LEMMA OldPhaseStep ==
  ASSUME IInv, OldMark \/ OldMarkEnd \/ OldRemapStart \/ OldRelocateStart \/ OldEnd
  PROVE  IInv' /\ UNCHANGED page
<1>1. UNCHANGED <<page, young, remset, worker>>
  BY DEF OldMark, OldMarkEnd, OldRemapStart, OldRelocateStart, OldEnd
<1>2. /\ IsGeneration(old') /\ old'.fwd = old.fwd /\ old'.marked = old.marked
  <2>1. /\ old = [stage |-> old.stage, major |-> old.major, marked |-> old.marked,
                  todo |-> old.todo, flushed |-> old.flushed, flipped |-> old.flipped,
                  fwd |-> old.fwd]
        /\ IsGeneration(old)
    BY DEF IInv, OldInv, IsGeneration
  <2>2. \E stage, flushed, todo :
          old' = [stage |-> stage, major |-> old.major, marked |-> old.marked, todo |-> todo,
                  flushed |-> flushed, flipped |-> old.flipped, fwd |-> old.fwd]
    <3>1. CASE OldMark
      BY <2>1, <3>1 DEF OldMark
    <3>2. CASE OldMarkEnd
      <4>1. \/ old' = [old EXCEPT !.stage = "complete", !.flushed = FALSE]
            \/ old' = [old EXCEPT !.flushed = FALSE]
        BY <3>2 DEF OldMarkEnd, MarkEnd
      <4> QED BY <2>1, <4>1
    <3>3. CASE OldRemapStart
      BY <2>1, <3>3 DEF OldRemapStart
    <3>4. CASE OldRelocateStart
      BY <2>1, <3>4 DEF OldRelocateStart
    <3>5. CASE OldEnd
      BY <2>1, <3>5 DEF OldEnd
    <3> QED BY <3>1, <3>2, <3>3, <3>4, <3>5
  <2>3. /\ old' = [stage |-> old'.stage, major |-> old'.major, marked |-> old'.marked,
                   todo |-> old'.todo, flushed |-> old'.flushed,
                   flipped |-> old'.flipped, fwd |-> old'.fwd]
        /\ old'.fwd = old.fwd /\ old'.marked = old.marked
    BY <2>2
  <2> QED BY <2>1, <2>3, Generations
<1>3. \/ old.stage = "snapshot" /\ old'.stage = "mark" /\ color' = color
      \/ old.stage = "mark" /\ old'.stage \in {"mark", "complete"} /\ Quiet /\ color' = color
      \/ old.stage = "selected" /\ old'.stage = "remap" /\ young.stage = "idle" /\ color' = color
      \/ old.stage = "remap" /\ old'.stage = "relocate" /\ Quiet /\ color' \in Colors
      \/ old.stage = "relocate" /\ old'.stage = "idle" /\ AllDone(old) /\ color' = color
  <2>1. CASE OldMark
    BY <2>1 DEF OldMark, IInv, OldInv, IsGeneration
  <2>2. CASE OldMarkEnd
    BY <2>2 DEF OldMarkEnd, MarkEnd, IInv, OldInv, IsGeneration
  <2>3. CASE OldRemapStart
    BY <2>3 DEF OldRemapStart, IInv, OldInv, IsGeneration
  <2>4. CASE OldRelocateStart
    BY <2>4 DEF OldRelocateStart, FlipOldRelocateStart, Colors, Bit, IInv, PageInv, OldInv,
                IsGeneration
  <2>5. CASE OldEnd
    BY <2>5 DEF OldEnd, IInv, OldInv, IsGeneration
  <2> QED BY <2>1, <2>2, <2>3, <2>4, <2>5
<1>4. PageInv'
  BY <1>1, <1>3 DEF IInv, PageInv
<1>5. YoungInv'
  BY <1>1 DEF IInv, YoungInv, IsNewOld, IsOld, IsYoung
<1>6. OldInv'
  <2>1. \A a : IsNewOld(a) => IsNewOld(a)'
    BY <1>1 DEF IsNewOld, IsOld
  <2> QED BY <1>1, <1>2, <1>3, <2>1 DEF IInv, OldInv, IsOld, AllDone
<1>7. RemsetInv'
  BY <1>1 DEF IInv, RemsetInv, IsOld
<1>8. WorkersInv'
  <2>1. CASE Quiet
    BY <1>1, <2>1, QuietWorkers
  <2>2. CASE ~Quiet
    <3>1. color' = color
      BY <1>3, <2>2
    <3>2. \A w : (HasRead(w) => HasRead(w)') /\ (IsNewOld(w.p) => IsNewOld(w.p)')
      BY <1>1, <3>1 DEF HasRead, IsNewOld, IsOld
    <3>3. young.stage = "mark" => \A w : Scanning(w) => Scanning(w)'
      BY <1>1, <1>2, <1>3, <2>2, <3>1 DEF Scanning, IsOld, IsPhaseMark
    <3> QED BY <1>1, <1>3, <2>2, <3>2, <3>3 DEF IInv, WorkersInv
  <2> QED BY <2>1, <2>2
<1> QED BY <1>1, <1>4, <1>5, <1>6, <1>7, <1>8 DEF IInv

-----------------------------------------------------------------------------
(* Steps that put a page somewhere or free one.                            *)

\* The pages outside F are as they were, but for fields that have been healed,
\* and no current collection relies on those in F.
Kept(F) ==
  /\ color' = color
  /\ \A a \in Addr \ F : /\ page'[a].age = page[a].age
                         /\ page'[a].allocating = page[a].allocating
                         /\ Improved(page[a].field, page'[a].field)
  /\ \A a \in F \cap Addr : ~(IsOld(a) /\ page[a].allocating)

LEMMA PagesKept ==
  ASSUME NEW F, Kept(F)
  PROVE  /\ \A a : IsNewOld(a) => IsNewOld(a)' /\ a \notin F \cap Addr
         /\ \A a \in Addr \ F : (IsYoung(a)' <=> IsYoung(a)) /\ (IsOld(a)' <=> IsOld(a))
         /\ \A w : HasRead(w) /\ w.p \notin F => HasRead(w)'
<1>1. \A a : IsNewOld(a) => IsNewOld(a)' /\ a \notin F \cap Addr
  BY DEF Kept, IsNewOld, IsOld
<1>2. \A a \in Addr \ F : (IsYoung(a)' <=> IsYoung(a)) /\ (IsOld(a)' <=> IsOld(a))
  BY DEF Kept, IsYoung, IsOld
<1>3. ASSUME NEW w, HasRead(w), w.p \notin F PROVE HasRead(w)'
  BY <1>2, <1>3 DEF HasRead, Kept, Improved
<1> QED BY <1>1, <1>2, <1>3

LEMMA YoungKept ==
  ASSUME IInv, NEW F, Kept(F), UNCHANGED young, \A a \in F \cap Addr : ~IsYoung(a)
  PROVE  YoungInv'
<1>1. IsGeneration(young) /\ DOMAIN young.fwd \subseteq Addr
  BY DEF IInv, YoungInv, IsGeneration
<1>2. ASSUME NEW a \in DOMAIN young.fwd, ~young.fwd[a].done
      PROVE  /\ young.stage \in {"selected", "relocate"}
             /\ IsYoung(a)' /\ ~page'[a].allocating
             /\ young.fwd[a].age = "old" => IsNewOld(young.fwd[a].to)'
  <2>1. /\ young.stage \in {"selected", "relocate"}
        /\ IsYoung(a) /\ ~page[a].allocating
        /\ young.fwd[a].age = "old" => IsNewOld(young.fwd[a].to)
    BY <1>2 DEF IInv, YoungInv
  <2>2. a \in Addr \ F
    BY <1>1, <2>1
  <2>3. page'[a].allocating = page[a].allocating
    BY <2>2 DEF Kept
  <2> QED BY <2>1, <2>2, <2>3, PagesKept
<1>3. \A p \in young.flipped : young.stage \in {"selected", "relocate"} /\ IsNewOld(p)'
  BY PagesKept DEF IInv, YoungInv
<1> QED BY <1>1, <1>2, <1>3 DEF YoungInv

LEMMA OldKept ==
  ASSUME IInv, NEW F, Kept(F), UNCHANGED old, old.stage = "remap" => young'.stage = "idle",
         \A a \in F \cap Addr : ~IsOld(a)
  PROVE  OldInv'
<1>1. IsGeneration(old) /\ DOMAIN old.fwd \subseteq Addr
  BY DEF IInv, OldInv, IsGeneration
<1>2. ASSUME NEW a \in DOMAIN old.fwd, ~old.fwd[a].done
      PROVE  /\ old.stage \in {"selected", "remap", "relocate"}
             /\ IsOld(a)' /\ ~page'[a].allocating
             /\ old.fwd[a].age = "old" /\ IsNewOld(old.fwd[a].to)'
  <2>1. /\ old.stage \in {"selected", "remap", "relocate"}
        /\ IsOld(a) /\ ~page[a].allocating
        /\ old.fwd[a].age = "old" /\ IsNewOld(old.fwd[a].to)
    BY <1>2 DEF IInv, OldInv
  <2>2. a \in Addr \ F
    BY <1>1, <2>1
  <2>3. page'[a].allocating = page[a].allocating
    BY <2>2 DEF Kept
  <2> QED BY <2>1, <2>2, <2>3, PagesKept
<1> QED BY <1>1, <1>2 DEF OldInv

\* The workers' fields are where they were.
LEMMA WorkersKept ==
  ASSUME IInv, NEW F, Kept(F), UNCHANGED worker,
         young'.stage = young.stage,
         old'.stage = old.stage \/ (old.stage = "complete" /\ old'.stage = "selected"),
         old.marked \subseteq old'.marked,
         old.stage = "remap" => \A a \in F \cap Addr : ~IsOld(a),
         \A w : Scanning(w) => w.p \notin F \cap Addr,
         \A p \in Addr : (old.stage = "relocate" /\ Forwarding(old, p) => old.fwd[p].done)
                           => (old'.stage = "relocate" /\ Forwarding(old', p) => old'.fwd[p].done)
  PROVE  WorkersInv'
<1>1. ASSUME NEW w, Scanning(w), IsPhaseMark(old) => IsPhaseMark(old)' PROVE Scanning(w)'
  <2> SUFFICES ASSUME w.p \in Addr PROVE Scanning(w)'
    BY DEF Scanning
  <2>1. w.p \in Addr \ F
    BY <1>1
  <2>2. IsOld(w.p)'
    BY <1>1, <2>1, PagesKept DEF Scanning
  <2>3. /\ color' = color /\ page'[w.p].allocating = page[w.p].allocating
        /\ Improved(page[w.p].field, page'[w.p].field)
    BY <2>1 DEF Kept
  <2> QED BY <1>1, <2>1, <2>2, <2>3, ScansGoOn
<1>2. IsPhaseMark(old) => IsPhaseMark(old)'
  BY DEF IsPhaseMark
<1>3. ASSUME NEW w, HasRead(w), old.stage = "remap" \/ IsNewOld(w.p) PROVE HasRead(w)'
  <2>1. w.p \notin F \cap Addr
    BY <1>3, PagesKept DEF HasRead
  <2> QED BY <1>3, <2>1, PagesKept DEF HasRead
<1>4. \A a : IsNewOld(a) => IsNewOld(a)'
  BY PagesKept
<1>5. worker.young.kind = "scan" => young'.stage = "mark" /\ Scanning(worker.young)'
  BY <1>1, <1>2 DEF IInv, WorkersInv
<1>6. worker.young.kind \in {"promoted", "flipped"} =>
        young'.stage = "relocate" /\ IsNewOld(worker.young.p)' /\ HasRead(worker.young)'
  BY <1>3, <1>4 DEF IInv, WorkersInv
<1>7. worker.old.kind = "remap" => old'.stage = "remap" /\ HasRead(worker.old)'
  <2> SUFFICES ASSUME worker.old.kind = "remap"
               PROVE  old'.stage = "remap" /\ HasRead(worker.old)'
    OBVIOUS
  <2>1. old.stage = "remap" /\ HasRead(worker.old)
    BY DEF IInv, WorkersInv
  <2> QED BY <1>3, <2>1
<1> QED BY <1>5, <1>6, <1>7 DEF IInv, WorkersInv

\* A new page.
LEMMA NewPage ==
  ASSUME PageInv, NEW b \in Free, NEW age \in {"young", "old"}, NEW o, o # NoObject, NEW f,
         color' = color, page' = Allocated(b, age, o, f)
  PROVE  /\ PageInv' /\ KeepsQualities /\ Kept({b})
         /\ page'[b].age = age /\ page'[b].allocating
         /\ ~IsYoung(b) /\ ~IsOld(b)
<1> DEFINE r == [age |-> age, allocating |-> TRUE, obj |-> o, field |-> f]
<1>1. r = [age |-> r.age, allocating |-> r.allocating, obj |-> r.obj, field |-> r.field]
      /\ r.age = age /\ r.allocating = TRUE /\ r.obj = o
  OBVIOUS
<1>2. page' = [a \in Addr |-> IF a = b THEN r ELSE page[a]]
  BY DEF Allocated, PageInv
<1> HIDE DEF r
<1>3. b \in Addr /\ page[b].age = "free" /\ page[b].obj = NoObject
  BY DEF Free, PageInv
<1>4. page'[b] = r /\ \A a \in Addr \ {b} : page'[a] = page[a]
  BY <1>2, <1>3
<1>5. PageInv'
  <2>1. ASSUME NEW a \in Addr
        PROVE  page'[a] = [age |-> page'[a].age, allocating |-> page'[a].allocating,
                           obj |-> page'[a].obj, field |-> page'[a].field]
    BY <1>1, <1>4 DEF PageInv
  <2>2. page' = [a \in Addr |-> [age |-> page'[a].age, allocating |-> page'[a].allocating,
                                 obj |-> page'[a].obj, field |-> page'[a].field]]
    BY <1>2, <2>1
  <2>3. ASSUME NEW a \in Addr
        PROVE  /\ page'[a].age \in {"free", "young", "old"}
               /\ page'[a].allocating \in BOOLEAN
               /\ page'[a].age = "free" <=> page'[a].obj = NoObject
    <3>1. CASE a = b
      BY <1>1, <1>4, <3>1
    <3>2. CASE a # b
      BY <1>4, <3>2 DEF PageInv
    <3> QED BY <3>1, <3>2
  <2> QED BY <2>2, <2>3 DEF PageInv
<1>6. KeepsQualities
  <2>1. \A x : Monotonic(x, x, color)
    BY DEF Monotonic, IsMarkedFinalizable
  <2> QED BY <1>1, <1>3, <1>4, <2>1 DEF KeepsQualities
<1> QED BY <1>1, <1>3, <1>4, <1>5, <1>6 DEF Kept, IsOld, IsYoung, Improved

\* Pages that are freed, after fields have been healed.
LEMMA FreedPages ==
  ASSUME PageInv, NEW F, F \subseteq Addr, \A a \in F : page[a].age # "free" /\ ~page[a].allocating,
         color' = color, NEW P, Healing(P),
         page' = [a \in Addr |-> IF a \in F THEN FreePage ELSE P[a]]
  PROVE  PageInv' /\ KeepsQualities /\ Kept(F)
<1>1. /\ FreePage = [age |-> FreePage.age, allocating |-> FreePage.allocating,
                     obj |-> FreePage.obj, field |-> FreePage.field]
      /\ FreePage.age = "free" /\ FreePage.allocating = FALSE /\ FreePage.obj = NoObject
  BY DEF FreePage
<1>2. \A a \in Addr : page'[a] = IF a \in F THEN FreePage ELSE P[a]
  OBVIOUS
<1>3. \A a \in Addr : /\ P[a].age = page[a].age /\ P[a].allocating = page[a].allocating
                      /\ P[a].obj = page[a].obj
                      /\ P[a] = [age |-> P[a].age, allocating |-> P[a].allocating,
                                 obj |-> P[a].obj, field |-> P[a].field]
                      /\ Improved(page[a].field, P[a].field)
                      /\ Monotonic(page[a].field, P[a].field, color)
  BY DEF Healing
<1>4. PageInv'
  <2>1. ASSUME NEW a \in Addr
        PROVE  page'[a] = [age |-> page'[a].age, allocating |-> page'[a].allocating,
                           obj |-> page'[a].obj, field |-> page'[a].field]
    BY <1>1, <1>2, <1>3
  <2>2. page' = [a \in Addr |-> [age |-> page'[a].age, allocating |-> page'[a].allocating,
                                 obj |-> page'[a].obj, field |-> page'[a].field]]
    <3>1. page' = [a \in Addr |-> page'[a]]
      OBVIOUS
    <3> QED BY ONLY <2>1, <3>1
  <2>3. \A a \in Addr : /\ page'[a].age \in {"free", "young", "old"}
                        /\ page'[a].allocating \in BOOLEAN
                        /\ page'[a].age = "free" <=> page'[a].obj = NoObject
    BY <1>1, <1>2, <1>3 DEF PageInv
  <2>4. color' \in Colors
    BY DEF PageInv
  <2> QED BY <2>2, <2>3, <2>4 DEF PageInv
<1>5. KeepsQualities
  BY <1>1, <1>2, <1>3 DEF KeepsQualities, PageInv
<1> QED BY <1>2, <1>3, <1>4, <1>5 DEF Kept

\* What is known of the pages to be relocated.
LEMMA Entries ==
  ASSUME NEW g, IsGeneration(g)
  PROVE  \A a \in DOMAIN g.fwd : /\ a \in Addr /\ g.fwd[a].done \in BOOLEAN
                                 /\ g.fwd[a].age \in {"young", "old"}
                                 /\ g.fwd[a].done => g.fwd[a].to # NoAddr
<1>1. DOMAIN g.fwd \subseteq Addr /\ EntriesOK(g.fwd)
  BY DEF IsGeneration
<1>2. \A a \in DOMAIN g.fwd : a \in Addr
  BY <1>1
<1> QED BY <1>1, <1>2 DEF EntriesOK

\* What a page gets that is relocated: a copy of its object,
LEMMA TargetFound ==
  ASSUME NEW g, IsGeneration(g), NEW a \in DOMAIN g.fwd, NEW b, b # NoAddr, NEW h,
         h = [g EXCEPT !.fwd[a].to = b]
  PROVE  /\ IsGeneration(h) /\ DOMAIN h.fwd = DOMAIN g.fwd
         /\ h.stage = g.stage /\ h.flipped = g.flipped /\ h.marked = g.marked
         /\ \A x \in DOMAIN g.fwd : /\ h.fwd[x].to = IF x = a THEN b ELSE g.fwd[x].to
                                    /\ h.fwd[x].age = g.fwd[x].age
                                    /\ h.fwd[x].done = g.fwd[x].done
<1> DEFINE D == DOMAIN g.fwd
           f == [x \in D |-> [to |-> IF x = a THEN b ELSE g.fwd[x].to,
                              age |-> g.fwd[x].age, done |-> g.fwd[x].done]]
<1>1. g = [stage |-> g.stage, major |-> g.major, marked |-> g.marked, todo |-> g.todo,
           flushed |-> g.flushed, flipped |-> g.flipped, fwd |-> g.fwd]
  BY DEF IsGeneration
<1>2. h = [stage |-> g.stage, major |-> g.major, marked |-> g.marked, todo |-> g.todo,
           flushed |-> g.flushed, flipped |-> g.flipped,
           fwd |-> [g.fwd EXCEPT ![a].to = b]]
  BY <1>1
<1>3. g.fwd = [x \in D |-> [to |-> g.fwd[x].to, age |-> g.fwd[x].age, done |-> g.fwd[x].done]]
  BY DEF IsGeneration
<1>4. [g.fwd EXCEPT ![a].to = b] = f
  <2>1. \A x \in D : g.fwd[x] = [to |-> g.fwd[x].to, age |-> g.fwd[x].age, done |-> g.fwd[x].done]
    BY <1>3
  <2>2. [g.fwd EXCEPT ![a].to = b]
          = [x \in D |-> IF x = a THEN [g.fwd[x] EXCEPT !.to = b] ELSE g.fwd[x]]
    BY <1>3
  <2>3. \A x \in D : [g.fwd[x] EXCEPT !.to = b]
                       = [to |-> b, age |-> g.fwd[x].age, done |-> g.fwd[x].done]
    <3>1. \A q, v : q = [to |-> q.to, age |-> q.age, done |-> q.done] =>
                      [q EXCEPT !.to = v] = [to |-> v, age |-> q.age, done |-> q.done]
      OBVIOUS
    <3> QED BY <2>1, <3>1
  <2> QED BY <2>1, <2>2, <2>3
<1>5. h.fwd = f /\ h.stage = g.stage /\ h.flipped = g.flipped /\ h.marked = g.marked
      /\ h = [stage |-> h.stage, major |-> h.major, marked |-> h.marked, todo |-> h.todo,
              flushed |-> h.flushed, flipped |-> h.flipped, fwd |-> h.fwd]
  BY <1>2, <1>4
<1>6. /\ DOMAIN f = D
      /\ \A x \in D : /\ f[x].to = IF x = a THEN b ELSE g.fwd[x].to
                      /\ f[x].age = g.fwd[x].age /\ f[x].done = g.fwd[x].done
      /\ f = [x \in D |-> [to |-> f[x].to, age |-> f[x].age, done |-> f[x].done]]
  OBVIOUS
<1> HIDE DEF f
<1>7. IsGeneration(h)
  <2>1. EntriesOK(f)
    BY <1>6, Entries DEF EntriesOK
  <2>2. D \subseteq Addr
    BY DEF IsGeneration
  <2>3. DOMAIN h.fwd = D /\ EntriesOK(h.fwd)
    BY <1>5, <1>6, <2>1
  <2>4. h.fwd = [x \in D |-> [to |-> h.fwd[x].to, age |-> h.fwd[x].age, done |-> h.fwd[x].done]]
    BY <1>5, <1>6
  <2> HIDE DEF D
  <2> QED BY <1>5, <2>2, <2>3, <2>4 DEF IsGeneration
<1> QED BY <1>5, <1>6, <1>7

\* and to be done with.
LEMMA PageDone ==
  ASSUME NEW g, IsGeneration(g), NEW a \in DOMAIN g.fwd, g.fwd[a].to # NoAddr, NEW h,
         h = [g EXCEPT !.fwd[a].done = TRUE]
  PROVE  /\ IsGeneration(h) /\ DOMAIN h.fwd = DOMAIN g.fwd
         /\ h.stage = g.stage /\ h.flipped = g.flipped /\ h.marked = g.marked
         /\ \A x \in DOMAIN g.fwd : /\ h.fwd[x].to = g.fwd[x].to /\ h.fwd[x].age = g.fwd[x].age
                                    /\ h.fwd[x].done <=> (g.fwd[x].done \/ x = a)
<1> DEFINE D == DOMAIN g.fwd
           f == [x \in D |-> [to |-> g.fwd[x].to, age |-> g.fwd[x].age,
                              done |-> g.fwd[x].done \/ x = a]]
<1>1. g = [stage |-> g.stage, major |-> g.major, marked |-> g.marked, todo |-> g.todo,
           flushed |-> g.flushed, flipped |-> g.flipped, fwd |-> g.fwd]
  BY DEF IsGeneration
<1>2. h = [stage |-> g.stage, major |-> g.major, marked |-> g.marked, todo |-> g.todo,
           flushed |-> g.flushed, flipped |-> g.flipped,
           fwd |-> [g.fwd EXCEPT ![a].done = TRUE]]
  BY <1>1
<1>3. g.fwd = [x \in D |-> [to |-> g.fwd[x].to, age |-> g.fwd[x].age, done |-> g.fwd[x].done]]
  BY DEF IsGeneration
<1>4. [g.fwd EXCEPT ![a].done = TRUE] = f
  <2>1. \A x \in D : g.fwd[x] = [to |-> g.fwd[x].to, age |-> g.fwd[x].age, done |-> g.fwd[x].done]
                     /\ g.fwd[x].done \in BOOLEAN
    <3>1. \A x \in D : g.fwd[x].done \in BOOLEAN
      BY Entries
    <3> QED BY <1>3, <3>1
  <2>2. [g.fwd EXCEPT ![a].done = TRUE]
          = [x \in D |-> IF x = a THEN [g.fwd[x] EXCEPT !.done = TRUE] ELSE g.fwd[x]]
    BY <1>3
  <2>3. ASSUME NEW x \in D
        PROVE  (IF x = a THEN [g.fwd[x] EXCEPT !.done = TRUE] ELSE g.fwd[x])
                 = [to |-> g.fwd[x].to, age |-> g.fwd[x].age, done |-> g.fwd[x].done \/ x = a]
    <3> DEFINE r == g.fwd[x]
    <3>1. r = [to |-> r.to, age |-> r.age, done |-> r.done] /\ r.done \in BOOLEAN
      BY <2>1
    <3> HIDE DEF r
    <3>2. CASE x = a
      <4>1. [r EXCEPT !.done = TRUE] = [to |-> r.to, age |-> r.age, done |-> TRUE]
        <5>1. \A q, v : q = [to |-> q.to, age |-> q.age, done |-> q.done] =>
                          [q EXCEPT !.done = v] = [to |-> q.to, age |-> q.age, done |-> v]
          OBVIOUS
        <5> QED BY <3>1, <5>1
      <4>2. (r.done \/ x = a) = TRUE
        BY <3>2
      <4>3. [to |-> r.to, age |-> r.age, done |-> r.done \/ x = a]
              = [to |-> r.to, age |-> r.age, done |-> TRUE]
        BY <4>2
      <4> QED BY <3>2, <4>1, <4>3 DEF r
    <3>3. CASE x # a
      <4>1. (r.done \/ x = a) = r.done
        BY <3>1, <3>3
      <4>2. [to |-> r.to, age |-> r.age, done |-> r.done \/ x = a]
              = [to |-> r.to, age |-> r.age, done |-> r.done]
        BY <4>1
      <4> QED BY <3>1, <3>3, <4>2 DEF r
    <3> QED BY <3>2, <3>3
  <2> QED BY <2>2, <2>3
<1>5. h.fwd = f /\ h.stage = g.stage /\ h.flipped = g.flipped /\ h.marked = g.marked
      /\ h = [stage |-> h.stage, major |-> h.major, marked |-> h.marked, todo |-> h.todo,
              flushed |-> h.flushed, flipped |-> h.flipped, fwd |-> h.fwd]
  BY <1>2, <1>4
<1>6. /\ DOMAIN f = D
      /\ \A x \in D : /\ f[x].to = g.fwd[x].to
                      /\ f[x].age = g.fwd[x].age /\ f[x].done \in BOOLEAN
                      /\ f[x].done <=> (g.fwd[x].done \/ x = a)
      /\ f = [x \in D |-> [to |-> f[x].to, age |-> f[x].age, done |-> f[x].done]]
  OBVIOUS
<1> HIDE DEF f
<1>7. IsGeneration(h)
  <2>1. EntriesOK(f)
    BY <1>6, Entries DEF EntriesOK
  <2>2. D \subseteq Addr
    BY DEF IsGeneration
  <2>3. DOMAIN h.fwd = D /\ EntriesOK(h.fwd)
    BY <1>5, <1>6, <2>1
  <2>4. h.fwd = [x \in D |-> [to |-> h.fwd[x].to, age |-> h.fwd[x].age, done |-> h.fwd[x].done]]
    BY <1>5, <1>6
  <2> HIDE DEF D
  <2> QED BY <1>5, <2>2, <2>3, <2>4 DEF IsGeneration
<1> QED BY <1>5, <1>6, <1>7

\* A page of the young generation is done with.
LEMMA YoungFinished ==
  ASSUME IInv, NEW a \in DOMAIN young.fwd, Kept({a}),
         IsGeneration(young'), DOMAIN young'.fwd = DOMAIN young.fwd,
         young'.stage = young.stage, young'.flipped = young.flipped,
         \A x \in DOMAIN young.fwd : /\ young'.fwd[x].to = young.fwd[x].to
                                     /\ young'.fwd[x].age = young.fwd[x].age
                                     /\ young'.fwd[x].done <=> (young.fwd[x].done \/ x = a)
  PROVE  YoungInv'
<1>1. ASSUME NEW x \in DOMAIN young.fwd, ~young'.fwd[x].done
      PROVE  /\ young.stage \in {"selected", "relocate"}
             /\ IsYoung(x)' /\ ~page'[x].allocating
             /\ young.fwd[x].age = "old" =>
                  \A q \in Addr : q = young.fwd[x].to => page'[q].age = "old" /\ page'[q].allocating
  <2>1. ~young.fwd[x].done /\ x # a
    BY <1>1
  <2>2. x \in Addr \ {a}
    BY <2>1, Entries DEF IInv, YoungInv
  <2>3. /\ young.stage \in {"selected", "relocate"}
        /\ IsYoung(x) /\ ~page[x].allocating
        /\ young.fwd[x].age = "old" => IsNewOld(young.fwd[x].to)
    BY <2>1 DEF IInv, YoungInv
  <2>4. IsYoung(x)' /\ ~page'[x].allocating
    BY <2>2, <2>3, PagesKept DEF Kept
  <2>5. young.fwd[x].age = "old" =>
          \A q \in Addr : q = young.fwd[x].to => page'[q].age = "old" /\ page'[q].allocating
    <3>1. \A q : IsNewOld(q) => IsNewOld(q)'
      BY PagesKept
    <3> QED BY <2>3, <3>1 DEF IsNewOld, IsOld
  <2> QED BY <2>3, <2>4, <2>5
<1>2. \A p \in young.flipped : young.stage \in {"selected", "relocate"} /\ IsNewOld(p)'
  BY PagesKept DEF IInv, YoungInv
<1> QED BY <1>1, <1>2 DEF YoungInv, IsNewOld, IsOld

LEMMA NewStep ==
  ASSUME IInv, NEW x \in Slots, New(x)
  PROVE  IInv' /\ KeepsQualities
<1>1. PICK b \in Free, o \in Objects : page' = Allocated(b, "young", o, RawNull)
  BY DEF New
<1>2. UNCHANGED <<color, young, old, remset, worker>>
  BY DEF New
<1>3. o # NoObject
  BY SituationsAssumption
<1>4. PageInv' /\ KeepsQualities /\ Kept({b}) /\ ~IsYoung(b) /\ ~IsOld(b)
  BY <1>1, <1>2, <1>3, NewPage DEF IInv
<1>5. YoungInv'
  BY <1>2, <1>4, YoungKept
<1>6. OldInv'
  BY <1>2, <1>4, OldKept DEF IInv, OldInv
<1>7. RemsetInv'
  BY <1>2, <1>4, PagesKept DEF IInv, RemsetInv
<1>8. WorkersInv'
  BY <1>2, <1>4, WorkersKept DEF Scanning
<1> QED BY <1>4, <1>5, <1>6, <1>7, <1>8 DEF IInv

\* An object is relocated.
LEMMA CopyYoungStep ==
  ASSUME IInv, NEW a \in Addr, NEW b \in Addr, CopyYoung(a, b)
  PROVE  IInv' /\ KeepsQualities
<1>1. /\ a \in DOMAIN young.fwd /\ young.fwd[a].to = NoAddr /\ b \in Free
      /\ page' = Allocated(b, young.fwd[a].age, page[a].obj, page[a].field)
      /\ UNCHANGED <<color, old, remset, worker>>
      /\ young' = [young EXCEPT !.fwd[a].to = b]
  BY DEF CopyYoung, Copied, Unforwarded, Forwarding
<1>2. IsGeneration(young) /\ b # NoAddr
  BY AddrAssumption DEF IInv, YoungInv
<1>3. /\ IsGeneration(young') /\ DOMAIN young'.fwd = DOMAIN young.fwd
      /\ young'.stage = young.stage /\ young'.flipped = young.flipped
      /\ \A x \in DOMAIN young.fwd : /\ young'.fwd[x].to = IF x = a THEN b ELSE young.fwd[x].to
                                     /\ young'.fwd[x].age = young.fwd[x].age
                                     /\ young'.fwd[x].done = young.fwd[x].done
  <2>1. young' = [young EXCEPT !.fwd[a].to = b] /\ a \in DOMAIN young.fwd
    BY <1>1
  <2> QED BY <1>2, <2>1, TargetFound
<1>4. ~young.fwd[a].done /\ young.fwd[a].age \in {"young", "old"} /\ page[a].obj # NoObject
  <2>1. ~young.fwd[a].done /\ young.fwd[a].age \in {"young", "old"} /\ a \in Addr
    BY <1>1, <1>2, Entries
  <2>2. IsYoung(a)
    BY <1>1, <2>1 DEF IInv, YoungInv
  <2> QED BY <2>1, <2>2 DEF IInv, PageInv, IsYoung
<1>5. PageInv' /\ KeepsQualities /\ Kept({b}) /\ ~IsYoung(b) /\ ~IsOld(b)
      /\ page'[b].age = young.fwd[a].age /\ page'[b].allocating
  BY <1>1, <1>4, NewPage DEF IInv
<1>6. YoungInv'
  <2>1. ASSUME NEW x \in DOMAIN young.fwd, ~young.fwd[x].done
        PROVE  /\ young.stage \in {"selected", "relocate"}
               /\ IsYoung(x)' /\ ~page'[x].allocating
               /\ young.fwd[x].age = "old" =>
                    \A q \in Addr : q = young'.fwd[x].to =>
                      page'[q].age = "old" /\ page'[q].allocating
    <3>1. x \in Addr /\ IsYoung(x) /\ ~page[x].allocating /\ x # b
          /\ young.stage \in {"selected", "relocate"}
          /\ (young.fwd[x].age = "old" => IsNewOld(young.fwd[x].to))
      BY <1>2, <1>5, <2>1 DEF IInv, YoungInv, IsGeneration
    <3>2. IsYoung(x)' /\ ~page'[x].allocating
      BY <1>5, <3>1 DEF Kept, IsYoung
    <3>3. CASE x = a
      <4>1. young'.fwd[x].to = b
        BY <1>3, <3>3
      <4> QED BY <1>5, <3>1, <3>2, <3>3, <4>1
    <3>4. CASE x # a
      <4>1. young'.fwd[x].to = young.fwd[x].to
        BY <1>3, <3>4
      <4>2. IsNewOld(young.fwd[x].to) => young.fwd[x].to # b \/ young.fwd[x].to \notin Addr
        BY <1>5 DEF IsNewOld
      <4> QED BY <1>5, <3>1, <3>2, <4>1, <4>2 DEF IsNewOld, IsOld, Kept
    <3> QED BY <3>3, <3>4
  <2>2. \A p \in young.flipped : young.stage \in {"selected", "relocate"} /\ IsNewOld(p)'
    BY <1>5, PagesKept DEF IInv, YoungInv
  <2> QED BY <1>3, <2>1, <2>2 DEF YoungInv, IsNewOld, IsOld
<1>7. OldInv'
  BY <1>1, <1>3, <1>5, OldKept DEF IInv, OldInv
<1>8. RemsetInv'
  BY <1>1, <1>5, PagesKept DEF IInv, RemsetInv
<1>9. WorkersInv'
  BY <1>1, <1>3, <1>5, WorkersKept DEF Scanning
<1> QED BY <1>5, <1>6, <1>7, <1>8, <1>9 DEF IInv

LEMMA CopyOldStep ==
  ASSUME IInv, NEW a \in Addr, NEW b \in Addr, CopyOld(a, b)
  PROVE  IInv' /\ KeepsQualities
<1>1. /\ a \in DOMAIN old.fwd /\ old.fwd[a].to = NoAddr /\ b \in Free
      /\ page' = Allocated(b, old.fwd[a].age, page[a].obj, page[a].field)
      /\ UNCHANGED <<color, young, remset, worker>>
      /\ old' = [old EXCEPT !.fwd[a].to = b]
  BY DEF CopyOld, Copied, Unforwarded, Forwarding
<1>2. IsGeneration(old) /\ b # NoAddr
  BY AddrAssumption DEF IInv, OldInv
<1>3. /\ IsGeneration(old') /\ DOMAIN old'.fwd = DOMAIN old.fwd
      /\ old'.stage = old.stage /\ old'.marked = old.marked
      /\ \A x \in DOMAIN old.fwd : /\ old'.fwd[x].to = IF x = a THEN b ELSE old.fwd[x].to
                                   /\ old'.fwd[x].age = old.fwd[x].age
                                   /\ old'.fwd[x].done = old.fwd[x].done
  <2>1. old' = [old EXCEPT !.fwd[a].to = b] /\ a \in DOMAIN old.fwd
    BY <1>1
  <2> QED BY <1>2, <2>1, TargetFound
<1>4. ~old.fwd[a].done /\ old.fwd[a].age = "old" /\ page[a].obj # NoObject
  <2>1. ~old.fwd[a].done /\ a \in Addr
    BY <1>1, <1>2, Entries
  <2>2. IsOld(a) /\ old.fwd[a].age = "old"
    BY <1>1, <2>1 DEF IInv, OldInv
  <2> QED BY <2>1, <2>2 DEF IInv, PageInv, IsOld
<1>5. PageInv' /\ KeepsQualities /\ Kept({b}) /\ ~IsYoung(b) /\ ~IsOld(b)
      /\ page'[b].age = "old" /\ page'[b].allocating
  BY <1>1, <1>4, NewPage DEF IInv
<1>6. YoungInv'
  BY <1>1, <1>5, YoungKept
<1>7. OldInv'
  <2>1. ASSUME NEW x \in DOMAIN old.fwd, ~old.fwd[x].done
        PROVE  /\ old.stage \in {"selected", "remap", "relocate"}
               /\ IsOld(x)' /\ ~page'[x].allocating
               /\ old.fwd[x].age = "old"
               /\ \A q \in Addr : q = old'.fwd[x].to => page'[q].age = "old" /\ page'[q].allocating
    <3>1. x \in Addr /\ IsOld(x) /\ ~page[x].allocating /\ x # b
          /\ old.stage \in {"selected", "remap", "relocate"}
          /\ old.fwd[x].age = "old" /\ IsNewOld(old.fwd[x].to)
      BY <1>2, <1>5, <2>1 DEF IInv, OldInv, IsGeneration
    <3>2. IsOld(x)' /\ ~page'[x].allocating
      BY <1>5, <3>1 DEF Kept, IsOld
    <3>3. CASE x = a
      <4>1. old'.fwd[x].to = b
        BY <1>3, <3>3
      <4> QED BY <1>5, <3>1, <3>2, <4>1
    <3>4. CASE x # a
      <4>1. old'.fwd[x].to = old.fwd[x].to
        BY <1>3, <3>4
      <4>2. old.fwd[x].to # b \/ old.fwd[x].to \notin Addr
        BY <1>5, <3>1 DEF IsNewOld
      <4> QED BY <1>5, <3>1, <3>2, <4>1, <4>2 DEF IsNewOld, IsOld, Kept
    <3> QED BY <3>3, <3>4
  <2>2. old'.stage = "remap" => young'.stage = "idle"
    BY <1>1, <1>3 DEF IInv, OldInv
  <2> QED BY <1>3, <2>1, <2>2 DEF OldInv, IsNewOld, IsOld
<1>8. RemsetInv'
  BY <1>1, <1>5, PagesKept DEF IInv, RemsetInv
<1>9. WorkersInv'
  BY <1>1, <1>3, <1>5, WorkersKept DEF Scanning, Forwarding
<1> QED BY <1>5, <1>6, <1>7, <1>8, <1>9 DEF IInv

\* A survivor's page is freed.
LEMMA FinishSurvivorStep ==
  ASSUME IInv, NEW a \in Addr, FinishYoung(a), young.fwd[a].age # "old"
  PROVE  IInv' /\ KeepsQualities
<1>1. /\ a \in DOMAIN young.fwd /\ young.fwd[a].to # NoAddr /\ ~young.fwd[a].done
      /\ page' = [page EXCEPT ![a] = FreePage]
      /\ young' = [young EXCEPT !.fwd[a].done = TRUE]
      /\ UNCHANGED <<color, old, remset, worker>>
  BY DEF FinishYoung, Relocated, Forwarding
<1>2. IsGeneration(young) /\ IsYoung(a) /\ ~page[a].allocating
  BY <1>1 DEF IInv, YoungInv
<1>3. /\ IsGeneration(young') /\ DOMAIN young'.fwd = DOMAIN young.fwd
      /\ young'.stage = young.stage /\ young'.flipped = young.flipped
      /\ \A x \in DOMAIN young.fwd : /\ young'.fwd[x].to = young.fwd[x].to
                                     /\ young'.fwd[x].age = young.fwd[x].age
                                     /\ young'.fwd[x].done <=> (young.fwd[x].done \/ x = a)
  <2>1. young' = [young EXCEPT !.fwd[a].done = TRUE] /\ a \in DOMAIN young.fwd
        /\ young.fwd[a].to # NoAddr
    BY <1>1
  <2> QED BY <1>2, <2>1, PageDone
<1>4. page' = [x \in Addr |-> IF x \in {a} THEN FreePage ELSE page[x]]
  BY <1>1 DEF IInv, PageInv
<1>5. PageInv' /\ KeepsQualities /\ Kept({a}) /\ ~IsOld(a)
  <2>1. page[a].age # "free" /\ ~IsOld(a)
    BY <1>2 DEF IsYoung, IsOld
  <2>2. PageInv /\ color' = color /\ {a} \subseteq Addr
        /\ \A x \in {a} : page[x].age # "free" /\ ~page[x].allocating
    BY <1>1, <1>2, <2>1 DEF IInv
  <2> QED BY <1>4, <2>1, <2>2, FreedPages, NothingHealed
<1>6. YoungInv'
  BY <1>1, <1>3, <1>5, YoungFinished
<1>7. OldInv'
  BY <1>1, <1>3, <1>5, OldKept DEF IInv, OldInv
<1>8. RemsetInv'
  BY <1>1, <1>5, PagesKept DEF IInv, RemsetInv
<1>9. WorkersInv'
  BY <1>1, <1>3, <1>5, WorkersKept DEF Scanning
<1> QED BY <1>5, <1>6, <1>7, <1>8, <1>9 DEF IInv

\* A promoted object's field has been seen to, and its old page is freed.
LEMMA PromotedStep ==
  ASSUME IInv, NEW a \in Addr, Promoted(a)
  PROVE  IInv' /\ KeepsQualities
<1> DEFINE w == worker.young
           P == IF \/ IsStoreGood(w.o, color) \/ IsLoadGood(w.o, color)
                   \/ ~IsNullAny(w.o) /\ (Remap(young, w.o.addr) # NoAddr
                                            => IsYoung(Remap(young, w.o.addr)))
                THEN page
                ELSE SelfHeal("promoted", w.p, w.o, LoadGood(MakeLoadGood(w.o), w.o, color))
<1>1. /\ a \in DOMAIN young.fwd /\ young.fwd[a].to # NoAddr /\ ~young.fwd[a].done
      /\ page' = [P EXCEPT ![a] = FreePage]
      /\ young' = [young EXCEPT !.fwd[a].done = TRUE]
      /\ remset' = remset \/ remset' = Remember(worker.young.p)
      /\ worker' = [worker EXCEPT !.young = NoBarrier]
      /\ UNCHANGED <<color, old>>
      /\ w.kind = "promoted"
  BY DEF Promoted, Relocated, Forwarding
<1>2. IsGeneration(young) /\ IsYoung(a) /\ ~page[a].allocating
  BY <1>1 DEF IInv, YoungInv
<1>3. /\ IsGeneration(young') /\ DOMAIN young'.fwd = DOMAIN young.fwd
      /\ young'.stage = young.stage /\ young'.flipped = young.flipped
      /\ \A x \in DOMAIN young.fwd : /\ young'.fwd[x].to = young.fwd[x].to
                                     /\ young'.fwd[x].age = young.fwd[x].age
                                     /\ young'.fwd[x].done <=> (young.fwd[x].done \/ x = a)
  <2>1. young' = [young EXCEPT !.fwd[a].done = TRUE] /\ a \in DOMAIN young.fwd
        /\ young.fwd[a].to # NoAddr
    BY <1>1
  <2> QED BY <1>2, <2>1, PageDone
<1>4. Healing(P)
  <2>1. w.p \in Addr => page[w.p].field = w.o \/ IsLoadGood(page[w.p].field, color)
    BY <1>1 DEF IInv, WorkersInv, HasRead
  <2>2. PageInv
    BY DEF IInv
  <2>3. CASE P = page
    BY <2>2, <2>3, NothingHealed
  <2>4. CASE P # page
    <3>1. ~IsLoadGood(w.o, color)
          /\ P = SelfHeal("promoted", w.p, w.o, LoadGood(MakeLoadGood(w.o), w.o, color))
      BY <2>4
    <3> HIDE DEF P, w
    <3> QED BY <2>1, <2>2, <3>1, RemapHeals
  <2> QED BY <2>3, <2>4
<1> HIDE DEF P, w
<1>5. page' = [x \in Addr |-> IF x \in {a} THEN FreePage ELSE P[x]]
  <2>1. DOMAIN P = Addr /\ P = [x \in Addr |-> P[x]]
    BY <1>4 DEF Healing
  <2> QED BY <1>1, <2>1
<1>6. PageInv' /\ KeepsQualities /\ Kept({a}) /\ ~IsOld(a)
  <2>1. page[a].age # "free" /\ ~IsOld(a)
    BY <1>2 DEF IsYoung, IsOld
  <2>2. PageInv /\ color' = color /\ {a} \subseteq Addr
        /\ \A x \in {a} : page[x].age # "free" /\ ~page[x].allocating
    BY <1>1, <1>2, <2>1 DEF IInv
  <2> QED BY <1>4, <1>5, <2>1, <2>2, FreedPages
<1>7. YoungInv'
  BY <1>1, <1>3, <1>6, YoungFinished
<1>8. OldInv'
  BY <1>1, <1>3, <1>6, OldKept DEF IInv, OldInv
<1>9. RemsetInv'
  <2>1. RemsetGrows
    BY <1>1, RemsetRests DEF IInv
  <2> QED BY <1>6, <2>1, PagesKept DEF RemsetInv, RemsetGrows, IInv
<1>10. WorkersInv'
  <2>1. worker' = [young |-> NoBarrier, old |-> worker.old] /\ NoBarrier.kind = "none"
    BY <1>1 DEF IInv, WorkersInv, NoBarrier
  <2>2. worker.old.kind # "remap"
    BY <1>1 DEF IInv, WorkersInv, OldInv, w
  <2> QED BY <2>1, <2>2 DEF IInv, WorkersInv
<1> QED BY <1>6, <1>7, <1>8, <1>9, <1>10 DEF IInv

\* A page of the old generation is freed, and its remembered bits go with the
\* object.
LEMMA FinishOldStep ==
  ASSUME IInv, NEW a \in Addr, FinishOld(a)
  PROVE  IInv' /\ KeepsQualities
<1>0. PICK b : b = old.fwd[a].to
  OBVIOUS
<1>1. /\ a \in DOMAIN old.fwd /\ b # NoAddr /\ ~old.fwd[a].done
      /\ old.stage = "relocate"
      /\ page' = [page EXCEPT ![a] = FreePage]
      /\ old' = [old EXCEPT !.fwd[a].done = TRUE]
      /\ remset' = [current |-> Moved(remset.current, a, b), previous |-> Moved(remset.previous, a, b)]
      /\ UNCHANGED <<color, young, worker>>
  BY <1>0 DEF FinishOld, Relocated, Forwarding
<1>2. IsGeneration(old) /\ IsOld(a) /\ ~page[a].allocating /\ IsNewOld(b)
  BY <1>0, <1>1 DEF IInv, OldInv
<1>3. /\ IsGeneration(old') /\ DOMAIN old'.fwd = DOMAIN old.fwd
      /\ old'.stage = old.stage /\ old'.marked = old.marked
      /\ \A x \in DOMAIN old.fwd : /\ old'.fwd[x].to = old.fwd[x].to
                                   /\ old'.fwd[x].age = old.fwd[x].age
                                   /\ old'.fwd[x].done <=> (old.fwd[x].done \/ x = a)
  <2>1. old' = [old EXCEPT !.fwd[a].done = TRUE] /\ a \in DOMAIN old.fwd /\ old.fwd[a].to # NoAddr
    BY <1>0, <1>1
  <2> QED BY <1>2, <2>1, PageDone
<1>4. page' = [x \in Addr |-> IF x \in {a} THEN FreePage ELSE page[x]]
  BY <1>1 DEF IInv, PageInv
<1>5. PageInv' /\ KeepsQualities /\ Kept({a}) /\ ~IsYoung(a)
  <2>1. page[a].age # "free" /\ ~IsYoung(a)
    BY <1>2 DEF IsYoung, IsOld
  <2>2. PageInv /\ color' = color /\ {a} \subseteq Addr
        /\ \A x \in {a} : page[x].age # "free" /\ ~page[x].allocating
    BY <1>1, <1>2, <2>1 DEF IInv
  <2> QED BY <1>4, <2>1, <2>2, FreedPages, NothingHealed
<1>6. YoungInv'
  BY <1>1, <1>5, YoungKept
<1>7. OldInv'
  <2>1. ASSUME NEW x \in DOMAIN old.fwd, ~old'.fwd[x].done
        PROVE  /\ old.stage \in {"selected", "remap", "relocate"}
               /\ IsOld(x)' /\ ~page'[x].allocating
               /\ old.fwd[x].age = "old"
               /\ \A q \in Addr : q = old.fwd[x].to => page'[q].age = "old" /\ page'[q].allocating
    <3>1. ~old.fwd[x].done /\ x # a
      BY <1>3, <2>1
    <3>2. x \in Addr \ {a}
      BY <1>2, <3>1, Entries
    <3>3. /\ IsOld(x) /\ ~page[x].allocating
          /\ old.fwd[x].age = "old" /\ IsNewOld(old.fwd[x].to)
      BY <3>1 DEF IInv, OldInv
    <3>4. IsOld(x)' /\ ~page'[x].allocating
      BY <1>5, <3>2, <3>3, PagesKept DEF Kept
    <3>5. \A q \in Addr : q = old.fwd[x].to => page'[q].age = "old" /\ page'[q].allocating
      <4>1. \A q : IsNewOld(q) => IsNewOld(q)'
        BY <1>5, PagesKept
      <4> QED BY <3>3, <4>1 DEF IsNewOld, IsOld
    <3> QED BY <1>1, <3>3, <3>4, <3>5
  <2> QED BY <1>1, <1>3, <2>1 DEF OldInv, IsNewOld, IsOld
<1>8. RemsetInv'
  <2>1. IsNewOld(b)'
    BY <1>2, <1>5, PagesKept
  <2>2. b \in Addr => IsOld(b)'
    BY <2>1 DEF IsNewOld
  <2>3. \A S : Moved(S, a, b) \subseteq (S \ {a}) \cup {b}
    BY DEF Moved
  <2>4. \A q \in (remset.current \cup remset.previous) \cap Addr : q # a => IsOld(q)'
    BY <1>5, PagesKept DEF IInv, RemsetInv
  <2>5. remset'.current = Moved(remset.current, a, b) /\ remset'.previous = Moved(remset.previous, a, b)
        /\ remset' = [current |-> remset'.current, previous |-> remset'.previous]
    BY <1>1
  <2> QED BY <2>2, <2>3, <2>4, <2>5 DEF RemsetInv
<1>9. WorkersInv'
  <2>1. \A w : Scanning(w) => w.p \notin {a} \cap Addr
    BY <1>1 DEF Scanning, Forwarding
  <2>2. \A p \in Addr : (old.stage = "relocate" /\ Forwarding(old, p) => old.fwd[p].done)
                          => (old'.stage = "relocate" /\ Forwarding(old', p) => old'.fwd[p].done)
    BY <1>3 DEF Forwarding
  <2> QED BY <1>1, <1>3, <1>5, <2>1, <2>2, WorkersKept
<1> QED BY <1>5, <1>6, <1>7, <1>8, <1>9 DEF IInv

\* A forwarding table that has just been installed.
LEMMA Installs ==
  ASSUME NEW R, R \subseteq Addr, NEW age, \A a \in R : age[a] \in {"young", "old"},
         NEW f, f = Installed(R, age)
  PROVE  /\ DOMAIN f = R /\ EntriesOK(f)
         /\ f = [a \in DOMAIN f |-> [to |-> f[a].to, age |-> f[a].age, done |-> f[a].done]]
         /\ \A a \in R : f[a].to = NoAddr /\ f[a].age = age[a] /\ ~f[a].done
<1> DEFINE no == FALSE
<1>0. no \in BOOLEAN /\ ~no
  OBVIOUS
<1>1. f = [a \in R |-> [to |-> NoAddr, age |-> age[a], done |-> no]]
  BY DEF Installed
<1> HIDE DEF no
<1>2. /\ DOMAIN f = R
      /\ \A a \in R : f[a].to = NoAddr /\ f[a].age = age[a] /\ f[a].done = no
  <2>1. DOMAIN f = R
    BY <1>1
  <2>2. ASSUME NEW a \in R PROVE f[a].to = NoAddr /\ f[a].age = age[a] /\ f[a].done = no
    <3> DEFINE x == age[a]
    <3>1. f[a] = [to |-> NoAddr, age |-> x, done |-> no]
      BY <1>1
    <3> HIDE DEF x
    <3>2. f[a].to = NoAddr /\ f[a].age = x /\ f[a].done = no
      BY ONLY <3>1
    <3> QED BY <3>2 DEF x
  <2> QED BY <2>1, <2>2
<1>3. f = [a \in R |-> [to |-> f[a].to, age |-> f[a].age, done |-> f[a].done]]
  <2>1. \A a \in R : [to |-> NoAddr, age |-> age[a], done |-> no]
                       = [to |-> f[a].to, age |-> f[a].age, done |-> f[a].done]
    BY <1>2
  <2> QED BY <1>1, <2>1
<1>4. EntriesOK(f)
  BY <1>0, <1>2 DEF EntriesOK
<1> QED BY <1>0, <1>2, <1>3, <1>4

\* Dead old pages are freed, and live ones selected for relocation.
LEMMA OldSelectStep ==
  ASSUME IInv, OldSelect
  PROVE  IInv' /\ KeepsQualities
<1> DEFINE relocatable == {a \in PagesOf("old") : ~page[a].allocating}
           live == relocatable \cap old.marked
           dead == relocatable \ live
<1>1. PICK R \in SUBSET live :
        old' = [old EXCEPT !.stage = "selected", !.fwd = Installed(R, [a \in R |-> "old"])]
  BY DEF OldSelect
<1>2. /\ old.stage = "complete"
      /\ page' = [a \in Addr |-> IF a \in dead THEN FreePage ELSE page[a]]
      /\ remset' = [current |-> remset.current \ dead, previous |-> remset.previous \ dead]
      /\ UNCHANGED <<color, young, worker>>
  BY DEF OldSelect
<1>3. /\ \A a \in dead : a \in Addr /\ IsOld(a) /\ ~page[a].allocating /\ a \notin old.marked
      /\ \A a \in R : a \in Addr \ dead /\ IsOld(a) /\ ~page[a].allocating
  BY DEF PagesOf, IsOld
<1> HIDE DEF dead, live, relocatable
<1>4. PageInv' /\ KeepsQualities /\ Kept(dead) /\ \A a \in dead \cap Addr : ~IsYoung(a)
  <2>1. \A a \in dead : page[a].age # "free" /\ ~IsYoung(a)
    BY <1>3 DEF IsOld, IsYoung
  <2>2. dead \subseteq Addr
    BY <1>3
  <2> QED BY <1>2, <1>3, <2>1, <2>2, FreedPages, NothingHealed DEF IInv
<1>5. YoungInv'
  BY <1>2, <1>4, YoungKept
<1> DEFINE f == Installed(R, [a \in R |-> "old"])
<1>6. /\ DOMAIN f = R /\ EntriesOK(f)
      /\ f = [a \in DOMAIN f |-> [to |-> f[a].to, age |-> f[a].age, done |-> f[a].done]]
      /\ \A a \in R : f[a].to = NoAddr /\ f[a].age = "old" /\ ~f[a].done
  <2> DEFINE age == [a \in R |-> "old"]
  <2>1. R \subseteq Addr /\ \A a \in R : age[a] = "old"
    BY <1>3
  <2> HIDE DEF age
  <2>2. f = Installed(R, age)
    BY DEF f, age
  <2> HIDE DEF f
  <2>3. /\ DOMAIN f = R /\ EntriesOK(f)
        /\ f = [a \in DOMAIN f |-> [to |-> f[a].to, age |-> f[a].age, done |-> f[a].done]]
        /\ \A a \in R : f[a].to = NoAddr /\ f[a].age = age[a] /\ ~f[a].done
    BY <2>1, <2>2, Installs
  <2> QED BY <2>1, <2>3
<1> HIDE DEF f
<1>7. /\ old' = [stage |-> "selected", major |-> old.major, marked |-> old.marked,
                 todo |-> old.todo, flushed |-> old.flushed, flipped |-> old.flipped, fwd |-> f]
      /\ old'.stage = "selected" /\ old'.marked = old.marked /\ old'.fwd = f
  <2>1. old = [stage |-> old.stage, major |-> old.major, marked |-> old.marked,
               todo |-> old.todo, flushed |-> old.flushed, flipped |-> old.flipped,
               fwd |-> old.fwd]
    BY DEF IInv, OldInv, IsGeneration
  <2>2. old' = [old EXCEPT !.stage = "selected", !.fwd = f]
    BY <1>1 DEF f
  <2> QED BY <2>1, <2>2
<1>8. OldInv'
  <2>1. IsGeneration(old')
    <3>1. old' = [stage |-> old'.stage, major |-> old'.major, marked |-> old'.marked,
                  todo |-> old'.todo, flushed |-> old'.flushed, flipped |-> old'.flipped,
                  fwd |-> old'.fwd]
      BY <1>7
    <3>2. R \subseteq Addr
      BY <1>3
    <3> QED BY <1>6, <1>7, <3>1, <3>2 DEF IsGeneration
  <2>2. ASSUME NEW a \in R
        PROVE  IsOld(a)' /\ ~page'[a].allocating
    BY <1>3, <1>4, PagesKept DEF Kept
  <2>3. \A a \in DOMAIN old'.fwd : old'.fwd[a].to = NoAddr /\ old'.fwd[a].age = "old" /\ a \in R
    BY <1>6, <1>7
  <2> QED BY <1>7, <2>1, <2>2, <2>3, AddrAssumption DEF OldInv, IsNewOld
<1>9. RemsetInv'
  <2>1. \A q \in (remset.current \cup remset.previous) \cap Addr : q \notin dead => IsOld(q)'
    BY <1>4, PagesKept DEF IInv, RemsetInv
  <2>2. /\ remset' = [current |-> remset'.current, previous |-> remset'.previous]
        /\ remset'.current = remset.current \ dead /\ remset'.previous = remset.previous \ dead
    BY <1>2
  <2> QED BY <2>1, <2>2 DEF RemsetInv
<1>10. WorkersInv'
  <2>1. \A w : Scanning(w) => w.p \notin dead \cap Addr
    BY <1>2, <1>3 DEF Scanning, IsPhaseMark
  <2> QED BY <1>2, <1>4, <1>7, <2>1, WorkersKept
<1> QED BY <1>4, <1>5, <1>8, <1>9, <1>10 DEF IInv

\* Dead young pages are freed, live ones selected for relocation or aged where
\* they are, with their fields made store good if they are old from then on.
LEMMA YoungSelectStep ==
  ASSUME IInv, YoungSelect
  PROVE  IInv' /\ KeepsQualities
<1> DEFINE relocatable == {a \in PagesOf("young") : ~page[a].allocating}
           live == relocatable \cap young.marked
<1>1. PICK R \in SUBSET live, age \in [live -> {"young", "old"}] :
        /\ page' = [a \in Addr |->
             IF a \in live
             THEN [page[a] EXCEPT
                     !.field = IF age[a] = "old" THEN PromoteBarrier(@) ELSE @,
                     !.age = IF a \in R THEN @ ELSE age[a],
                     !.allocating = a \notin R]
             ELSE IF a \in relocatable THEN FreePage ELSE page[a]]
        /\ young' = [young EXCEPT !.stage = "selected", !.fwd = Installed(R, age),
                       !.flipped = {a \in live \ R : age[a] = "old"}]
  BY DEF YoungSelect
<1>2. young.stage = "reset" /\ UNCHANGED <<color, old, remset, worker>>
  BY DEF YoungSelect
<1>3. /\ live \subseteq relocatable /\ R \subseteq live
      /\ \A a \in relocatable : a \in Addr /\ IsYoung(a) /\ ~IsOld(a) /\ ~page[a].allocating
      /\ \A a \in live : age[a] \in {"young", "old"}
  BY DEF PagesOf, IsYoung, IsOld
<1> DEFINE Field(a) == IF age[a] = "old" THEN PromoteBarrier(page[a].field) ELSE page[a].field
<1> HIDE DEF relocatable, live
<1>4. \A a \in live : /\ page'[a] = [age |-> IF a \in R THEN page[a].age ELSE age[a],
                                    allocating |-> a \notin R,
                                    obj |-> page[a].obj, field |-> Field(a)]
  <2> SUFFICES ASSUME NEW a \in live
               PROVE  page'[a] = [age |-> IF a \in R THEN page[a].age ELSE age[a],
                                  allocating |-> a \notin R,
                                  obj |-> page[a].obj, field |-> Field(a)]
    OBVIOUS
  <2>1. ASSUME NEW q, NEW r, NEW x, NEW y, NEW z,
               q = [age |-> q.age, allocating |-> q.allocating, obj |-> q.obj, field |-> q.field],
               r = [q EXCEPT !.field = x, !.age = y, !.allocating = z]
        PROVE  r = [age |-> y, allocating |-> z, obj |-> q.obj, field |-> x]
    BY <2>1
  <2>2. page[a] = [age |-> page[a].age, allocating |-> page[a].allocating, obj |-> page[a].obj,
                   field |-> page[a].field]
    BY <1>3 DEF IInv, PageInv
  <2>3. page'[a] = [page[a] EXCEPT !.field = Field(a),
                      !.age = IF a \in R THEN page[a].age ELSE age[a],
                      !.allocating = a \notin R]
    <3>1. a \in Addr
      BY <1>3
    <3> HIDE DEF Field
    <3> QED BY <1>1, <3>1 DEF Field
  <2> QED BY <2>1, <2>2, <2>3
<1>5. ASSUME NEW a \in live
      PROVE  /\ page'[a].age = IF a \in R THEN page[a].age ELSE age[a]
             /\ page'[a].allocating <=> a \notin R
             /\ page'[a].allocating \in BOOLEAN
             /\ page'[a].obj = page[a].obj /\ page'[a].field = Field(a)
             /\ page'[a] = [age |-> page'[a].age, allocating |-> page'[a].allocating,
                            obj |-> page'[a].obj, field |-> page'[a].field]
  <2> DEFINE g == IF a \in R THEN page[a].age ELSE age[a]
             l == a \notin R
             o == page[a].obj
             h == Field(a)
  <2>1. page'[a] = [age |-> g, allocating |-> l, obj |-> o, field |-> h] /\ l \in BOOLEAN
    BY <1>4
  <2> HIDE DEF g, l, o, h
  <2>2. page'[a].age = g /\ page'[a].allocating = l /\ page'[a].obj = o /\ page'[a].field = h
    BY <2>1
  <2> QED BY <2>1, <2>2 DEF g, l, o, h
<1> HIDE DEF Field
<1>6. /\ \A a \in relocatable \ live : page'[a] = FreePage
      /\ \A a \in Addr \ relocatable : page'[a] = page[a]
  BY <1>1, <1>3
<1>7. /\ FreePage = [age |-> FreePage.age, allocating |-> FreePage.allocating,
                     obj |-> FreePage.obj, field |-> FreePage.field]
      /\ FreePage.age = "free" /\ FreePage.allocating = FALSE /\ FreePage.obj = NoObject
  BY DEF FreePage
<1>8. \A a \in relocatable : page[a].age = "young" /\ page[a].obj # NoObject
  BY <1>3 DEF IInv, PageInv, IsYoung
<1>9. PageInv'
  <2>1. ASSUME NEW a \in Addr
        PROVE  /\ page'[a] = [age |-> page'[a].age, allocating |-> page'[a].allocating,
                              obj |-> page'[a].obj, field |-> page'[a].field]
               /\ page'[a].age \in {"free", "young", "old"}
               /\ page'[a].allocating \in BOOLEAN
               /\ page'[a].age = "free" <=> page'[a].obj = NoObject
    <3>1. CASE a \in live
      BY <1>3, <1>5, <1>8, <3>1
    <3>2. CASE a \in relocatable \ live
      BY <1>6, <1>7, <3>2
    <3>3. CASE a \in Addr \ relocatable
      BY <1>6, <3>3 DEF IInv, PageInv
    <3> QED BY <1>3, <3>1, <3>2, <3>3
  <2>2. page' = [a \in Addr |-> [age |-> page'[a].age, allocating |-> page'[a].allocating,
                                 obj |-> page'[a].obj, field |-> page'[a].field]]
    <3>1. page' = [a \in Addr |-> page'[a]]
      BY <1>1
    <3>2. \A a \in Addr : page'[a] = [age |-> page'[a].age, allocating |-> page'[a].allocating,
                                      obj |-> page'[a].obj, field |-> page'[a].field]
      BY <2>1
    <3> QED BY ONLY <3>1, <3>2
  <2>3. color' \in Colors
    BY <1>2 DEF IInv, PageInv
  <2> QED BY <2>1, <2>2, <2>3 DEF PageInv
<1>10. KeepsQualities
  <2>1. \A x : Monotonic(x, x, color)
    BY DEF Monotonic, IsMarkedFinalizable
  <2>2. \A x : Monotonic(x, PromoteBarrier(x), color)
    <3> SUFFICES ASSUME NEW x PROVE Monotonic(x, PromoteBarrier(x), color)
      OBVIOUS
    <3>1. color \in Colors
      BY DEF IInv, PageInv
    <3>2. Monotonic(x, StoreGood(MakeLoadGood(x), color), color)
      BY <3>1, StoreGoodIsGood, MarksImprove
    <3> QED BY <2>1, <3>2 DEF PromoteBarrier
  <2>3. ASSUME NEW a \in live PROVE Monotonic(page[a].field, page'[a].field, color)
    BY <1>5, <2>1, <2>2 DEF Field
  <2>4. \A a \in relocatable \ live : page'[a].obj # page[a].obj
    BY <1>6, <1>7, <1>8
  <2> QED BY <1>3, <1>6, <2>1, <2>3, <2>4 DEF KeepsQualities
<1>11. Kept(relocatable)
  BY <1>2, <1>3, <1>6 DEF Kept, Improved
<1>12. OldInv'
  <2>1. old.stage # "remap"
    BY <1>2 DEF IInv, OldInv
  <2> QED BY <1>2, <1>3, <1>11, <2>1, OldKept
<1>13. RemsetInv'
  BY <1>2, <1>3, <1>11, PagesKept DEF IInv, RemsetInv
<1>14. WorkersInv'
  <2>1. worker.young.kind \in {"none", "follow young"} /\ worker.old.kind \in {"none", "follow old"}
    BY <1>2 DEF IInv, WorkersInv, OldInv
  <2> QED BY <1>2, <2>1 DEF IInv, WorkersInv
<1> DEFINE f == Installed(R, age)
           flipped == {a \in live \ R : age[a] = "old"}
<1>15. /\ DOMAIN f = R /\ EntriesOK(f)
       /\ f = [a \in DOMAIN f |-> [to |-> f[a].to, age |-> f[a].age, done |-> f[a].done]]
       /\ \A a \in R : f[a].to = NoAddr
  <2>1. R \subseteq Addr /\ \A a \in R : age[a] \in {"young", "old"}
    BY <1>3
  <2>2. f = Installed(R, age)
    BY DEF f
  <2> HIDE DEF f
  <2> QED BY <2>1, <2>2, Installs
<1> HIDE DEF f, flipped
<1>16. /\ young' = [stage |-> "selected", major |-> young.major, marked |-> young.marked,
                    todo |-> young.todo, flushed |-> young.flushed, flipped |-> flipped, fwd |-> f]
       /\ young'.stage = "selected" /\ young'.flipped = flipped /\ young'.fwd = f
  <2>1. young = [stage |-> young.stage, major |-> young.major, marked |-> young.marked,
                 todo |-> young.todo, flushed |-> young.flushed, flipped |-> young.flipped,
                 fwd |-> young.fwd]
    BY DEF IInv, YoungInv, IsGeneration
  <2>2. young' = [young EXCEPT !.stage = "selected", !.fwd = f, !.flipped = flipped]
    BY <1>1 DEF f, flipped
  <2> QED BY <2>1, <2>2
<1>17. YoungInv'
  <2>1. IsGeneration(young')
    <3>1. young' = [stage |-> young'.stage, major |-> young'.major, marked |-> young'.marked,
                    todo |-> young'.todo, flushed |-> young'.flushed, flipped |-> young'.flipped,
                    fwd |-> young'.fwd]
      BY <1>16
    <3>2. R \subseteq Addr
      BY <1>3
    <3> QED BY <1>15, <1>16, <3>1, <3>2 DEF IsGeneration
  <2>2. ASSUME NEW a \in R PROVE IsYoung(a)' /\ ~page'[a].allocating
    BY <1>3, <1>5, <1>8 DEF IsYoung
  <2>3. \A a \in DOMAIN young'.fwd : young'.fwd[a].to = NoAddr /\ a \in R
    BY <1>15, <1>16
  <2>4. \A p \in young'.flipped : p \in Addr => page'[p].age = "old" /\ page'[p].allocating
    BY <1>5, <1>16 DEF flipped
  <2> QED BY <1>16, <2>1, <2>2, <2>3, <2>4, AddrAssumption DEF YoungInv, IsNewOld, IsOld
<1> QED BY <1>9, <1>10, <1>12, <1>13, <1>14, <1>17 DEF IInv

LEMMA ForgetStep ==
  ASSUME IInv, NEW x \in Slots, Forget(x)
  PROVE  IInv' /\ UNCHANGED page
<1>1. UNCHANGED <<color, page, young, old, remset, worker>>
  BY DEF Forget
<1>2. Healing(page') /\ Continues(young, young') /\ Continues(old, old') /\ RemsetGrows
  BY <1>1, NothingHealed, GenerationRests, RemsetRests DEF IInv, YoungInv, OldInv
<1> QED BY <1>1, <1>2, HealingStep

-----------------------------------------------------------------------------
(* All steps.                                                              *)

LEMMA IInitially == Init => IInv
<1> SUFFICES ASSUME Init PROVE IInv
  OBVIOUS
<1>1. PICK s \in Situations :
        /\ color = InitialColor
        /\ page = [a \in Addr |->
                     IF a \notin DOMAIN s.age THEN FreePage
                     ELSE [age |-> s.age[a], allocating |-> TRUE, obj |-> s.obj[a],
                           field |-> IF s.age[a] = "old" THEN Settled(s.field[a])
                                     ELSE StoreGood(s.field[a], InitialColor)]]
        /\ young = IdleGeneration /\ old = IdleGeneration
        /\ remset = [previous |-> {}, current |->
                       {a \in DOMAIN s.age : /\ s.age[a] = "old" /\ s.field[a] # NoAddr
                                             /\ s.age[s.field[a]] = "young"}]
        /\ worker = [young |-> NoBarrier, old |-> NoBarrier]
  BY DEF Init
<1>2. /\ NoObject \notin Objects
      /\ \A a \in DOMAIN s.age : s.age[a] \in {"young", "old"} /\ s.obj[a] \in Objects
  BY SituationsAssumption
<1> DEFINE F(a) == IF s.age[a] = "old" THEN Settled(s.field[a])
                   ELSE StoreGood(s.field[a], InitialColor)
<1>3. page = [a \in Addr |-> IF a \notin DOMAIN s.age THEN FreePage
                             ELSE [age |-> s.age[a], allocating |-> TRUE, obj |-> s.obj[a],
                                   field |-> F(a)]]
  BY <1>1
<1> HIDE DEF F
<1>4. ASSUME NEW a \in Addr
      PROVE  /\ page[a] = [age |-> page[a].age, allocating |-> page[a].allocating,
                           obj |-> page[a].obj, field |-> page[a].field]
             /\ page[a].age = IF a \in DOMAIN s.age THEN s.age[a] ELSE "free"
             /\ page[a].allocating \in BOOLEAN
             /\ page[a].obj = IF a \in DOMAIN s.age THEN s.obj[a] ELSE NoObject
  BY <1>3 DEF FreePage
<1>5. PageInv
  <2>1. color \in Colors
    BY <1>1 DEF InitialColor, Colors, Bit
  <2>2. page = [a \in Addr |-> page[a]]
    BY <1>3
  <2>3. page = [a \in Addr |-> [age |-> page[a].age, allocating |-> page[a].allocating,
                                obj |-> page[a].obj, field |-> page[a].field]]
    <3>1. \A a \in Addr : page[a] = [age |-> page[a].age, allocating |-> page[a].allocating,
                                     obj |-> page[a].obj, field |-> page[a].field]
      BY <1>4
    <3> QED BY ONLY <2>2, <3>1
  <2>4. ASSUME NEW a \in Addr
        PROVE  /\ page[a].age \in {"free", "young", "old"}
               /\ page[a].allocating \in BOOLEAN
               /\ page[a].age = "free" <=> page[a].obj = NoObject
    <3>1. /\ page[a].age = IF a \in DOMAIN s.age THEN s.age[a] ELSE "free"
          /\ page[a].allocating \in BOOLEAN
          /\ page[a].obj = IF a \in DOMAIN s.age THEN s.obj[a] ELSE NoObject
      BY <1>4
    <3>2. CASE a \in DOMAIN s.age
      BY <1>2, <3>1, <3>2
    <3>3. CASE a \notin DOMAIN s.age
      BY <3>1, <3>3
    <3> QED BY <3>2, <3>3
  <2> QED BY <2>1, <2>3, <2>4 DEF PageInv
<1>6. /\ IdleGeneration = [stage |-> IdleGeneration.stage, major |-> IdleGeneration.major,
                           marked |-> IdleGeneration.marked, todo |-> IdleGeneration.todo,
                           flushed |-> IdleGeneration.flushed,
                           flipped |-> IdleGeneration.flipped, fwd |-> IdleGeneration.fwd]
      /\ IdleGeneration.flipped = {} /\ IdleGeneration.stage = "idle"
      /\ IdleGeneration.fwd = [a \in {} |-> NoAddr]
  BY DEF IdleGeneration
<1>7. IsGeneration(IdleGeneration) /\ DOMAIN IdleGeneration.fwd = {}
  <2> DEFINE f == [a \in {} |-> NoAddr]
  <2>1. DOMAIN f = {} /\ f = [a \in DOMAIN f |-> [to |-> f[a].to, age |-> f[a].age, done |-> f[a].done]]
    OBVIOUS
  <2>2. EntriesOK(f)
    BY <2>1 DEF EntriesOK
  <2> HIDE DEF f
  <2>3. IdleGeneration.fwd = f
    BY <1>6 DEF f
  <2> QED BY <1>6, <2>1, <2>2, <2>3 DEF IsGeneration
<1>8. YoungInv /\ OldInv
  BY <1>1, <1>6, <1>7 DEF YoungInv, OldInv
<1>9. RemsetInv
  BY <1>1, <1>4 DEF RemsetInv, IsOld
<1>10. WorkersInv
  BY <1>1 DEF WorkersInv, NoBarrier
<1> QED BY <1>5, <1>8, <1>9, <1>10 DEF IInv

LEMMA IStep ==
  ASSUME IInv, [Next]_vars
  PROVE  IInv' /\ KeepsQualities
<1>0. PageInv
  BY DEF IInv
<1>1. CASE Mutator
  <2>1. ASSUME NEW x \in Slots, NEW y \in Slots, Load(x, y) PROVE IInv' /\ KeepsQualities
    BY <1>0, <2>1, LoadHeals, HealingIsKeeping
  <2>2. ASSUME NEW x \in Slots, NEW a, Store(x, a) PROVE IInv' /\ KeepsQualities
    BY <1>0, <2>2, StoreHeals, HealingIsKeeping
  <2>3. ASSUME NEW x \in Slots, New(x) PROVE IInv' /\ KeepsQualities
    BY <2>3, NewStep
  <2>4. ASSUME NEW x \in Slots, Forget(x) PROVE IInv' /\ KeepsQualities
    BY <1>0, <2>4, ForgetStep, HealingIsKeeping
  <2>5. ASSUME WakeUp PROVE IInv' /\ KeepsQualities
    BY <1>0, <2>5, WakeUpHeals, HealingIsKeeping
  <2> QED BY <1>1, <2>1, <2>2, <2>3, <2>4, <2>5 DEF Mutator
<1>2. CASE YoungCollection
  <2>1. ASSUME NEW major \in BOOLEAN, YoungMarkStart(major) PROVE IInv' /\ KeepsQualities
    BY <2>1, MarkStartStep
  <2>2. ASSUME NEW p \in Addr, FollowYoung(p) \/ Scan(p) \/ FlipPromoted(p)
        PROVE  IInv' /\ KeepsQualities
    <3>1. UNCHANGED page
      BY <2>2 DEF FollowYoung, Scan, FlipPromoted
    <3> QED BY <1>0, <2>2, <3>1, FollowYoungStep, ScanStep, FlipPromotedStep, HealingIsKeeping
  <2>3. ASSUME NEW p \in Addr, FinishYoung(p) PROVE IInv' /\ KeepsQualities
    BY <1>0, <2>3, FinishPromotedStep, FinishSurvivorStep, HealingIsKeeping
  <2>4. ASSUME NEW p \in Addr, Promoted(p) PROVE IInv' /\ KeepsQualities
    BY <2>4, PromotedStep
  <2>5. ASSUME NEW a \in Addr, NEW b \in Addr, CopyYoung(a, b) PROVE IInv' /\ KeepsQualities
    BY <2>5, CopyYoungStep
  <2>6. ASSUME YoungFollowed \/ Scanned \/ FlipRemembered PROVE IInv' /\ KeepsQualities
    BY <1>0, <2>6, WorkerHeals, HealingIsKeeping
  <2>7. ASSUME YoungTerminate PROVE IInv' /\ KeepsQualities
    BY <1>0, <2>7, TerminateStep, HealingIsKeeping
  <2>8. ASSUME YoungMarkEnd \/ YoungReset \/ YoungRelocateStart \/ YoungEnd
        PROVE  IInv' /\ KeepsQualities
    BY <1>0, <2>8, YoungPhaseStep, HealingIsKeeping
  <2>9. ASSUME YoungSelect PROVE IInv' /\ KeepsQualities
    BY <2>9, YoungSelectStep
  <2> QED BY <1>2, <2>1, <2>2, <2>3, <2>4, <2>5, <2>6, <2>7, <2>8, <2>9 DEF YoungCollection
<1>3. CASE OldCollection
  <2>1. ASSUME NEW p \in Addr, FollowOld(p) \/ RemapRoots(p) PROVE IInv' /\ KeepsQualities
    <3>1. UNCHANGED page
      BY <2>1 DEF FollowOld, RemapRoots
    <3> QED BY <1>0, <2>1, <3>1, FollowOldStep, RemapRootsStep, HealingIsKeeping
  <2>2. ASSUME NEW p \in Addr, FinishOld(p) PROVE IInv' /\ KeepsQualities
    BY <2>2, FinishOldStep
  <2>3. ASSUME NEW a \in Addr, NEW b \in Addr, CopyOld(a, b) PROVE IInv' /\ KeepsQualities
    BY <2>3, CopyOldStep
  <2>4. ASSUME OldFollowed \/ RootsRemapped PROVE IInv' /\ KeepsQualities
    BY <1>0, <2>4, WorkerHeals, HealingIsKeeping
  <2>5. ASSUME OldTerminate PROVE IInv' /\ KeepsQualities
    BY <1>0, <2>5, TerminateStep, HealingIsKeeping
  <2>6. ASSUME OldMark \/ OldMarkEnd \/ OldRemapStart \/ OldRelocateStart \/ OldEnd
        PROVE  IInv' /\ KeepsQualities
    BY <1>0, <2>6, OldPhaseStep, HealingIsKeeping
  <2>7. ASSUME OldSelect PROVE IInv' /\ KeepsQualities
    BY <2>7, OldSelectStep
  <2> QED BY <1>3, <2>1, <2>2, <2>3, <2>4, <2>5, <2>6, <2>7 DEF OldCollection
<1>4. CASE UNCHANGED vars
  <2>1. UNCHANGED <<color, page, young, old, remset, worker>>
    BY <1>4 DEF vars
  <2>2. Healing(page') /\ Continues(young, young') /\ Continues(old, old') /\ RemsetGrows
    BY <2>1, NothingHealed, GenerationRests, RemsetRests DEF IInv, YoungInv, OldInv
  <2> QED BY <1>0, <2>1, <2>2, HealingStep, HealingIsKeeping
<1> QED BY <1>1, <1>2, <1>3, <1>4 DEF Next

\* Whatever barriers, stores and collections meet at a field, and wherever a
\* worker stands between reading it and healing it, no step takes from a pointer
\* what somebody has established (ZBarrier::assert_transition_monotonicity).
THEOREM HealingMonotonic == Spec => HealingIsMonotonic
<1>1. Init => IInv
  BY IInitially
<1>2. IInv /\ [Next]_vars => IInv'
  BY IStep
<1>3. IInv /\ [Next]_vars =>
        [\A p \in Addr : page[p].obj = page'[p].obj
           => Monotonic(page[p].field, page'[p].field, color)]_vars
  BY IStep DEF KeepsQualities
<1> QED BY <1>1, <1>2, <1>3, PTL DEF Spec, HealingIsMonotonic

=============================================================================


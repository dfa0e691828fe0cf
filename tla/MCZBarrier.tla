----------------------------- MODULE MCZBarrier -----------------------------
(***************************************************************************)
(* Small heaps for ZBarrier, and the graph of objects the program sees.    *)
(***************************************************************************)
EXTENDS ZBarrier, TLC

CONSTANTS x1, x2

\* The pages from address 1 on, the locals, and the bounds on operations and
\* young collections.
Situation(age, field, l1, l2, ops, collections) ==
  [age |-> age, obj |-> [a \in DOMAIN age |-> a], field |-> field,
   local |-> (x1 :> l1 @@ x2 :> l2),
   bounds |-> [ops |-> ops, young |-> collections, major |-> TRUE]]

None == <<NoAddr, NoAddr>>

MCSituations ==
  { \* The pointer from old to young is stored while collections start and end,
    Situation(<<"old", "young">>, None, 1, 2, 1, 2),
    \* and is the only one left to its object.
    Situation(<<"old", "young">>, None, 1, 2, 2, 1),
    \* It is there from the beginning, and nobody looks at it.
    Situation(<<"old", "young">>, <<2, NoAddr>>, 1, NoAddr, 0, 3),
    \* Both objects get promoted, one before the other,
    Situation(<<"young", "young">>, <<2, NoAddr>>, 1, NoAddr, 0, 2),
    \* while the program uses them.
    Situation(<<"young", "young">>, <<2, NoAddr>>, 1, NoAddr, 1, 1),
    \* The program takes an object out of the snapshot of old marking.
    Situation(<<"old", "old">>, <<2, NoAddr>>, 1, NoAddr, 2, 1),
    \* Pointers stay bad for both generations, and addresses are used again.
    Situation(<<"old", "old">>, <<2, NoAddr>>, 1, NoAddr, 1, 2) }

\* New pages are given the lowest free address.
LowestFirst ==
  \A a \in Addr : page[a].age = "free" /\ page'[a].age # "free" =>
    \A b \in Addr : b < a => page[b].age # "free"

ObjectAt(a) == IF a = NoAddr THEN NoObject ELSE page[a].obj

\* The graph the program sees.
View == [local |-> [x \in Slots |-> ObjectAt(LocalTarget(x))],
         edge |-> {<<page[a].obj, ObjectAt(Target(page[a].field))>> : a \in Reachable},
         ops |-> bounds.ops]

Graph == INSTANCE ObjectGraph WITH Nil <- NoObject, graph <- View

\* The program sees only what it does itself: a load through any of its
\* pointers finds the object last stored there, whatever has been marked,
\* promoted, moved or freed, and by whom, in between (ZBarrier::barrier,
\* ZStoreBarrierBuffer, ZGenerationYoung::collect, ZGenerationOld::collect).
ImplementsGraph == Graph!Spec
=============================================================================

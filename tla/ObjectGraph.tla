----------------------------- MODULE ObjectGraph -----------------------------
(***************************************************************************)
(* What the barriers and the collector promise the program together: a     *)
(* graph of objects and local variables that only the program changes.     *)
(* Where an object is, which generation it belongs to and what colour a    *)
(* pointer has cannot be seen; what the program cannot reach is gone.      *)
(***************************************************************************)
EXTENDS Naturals, FiniteSets

CONSTANTS Objects, Slots, Nil

VARIABLE graph   \* local: the object each local variable refers to,
                 \* edge: reachable objects, each with what its field refers to,
                 \* ops: how many operations the program has left

\* Everything that can be reached from a set of objects: paths are no longer
\* than there are objects.
Closure(S, edge) ==
  LET follow[T \in SUBSET Objects] == T \cup {o \in Objects : \E t \in T : <<t, o>> \in edge}
      reach[n \in 0..Cardinality(Objects)] == IF n = 0 THEN S ELSE follow[reach[n - 1]]
  IN  reach[Cardinality(Objects)]

Live(g) == Closure({g.local[x] : x \in Slots} \ {Nil}, g.edge)

\* What cannot be reached is gone.
Prune(g) == [g EXCEPT !.edge = {e \in @ : e[1] \in Live(g)}]

Assign(g, x, o) == Prune([g EXCEPT !.local[x] = o])

\* The object o refers to v, whether it is new or did not.
Link(edge, o, v) == {e \in edge : e[1] # o} \cup {<<o, v>>}

\* One operation less: a step of the collector cannot pass for one.
Use(g) == [g EXCEPT !.ops = @ - 1]

Load(g, h, x, y) == \E e \in g.edge : e[1] = g.local[y] /\ h = Assign(g, x, e[2])

Store(g, h, x, v) ==
  g.local[x] # Nil /\ h = Prune([g EXCEPT !.edge = Link(@, g.local[x], v)])

New(g, h, x, o) ==
  o \notin Live(g) /\ h = Assign([g EXCEPT !.edge = Link(@, o, Nil)], x, o)

\* The program takes the graph from g to h, or the collector does something.
Step(g, h) ==
  \/ h = g
  \/ \E x, y \in Slots : Load(Use(g), h, x, y) \/ Store(Use(g), h, x, g.local[y])
  \/ \E x \in Slots : Store(Use(g), h, x, Nil) \/ h = Assign(Use(g), x, Nil)
  \/ \E x \in Slots, o \in Objects : New(Use(g), h, x, o)

Init == graph = Prune(graph)

Next == \E g \in {graph}, h \in {graph'} : Step(g, h)

Spec == Init /\ [][Next]_graph
=============================================================================

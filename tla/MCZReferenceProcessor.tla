------------------------- MODULE MCZReferenceProcessor -------------------------
(* Every case has two threads and two workers.  References are named r, s,   *)
(* t and f, objects a and b, a weak root z.                                  *)
EXTENDS ZReferenceProcessor, TLC
Case(type, referentOf, locals, ops) ==
  [type |-> type, edges |-> {}, young |-> {}, roots |-> DOMAIN referentOf \ DOMAIN type,
   referent |-> referentOf, locals |-> locals, ops |-> ops, cycles |-> 1, youngs |-> 0]
Cases ==
  {\* two weak references to one object
   Case([r |-> "weak", s |-> "weak"], [r |-> "a", s |-> "a"], {"r", "s"}, 3),
   \* a soft reference and a weak root
   Case([r |-> "soft"], [r |-> "a", z |-> "a"], {"r"}, 3),
   \* a finalizable object with another behind it
   [Case([f |-> "final", r |-> "weak"], [f |-> "a", r |-> "b", z |-> "b"], {"f", "r"}, 2)
      EXCEPT !.edges = {<<"a", "b">>}, !.youngs = 1, !.cycles = 2],
   \* with a weak reference behind it
   Case([f |-> "final", r |-> "weak", s |-> "weak"], [f |-> "r", r |-> "a", s |-> "a"],
        {"f", "s"}, 2),
   \* three references, a phantom one among them, to process
   [Case([r |-> "weak", s |-> "phantom", t |-> "weak"], [r |-> "a", s |-> "b", t |-> "y"],
         {"r", "s", "t"}, 1) EXCEPT !.young = {"y"}]}
Symmetry == Permutations(Threads) \cup Permutations(Workers)
=============================================================================

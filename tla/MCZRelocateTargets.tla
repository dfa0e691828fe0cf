------------------------- MODULE MCZRelocateTargets -------------------------
(* Constants of the TLC runs of ZRelocateTargets: three pages to relocate, *)
(* one of them promoted, two recyclable pages and two free ones.           *)
EXTENDS ZRelocateTargets, TLC

CONSTANTS f1, f2, f3, r1, r2, p1, p2

MCPages == {f1, f2, f3, r1, r2, p1, p2}
MCFromPages == {f1, f2, f3}
MCLayout == f1 :> <<3, 1>> @@ f2 :> <<2>> @@ f3 :> <<1>>
MCToAge == f1 :> "survivor" @@ f2 :> "survivor" @@ f3 :> "old"
MCRecyclable == <<r1, r2>>
MCFreeSpace == [p \in MCPages |-> IF p = r1 THEN 1 ELSE IF p = r2 THEN 2 ELSE 0]
=============================================================================

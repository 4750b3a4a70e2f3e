---------------------------- MODULE MCTableHeap ----------------------------
(* Rows that change in place and rows that grow, on pages that hold both   *)
(* kinds; each clause that raises does so beside rows that satisfy it.     *)
EXTENDS TableHeap

Clause(v1, v2, wide) == [v1 |-> v1, v2 |-> v2, wide |-> wide]
MCAsked ==
    {Insert("v1"), Insert("v2"), Scan,
     Delete(Clause("yes", Raises, "yes")),
     Update(Clause("yes", "no", "no"), Clause("wide", "v2", "wide")),
     Update(Clause(Raises, "yes", "no"), Clause("v1", "v1", "wide"))}
=============================================================================

--------------------------- MODULE MCSlottedPage ---------------------------
(* A page of a few cells, rows of one to three of them, two contents.      *)
EXTENDS SlottedPage

CONSTANTS Values, Lengths

RowCellsDef == {<<"row", v, k>> : v \in Values, k \in 1 .. 3}
RowsDef == {[k \in 1 .. n |-> <<"row", v, k>>] : v \in Values, n \in Lengths}
=============================================================================

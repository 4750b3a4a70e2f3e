---------------------------- MODULE MCCatalogDdl ----------------------------
(* Two tables and a catalog of two rows to a page.  Even: tables of two    *)
(* columns, each on a page of its own.  Uneven: tables of one and of two   *)
(* columns, so that the second may begin on one page and end on the next.  *)
EXTENDS CatalogDdl

CONSTANTS t1, t2

EvenColumns == [t \in {t1, t2} |-> 2]
UnevenColumns == [t \in {t1, t2} |-> IF t = t1 THEN 1 ELSE 2]
BothLayouts == {EvenColumns, UnevenColumns}
=============================================================================

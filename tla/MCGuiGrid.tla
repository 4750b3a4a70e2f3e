----------------------------- MODULE MCGuiGrid -----------------------------
(* Two tables, one of them in a second directory with its columns the     *)
(* other way round.                                                       *)
EXTENDS GuiGrid

MCLayouts == [one |-> [t |-> <<"a", "b">>, u |-> <<"a">>], two |-> [t |-> <<"b", "a">>]]
Row(a, b) == [a |-> a, b |-> b]
MCContents ==
    [one |-> [t |-> Row(1, 2) :> 2, u |-> [a |-> 1] :> 1],
     two |-> [t |-> Row(2, 1) :> 1]]
=============================================================================

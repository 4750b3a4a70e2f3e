---------------------------- MODULE MCRowCodec ----------------------------
(* The table and the literals of the codec runs.                          *)
EXTENDS RowCodec

MCColumns == <<[kind |-> "VARCHAR", width |-> 1], [kind |-> "VARCHAR", width |-> 2],
               [kind |-> "INT", width |-> 1]>>

(* "", one and two letters, a two-byte character, NUL alone, at the end, in
   front, and three letters, which fit no column. *)
MCStrings == {<<>>, <<1>>, <<1, 1>>, <<2, 3>>, <<0>>, <<1, 0>>, <<0, 1>>, <<1, 1, 1>>}
=============================================================================

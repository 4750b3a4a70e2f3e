------------------------------- MODULE MCQuery -------------------------------
(***************************************************************************)
(* Query for TLC: a table of two INT columns and a string, and statements  *)
(* in families, each of which varies what one property is about.           *)
(***************************************************************************)
EXTENDS Query

MCIntMin == -2
MCColumns == <<"a", "b", "s">>
MCKinds == [a |-> "INT", b |-> "INT", s |-> "VARCHAR"]

A == Col("a")
B == Col("b")
S == Col("s")

(* 1 / a raises on some rows, 1 / 0 on all; SUM(a) has no place in WHERE;  *)
(* the last three are not conditions.                                      *)
Good ==
    { Binary(">", A, Number(0)), Binary("<=", B, A), Binary("=", S, Text(1)),
      Binary("=", Number(1), Number(1)), Binary(">", Text(0), Text(1)),
      Binary("!=", Binary("/", Number(1), A), Number(0)),
      Binary("=", Binary("/", Unary("-", Number(1)), Number(2)), Number(0)),
      Binary("=", Binary("/", Number(1), Number(0)), Unary("+", B)) }
Wrong ==
    { Binary("AND", Binary("=", A, Number(1)), Binary(">", Aggregate("SUM", A, FALSE), Number(0))),
      Unary("NOT", A), Binary("=", A, Text(1)), Binary("<", A, Float(1)),
      Binary("-", A, Number(1)) }
Compound ==
    { Binary(op, p, q) : op \in Logic, p \in Good, q \in Good }
    \cup { Unary("NOT", p) : p \in Good }
    \cup { Binary("!=", p, Binary("=", Number(1), Number(1))) : p \in Good }

Star == <<>>
Plain == { Star, <<B>>, <<S, A>>, <<B, Col("c")>> }
Orders == { <<>>, <<Asc("a")>>, <<Desc("b"), Asc("a")>>, <<Desc("s")>>, <<Asc("c")>> }

Filtering == { Select(Star, <<p>>, <<>>, <<>>, <<>>, <<>>) : p \in Good \cup Wrong \cup Compound }

Ordering ==
    { Select(items, where, <<>>, <<>>, order, limit) :
        items \in Plain, order \in Orders, limit \in {<<>>, <<0>>, <<2>>},
        where \in {<<>>, <<Binary(">", A, Number(0))>>,
                   <<Binary("!=", Binary("/", Number(1), A), Number(0))>>} }

Lists ==
    { Star, <<A>>, <<B>>, <<CountStar>>, <<A, Aggregate("SUM", B, FALSE)>>,
      <<A, Aggregate("AVG", Binary("-", B, Number(1)), FALSE), Aggregate("MIN", S, FALSE)>>,
      <<Aggregate("COUNT", B, TRUE), Aggregate("COUNT", B, FALSE)>>,
      <<Aggregate("MAX", Binary(">", A, B), FALSE)>>,
      <<Aggregate("SUM", S, FALSE)>> }
(* A constant operand decides the fifth whether or not B has a value, and *)
(* leaves the aggregate alone in the last.                                 *)
Never == Binary("=", Number(1), Number(2))
Havings ==
    { <<>>, <<Binary(">", CountStar, Number(1))>>, <<Binary("<", A, Number(1))>>,
      <<Binary(">", Aggregate("SUM", B, FALSE), Binary("-", Number(1), Number(1)))>>,
      <<Binary("AND", Binary(">", B, Number(1)), Never)>>,
      <<Binary("=", Binary("OR", Aggregate("MAX", Binary(">", A, B), FALSE), Never), Never)>> }
Grouping ==
    { Select(items, where, group, having, order, <<>>) :
        items \in Lists, group \in {<<>>, <<"a">>, <<"b">>, <<"a", "b">>, <<"b", "a">>},
        having \in Havings, order \in {<<>>, <<Asc("a")>>},
        where \in {<<>>, <<Binary("=", S, Text(1))>>} }

Wheres == { <<p>> : p \in Good } \cup { <<w>> : w \in Wrong } \cup {<<>>}
Sets ==
    { <<Assign("a", B), Assign("b", A)>>, <<Assign("b", Binary("+", A, B)), Assign("s", Text(2))>>,
      <<Assign("s", Text(3))>>, <<Assign("a", A), Assign("a", B)>>, <<Assign("s", A)>>,
      <<Assign("b", Aggregate("MAX", A, FALSE))>>, <<Assign("c", A)>> }
Writing ==
    { Delete(w) : w \in Wheres } \cup { Update(set, w) : set \in Sets, w \in Wheres }

Inserting ==
    { Insert(<<>>, <<Number(1), Unary("-", Number(1)), Text(1)>>),
      Insert(<<"s", "a", "b">>, <<Text(2), Number(0), Binary("*", Number(1), Number(2))>>),
      Insert(<<>>, <<Number(1), Binary("/", Number(1), Number(0)), Text(1)>>),
      Insert(<<>>, <<Number(9), Number(1), Text(1)>>),
      Insert(<<>>, <<Number(1), CountStar, Text(1)>>),
      Insert(<<>>, <<Number(1), Number(1), Aggregate("MIN", Text(1), FALSE)>>),
      Insert(<<>>, <<Number(1), A, Text(1)>>),
      Insert(<<>>, <<Number(1), Number(1), Text(3)>>),
      Insert(<<>>, <<Number(1), Number(1)>>),
      Insert(<<"a", "b">>, <<Number(1), Number(1)>>),
      Insert(<<"a", "b", "a">>, <<Number(1), Number(1), Text(1)>>) }

MCStatements == Filtering \cup Ordering \cup Grouping \cup Writing \cup Inserting

MCTables ==
    { <<>>,
      << <<0, 1, 1>> >>,
      << <<1, 2, 1>>, <<0, 1, 0>>, <<1, -1, 1>> >>,
      << <<2, 0, 1>>, <<-1, 0, 1>>, <<2, 1, 2>>, <<-1, 0, 0>> >> }
=============================================================================

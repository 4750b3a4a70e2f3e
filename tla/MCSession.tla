----------------------------- MODULE MCSession -----------------------------
(* The texts of the session runs.                                          *)
EXTENDS FrontEnd

CONSTANTS
    Fragments, \* how many lines a typed text has
    ShortText  \* the length of the texts that are taken all

MCWords == KEYWORDS \cup {"t", "a", "b", "x", "select", "Tables", "Exit", "exit"}
MCUpper == [w \in MCWords |-> CASE w = "select" -> "SELECT"
                                [] w = "Tables" -> "TABLES"
                                [] w \in {"exit", "Exit"} -> "EXIT"
                                [] OTHER -> w]
MCIntOf == [n \in {"0", "1", "3", "255", "256"} |->
              CASE n = "0" -> 0 [] n = "1" -> 1 [] n = "3" -> 3
                [] n = "255" -> 255 [] n = "256" -> 256]

RECURSIVE Spaced(_)
Spaced(lexemes) ==
    IF Len(lexemes) < 2 THEN lexemes
    ELSE <<lexemes[1], " ">> \o Spaced(Tail(lexemes))

(* Lines typed at the command line: whole statements, the halves of one, and
   comments and strings that are open at the end of a line. *)
ShowAll == <<"SHOW", " ", "Tables", ";">>
Lines == {
    Spaced(<<"CREATE", "TABLE", "t", "(", "a", "INT">>),
    Spaced(<<",", "b", "VARCHAR", "(", "3", ")", ")", ";">>),
    Spaced(<<"CREATE", "TABLE", "t", "(", "a", "INT", ")", ";">>) \o ShowAll,
    Spaced(<<"DROP", "TABLE", "t", ";">>) \o ShowAll,
    Spaced(<<"DELETE", "FROM", "t", ";">>),
    <<"-", "-", " ", "'", ";">>,
    <<"/", "*", " ", ";">>,
    ShowAll \o <<"/", "*">>,
    <<"*", "/">> \o ShowAll,
    Spaced(<<"DELETE", "FROM", "t", "WHERE", "b", "=", "'", ";">>),
    <<"'", "'", ";", "'", ";">>,
    ShowAll \o <<"'", ";", "'">>,
    <<" ">>,
    <<" ", "Exit", ";">>}

(* Texts that only a script or a program hands over. *)
Raw == {
    <<"SHOW", "\r", "\n", "TABLES", "\r", ";">>,
    <<"-", "-", "\r", "SHOW", " ", "/", "*", "\r", "\n", "*", "/", "TABLES", ";">>,
    <<"select", " ", "a", "1", "FROM", " ", "t", ";">>,
    <<"SHOW", " ", "1", ".", ";">>, <<"SHOW", "\n", "1", "x", ";">>,
    <<"SHOW", " ", "1", ".", "3", ">", "=", "<", "!", "=", ".", "1", ";">>,
    <<"\n", "SHOW", " ", "x", "!", ";">>, <<"DROP", "\n", "'", "\n", "'">>}

(* Every short text over the characters the scanners look at. *)
Short ==
    UNION {[1 .. n -> {"-", "/", "*", "'", ";", "\n", "\r", "x", "1", "."}] :
             n \in 0 .. 3}
    \cup UNION {[1 .. n -> {"-", "/", "*", "'", ";", "\n"}] : n \in 4 .. ShortText}

-----------------------------------------------------------------------------
(* Expressions and how they are written: by how tight an operator binds.   *)

Leaves == {T("name", "a", <<>>), T("const", "1", <<>>)}
Combined(exprs) ==
    {Binary(op, e, f) : op \in {"OR", "AND", "=", "-", "*"}, e, f \in exprs}
    \cup {Unary(op, e) : op \in {"NOT", "-"}, e \in exprs}
Shallow == Leaves \cup Combined({T("name", "a", <<>>)})
Deep == Combined(Shallow) \ Combined(Leaves)

Binding(e) ==
    CASE e.node = "unary" -> IF e.text = "NOT" THEN 4 ELSE 7
      [] e.node = "binary" /\ e.text = "OR" -> 1
      [] e.node = "binary" /\ e.text = "AND" -> 2
      [] e.node = "binary" /\ e.text = "=" -> 3
      [] e.node = "binary" /\ e.text = "-" -> 5
      [] e.node = "binary" /\ e.text = "*" -> 6
      [] OTHER -> 8

(* least is the loosest binding that may stand here without parentheses. *)
RECURSIVE Written(_, _, _)
Written(e, least, all) ==
    LET b == Binding(e)
        text ==
          CASE e.node = "binary" ->
                 Written(e.kids[1], IF e.text = "=" THEN 4 ELSE b, all)
                   \o <<e.text>> \o Written(e.kids[2], b + 1, all)
            [] e.node = "unary" ->
                 <<e.text>> \o Written(e.kids[1], IF e.text = "NOT" THEN 4 ELSE 8, all)
            [] OTHER -> <<e.text>>
    IN  IF b < least \/ (all /\ b < 8) THEN <<"(">> \o text \o <<")">> ELSE text

-----------------------------------------------------------------------------
(* Statements: every clause of a SELECT there or not, and one of each kind. *)

Input(mode, lines, meant, verdict) ==
    [mode |-> mode, lines |-> lines, meant |-> meant, verdict |-> verdict]
Keyword(k) == T("keyword", k, <<>>)
Node(kind, kids) == T(kind, "", kids)
NameOf(n) == T("name", n, <<>>)
None == Node("none", <<>>)
Star == Node("select list", <<>>)
A == NameOf("a")
Clause(there, words, tree, lexemes) ==
    IF there THEN [tree |-> Node("some", tree), lexemes |-> words \o lexemes]
    ELSE [tree |-> None, lexemes |-> <<>>]

SelectOf(list, listText, w, where, g, h, o, l) ==
    LET clauses == <<
          Clause(w, <<"WHERE">>, <<where>>, Written(where, 1, FALSE)),
          Clause(g, <<"GROUP", "BY">>, <<Node("list", <<A, NameOf("b")>>)>>,
                 <<"a", ",", "b">>),
          Clause(h, <<"HAVING">>, <<A>>, <<"a">>),
          Clause(o, <<"ORDER", "BY">>,
                 <<Node("list",
                    <<Node("order item", <<A, Node("direction", <<Keyword("DESC")>>)>>),
                      Node("order item", <<A, Node("direction", <<>>)>>)>>)>>,
                 <<"a", "DESC", ",", "a", "ASC">>),
          Clause(l, <<"LIMIT">>, <<T("count", "0", <<>>)>>, <<"0">>)>>
    IN  [tree |-> Node("statement", <<Keyword("SELECT"), list, NameOf("t")>>
                         \o [k \in 1 .. 5 |-> clauses[k].tree]),
         lexemes |-> <<"SELECT">> \o listText \o <<"FROM", "t">>
                       \o clauses[1].lexemes \o clauses[2].lexemes
                       \o clauses[3].lexemes \o clauses[4].lexemes
                       \o clauses[5].lexemes \o <<";">>]

Meant(s) == Input("call", <<Spaced(s.lexemes)>>, <<s.tree>>, "ok")

WithWhere(e, all) ==
    LET s == SelectOf(Star, <<"*">>, TRUE, e, FALSE, FALSE, FALSE, FALSE)
    IN  [s EXCEPT !.lexemes = <<"SELECT", "*", "FROM", "t", "WHERE">>
                                \o Written(e, 1, all) \o <<";">>]

Expressions == {WithWhere(e, FALSE) : e \in Shallow \cup Deep}
               \cup {WithWhere(e, TRUE) : e \in Shallow \cup Deep}

Aggregate(f, kid) == Node("aggregate", <<Keyword(f), kid>>)
Items == Node("select list", <<Node("list", <<
           Node("select item", <<A>>),
           Node("select item", <<Aggregate("COUNT", Node("counted", <<>>))>>),
           Node("select item", <<Aggregate("MIN", Node("argument", <<None, A>>))>>),
           Node("select item", <<Aggregate("COUNT",
                                   Node("counted", <<Node("some", <<>>), A>>))>>)>>)>>)
ItemsText == <<"a", ",", "COUNT", "(", "*", ")", ",", "MIN", "(", "a", ")", ",",
               "COUNT", "(", "DISTINCT", "a", ")">>

Selects ==
    {SelectOf(Star, <<"*">>, w, A, g, h, o, l) : w, g, h, o, l \in BOOLEAN}
    \cup {SelectOf(Items, ItemsText, FALSE, A, g, FALSE, FALSE, FALSE) : g \in BOOLEAN}

Lit(n) == T("const", n, <<>>)
Others ==
    LET stmt(kind, kids, lexemes) ==
          [tree |-> Node("statement", <<Keyword(kind)>> \o kids),
           lexemes |-> <<kind>> \o lexemes \o <<";">>]
        column(n, kids) == Node("column definition", <<NameOf(n), Node("type", kids)>>)
        assign(n, e) == Node("assignment", <<NameOf(n), e>>)
    IN  {stmt("CREATE", <<NameOf("t"), Node("list", <<column("a", <<Keyword("INT")>>),
                column("b", <<Keyword("VARCHAR"), T("length", "255", <<>>)>>)>>)>>,
              <<"TABLE", "t", "(", "a", "INT", ",", "b", "VARCHAR", "(", "255",
                ")", ")">>),
         stmt("DROP", <<NameOf("t")>>, <<"TABLE", "t">>),
         stmt("INSERT", <<NameOf("t"), None, Node("list", <<Lit("1"), Lit("' x '")>>)>>,
              <<"INTO", "t", "VALUES", "(", "1", ",", "'", "x", "'", ")">>),
         stmt("INSERT", <<NameOf("t"), Node("some", <<Node("list", <<A>>)>>),
                          Node("list", <<Unary("-", Lit("1"))>>)>>,
              <<"INTO", "t", "(", "a", ")", "VALUES", "(", "-", "1", ")">>),
         stmt("UPDATE", <<NameOf("t"), Node("list", <<assign("a", Binary("=", A, A)),
                          assign("b", A)>>), Node("some", <<A>>)>>,
              <<"t", "SET", "a", "=", "a", "=", "a", ",", "b", "=", "a", "WHERE", "a">>),
         stmt("DELETE", <<NameOf("t"), None>>, <<"FROM", "t">>),
         stmt("DELETE", <<NameOf("t"), Node("some", <<A>>)>>,
              <<"FROM", "t", "WHERE", "a">>),
         stmt("SHOW", <<Node("show", <<Keyword("DATABASES")>>)>>, <<"DATABASES">>)}

-----------------------------------------------------------------------------
(* Nesting: wrappers around a name, and what is to become of them.         *)

Wrappers == {"(", "SUM", "NOT"}
Opened(w) == IF w = "SUM" THEN <<"SUM", "(">> ELSE <<w>>
RECURSIVE Wrapped(_)
Wrapped(ws) ==
    IF ws = <<>> THEN <<"a">>
    ELSE Opened(Head(ws)) \o Wrapped(Tail(ws))
           \o (IF Head(ws) = "NOT" THEN <<>> ELSE <<")">>)
Times(ws, w, k) == Cardinality({j \in 1 .. k : ws[j] = w})
RECURSIVE Fate(_, _)
Fate(ws, k) ==
    CASE k > Len(ws) -> "ok"
      [] ws[k] = "(" /\ Times(ws, "(", k) > MAX_PARENTHESIS_DEPTH -> "error"
      [] ws[k] # "NOT" /\ Times(ws, "(", k) + Times(ws, "SUM", k) >= MaxLevels -> "crash"
      [] OTHER -> Fate(ws, k + 1)
Nested ==
    {Input("call", <<Spaced(<<"DELETE", "FROM", "t", "WHERE">> \o Wrapped(ws)
                              \o <<"OR">> \o Wrapped(ws) \o <<";">>)>>,
           <<>>, Fate(ws, 1)) :
       ws \in UNION {[1 .. n -> Wrappers] : n \in 0 .. 5}}

BadTypes == {Input("call", <<Spaced(<<"CREATE", "TABLE", "t", "(", "a", "VARCHAR", "(",
                                      n, ")", ")", ";">>)>>, <<>>,
                   IF n \in {"0", "256", "a"} THEN "error" ELSE "ok") :
               n \in {"0", "1", "255", "256", "a"}}

(* A sum of so many terms that its tree is too deep for the analyser. *)
RECURSIVE Sum(_)
Sum(n) == IF n = 1 THEN <<"a">> ELSE Sum(n - 1) \o <<"+", "a">>
Long == <<Spaced(<<"CREATE", "TABLE", "t", "(", "a", "INT", ")", ";">>),
          Spaced(<<"SHOW", "TABLES", ";", "DELETE", "FROM", "t", "WHERE">>
                   \o Sum(MaxDepth) \o <<";">>), ShowAll>>

MCInputs ==
    {Input("repl", lines, <<>>, "") : lines \in [1 .. Fragments -> Lines]}
    \cup {Input(m, lines, <<>>, "") : m \in {"call", "compile", "gui"},
                                     lines \in [1 .. 2 -> Lines]}
    \cup {Input(m, Long, <<>>, "") : m \in {"repl", "call", "compile", "gui"}}
    \cup {Input("call", <<text>>, <<>>, "") : text \in Raw}
    \cup {Input("gui", <<text>>, <<>>, "") : text \in Short}
    \cup {Meant(s) : s \in Selects \cup Others \cup Expressions}
    \cup Nested \cup BadTypes
=============================================================================

------------------------------- MODULE Parser -------------------------------
(***************************************************************************)
(* sql_compiler/parser.py and the trees of sql_compiler/ast_nodes.py.      *)
(*                                                                         *)
(* Every _parse_ function of a statement is a rule: the alternatives it    *)
(* has, each a sequence of items to consume in order.  An alternative is   *)
(* taken when its first item accepts the current token, and the error is   *)
(* reported at the token an item does not accept.  Expressions climb the   *)
(* levels of precedence.  Positions and resolved types of the nodes, and   *)
(* the texts of the errors, are left out.                                  *)
(***************************************************************************)
EXTENDS Lexer

CONSTANTS
    IntOf,                 \* numeral -> the integer it denotes
    MAX_PARENTHESIS_DEPTH, \* 64 in the code
    MaxLevels              \* expressions within expressions that fit on
                           \* Python's stack, about 95

(* A node has a kind, a text and children; all three are always there, so
   that any two trees can be compared. *)
T(node, text, kids) == [node |-> node, text |-> text, kids |-> kids]

-----------------------------------------------------------------------------
(* Items.  A keyword that tells alternatives apart is kept in the tree.    *)

Item(is, of, then) == [is |-> is, of |-> of, then |-> then]
Key(word) == Item("keyword", word, <<>>)
Kept(word) == Item("kept", word, <<>>)
Mark(lexeme) == Item("mark", lexeme, <<>>)
Name == Item("name", "", <<>>)
Const == Item("const", "", <<>>)
Length == Item("length", "", <<>>)
Count == Item("count", "", <<>>)
Rule(rule) == Item("rule", rule, <<>>)
Expression == Item("expression", "", <<>>)
List(item) == Item("list", "", <<item>>)           \* separated by commas
Maybe(first, rest) == Item("maybe", "", <<first>> \o rest)

Where == Maybe(Key("WHERE"), <<Expression>>)

CreateTable == <<Kept("CREATE"), Key("TABLE"), Name, Mark("("),
                 List(Rule("column definition")), Mark(")")>>
ColumnDefinition == <<Name, Rule("type")>>
TypeSpecification == << <<Kept("INT")>>,
                        <<Kept("VARCHAR"), Mark("("), Length, Mark(")")>> >>
DropTable == <<Kept("DROP"), Key("TABLE"), Name>>
Insert == <<Kept("INSERT"), Key("INTO"), Name,
            Maybe(Mark("("), <<List(Name), Mark(")")>>),
            Key("VALUES"), Mark("("), List(Expression), Mark(")")>>
Update == <<Kept("UPDATE"), Name, Key("SET"), List(Rule("assignment")), Where>>
Assignment == <<Name, Mark("="), Expression>>
Select == <<Kept("SELECT"), Rule("select list"), Key("FROM"), Name, Where,
            Maybe(Key("GROUP"), <<Key("BY"), List(Name)>>),
            Maybe(Key("HAVING"), <<Expression>>),
            Maybe(Key("ORDER"), <<Key("BY"), List(Rule("order item"))>>),
            Maybe(Key("LIMIT"), <<Count>>)>>
SelectList == << <<Mark("*")>>, <<List(Rule("select item"))>> >>
SelectItem == << <<Rule("aggregate")>>, <<Name>> >>
Argument == <<Maybe(Key("DISTINCT"), <<>>), Expression>>
Counted == << <<Mark("*")>>, Argument >>
AggregateFunction ==
    << <<Kept("COUNT"), Mark("("), Rule("counted"), Mark(")")>> >> \o
    [k \in 1 .. 4 |-> <<Kept(<<"SUM", "AVG", "MIN", "MAX">>[k]), Mark("("),
                        Rule("argument"), Mark(")")>>]
OrderItem == <<Name, Rule("direction")>>
Direction == << <<Kept("DESC")>>, <<Key("ASC")>>, <<>> >>
Delete == <<Kept("DELETE"), Key("FROM"), Name, Where>>
Show == << <<Kept("DATABASES")>>, <<Kept("TABLES")>> >>
Statement == <<CreateTable, DropTable, Insert, Update, Select, Delete,
               <<Kept("SHOW"), Rule("show")>> >>
Primary == << <<Rule("aggregate")>>, <<Name>>, <<Const>> >>

Alternatives(rule) ==
    CASE rule = "statement" -> Statement
      [] rule = "column definition" -> <<ColumnDefinition>>
      [] rule = "type" -> TypeSpecification
      [] rule = "assignment" -> <<Assignment>>
      [] rule = "select list" -> SelectList
      [] rule = "select item" -> SelectItem
      [] rule = "aggregate" -> AggregateFunction
      [] rule = "counted" -> Counted
      [] rule = "argument" -> <<Argument>>
      [] rule = "order item" -> <<OrderItem>>
      [] rule = "direction" -> Direction
      [] rule = "show" -> Show

-----------------------------------------------------------------------------
(* Tokens.                                                                 *)

IsKeyword(token, word) ==
    token.type = "KEYWORD" /\ Upper[token.lexeme] = word

IsIntegerLiteral(token) ==
    token.type = "CONST" /\ token.lexeme \in DOMAIN IntOf

RECURSIVE Accepts(_, _)

(* The alternatives whose first item accepts the token. *)
Taken(alts, token) ==
    {k \in DOMAIN alts : alts[k] = <<>> \/ Accepts(alts[k][1], token)}

Accepts(item, token) ==
    CASE item.is \in {"keyword", "kept"} -> IsKeyword(token, item.of)
      [] item.is = "mark" -> token.lexeme = item.of
      [] item.is = "name" -> token.type = "IDENTIFIER"
      [] item.is = "const" -> token.type = "CONST"
      [] item.is = "length" ->
           IsIntegerLiteral(token) /\ IntOf[token.lexeme] \in 1 .. 255
      [] item.is = "count" -> IsIntegerLiteral(token)
      [] item.is = "rule" -> Taken(Alternatives(item.of), token) # {}
      [] OTHER -> TRUE

(* What consuming an item yields: the place after it and the trees of it. *)
Done(at, kids) == [verdict |-> "ok", at |-> at, kids |-> kids]
ParseError(at) == [verdict |-> "error", at |-> at, kids |-> <<>>]
RecursionError(at) == [verdict |-> "crash", at |-> at, kids |-> <<>>]
Ok(r) == r.verdict = "ok"
As(node, r) == IF Ok(r) THEN Done(r.at, <<T(node, "", r.kids)>>) ELSE r

Leaf(item, token) ==
    CASE item.is \in {"keyword", "mark"} -> <<>>
      [] item.is = "kept" -> <<T("keyword", item.of, <<>>)>>
      [] OTHER -> <<T(item.is, token.lexeme, <<>>)>>

-----------------------------------------------------------------------------
(* Expressions: the operators of a level combine operands of the next.     *)

Operators == << {"OR"}, {"AND"}, {"=", "!=", ">", ">=", "<", "<="}, {},
                {"+", "-"}, {"*", "/"}, {}, {} >>
Comparison == 3
Not == 4
Sign == 7
Top == 8

OperatorOf(token) ==
    IF token.type = "KEYWORD" THEN Upper[token.lexeme] ELSE token.lexeme
Binary(op, left, right) == T("binary", op, <<left, right>>)
Unary(op, operand) == T("unary", op, <<operand>>)

(* n says how many parentheses and how many expressions are open. *)
RECURSIVE Consume(_, _, _, _), ConsumeAll(_, _, _, _), Commas(_, _, _, _),
          Level(_, _, _, _), Chain(_, _, _, _), Nots(_, _, _),
          PrimaryAt(_, _, _)

Consume(ts, item, at, n) ==
    LET token == ts[at]
    IN  CASE item.is = "expression" ->
               IF n.levels >= MaxLevels THEN RecursionError(at)
               ELSE Level(ts, 1, at, [n EXCEPT !.levels = @ + 1])
          [] item.is = "rule" ->
               LET alts == Alternatives(item.of)
                   taken == Taken(alts, token)
               IN  IF taken = {} THEN ParseError(at)
                   ELSE As(item.of,
                           ConsumeAll(ts, alts[Min(taken)], Done(at, <<>>), n))
          [] item.is = "list" ->
               As("list", Commas(ts, item.then[1],
                                 Consume(ts, item.then[1], at, n), n))
          [] item.is = "maybe" ->
               IF Accepts(item.then[1], token)
                 THEN As("some", ConsumeAll(ts, item.then, Done(at, <<>>), n))
                 ELSE Done(at, <<T("none", "", <<>>)>>)
          [] OTHER -> IF Accepts(item, token)
                        THEN Done(at + 1, Leaf(item, token))
                        ELSE ParseError(at)

ConsumeAll(ts, items, r, n) ==
    IF items = <<>> \/ ~Ok(r) THEN r
    ELSE LET q == Consume(ts, Head(items), r.at, n)
         IN  ConsumeAll(ts, Tail(items),
                        [q EXCEPT !.kids = r.kids \o q.kids], n)

Commas(ts, item, r, n) ==
    IF ~Ok(r) \/ ts[r.at].lexeme # "," THEN r
    ELSE LET q == Consume(ts, item, r.at + 1, n)
         IN  Commas(ts, item, [q EXCEPT !.kids = r.kids \o q.kids], n)

Level(ts, level, at, n) ==
    CASE level = Not -> Nots(ts, at, n)
      [] level = Sign ->
           IF ts[at].lexeme \in {"+", "-"}
             THEN LET r == Level(ts, Top, at + 1, n)
                  IN  IF Ok(r) THEN Done(r.at, <<Unary(ts[at].lexeme, r.kids[1])>>)
                      ELSE r
             ELSE Level(ts, Top, at, n)
      [] level = Top -> PrimaryAt(ts, at, n)
      [] OTHER -> Chain(ts, level, Level(ts, level + 1, at, n), n)

(* Faulty variant: operators of one level associate to the right. *)
ChainRight(ts, level, r, n) ==
    IF ~Ok(r) \/ OperatorOf(ts[r.at]) \notin Operators[level] THEN r
    ELSE LET right == Chain(ts, level, Level(ts, level + 1, r.at + 1, n), n)
         IN  IF ~Ok(right) THEN right
             ELSE Done(right.at, <<Binary(OperatorOf(ts[r.at]), r.kids[1],
                                          right.kids[1])>>)

(* Operators of one level associate to the left; a comparison has one. *)
Chain(ts, level, r, n) ==
    IF ~Ok(r) \/ OperatorOf(ts[r.at]) \notin Operators[level] THEN r
    ELSE LET right == Level(ts, level + 1, r.at + 1, n)
             both == Done(right.at, <<Binary(OperatorOf(ts[r.at]), r.kids[1],
                                             right.kids[1])>>)
         IN  IF ~Ok(right) THEN right
             ELSE IF level = Comparison THEN both
             ELSE Chain(ts, level, both, n)

Nots(ts, at, n) ==
    IF ~IsKeyword(ts[at], "NOT") THEN Level(ts, Not + 1, at, n)
    ELSE LET r == Nots(ts, at + 1, n)
         IN  IF Ok(r) THEN Done(r.at, <<Unary("NOT", r.kids[1])>>) ELSE r

(* Faulty variant: one level too many. *)
ParenthesisedTooDeep(ts, at, n) ==
    IF n.parentheses > MAX_PARENTHESIS_DEPTH THEN ParseError(at)
    ELSE ConsumeAll(ts, <<Expression, Mark(")")>>, Done(at + 1, <<>>),
                    [n EXCEPT !.parentheses = @ + 1])

Parenthesised(ts, at, n) ==
    IF n.parentheses >= MAX_PARENTHESIS_DEPTH THEN ParseError(at)
    ELSE ConsumeAll(ts, <<Expression, Mark(")")>>, Done(at + 1, <<>>),
                    [n EXCEPT !.parentheses = @ + 1])

PrimaryAt(ts, at, n) ==
    LET taken == Taken(Primary, ts[at])
    IN  IF ts[at].lexeme = "(" THEN Parenthesised(ts, at, n)
        ELSE IF taken = {} THEN ParseError(at)
        ELSE ConsumeAll(ts, Primary[Min(taken)], Done(at, <<>>), n)

-----------------------------------------------------------------------------
(* A batch: statements that each end in a semicolon, up to the end.        *)

RECURSIVE Statements(_, _)
Statements(ts, r) ==
    IF ~Ok(r) \/ ts[r.at].type = "EOF" THEN r
    ELSE LET q == ConsumeAll(ts, <<Rule("statement"), Mark(";")>>,
                             Done(r.at, <<>>), [parentheses |-> 0, levels |-> 0])
         IN  Statements(ts, [q EXCEPT !.kids = r.kids \o q.kids])

Parse(ts) == Statements(ts, Done(1, <<>>))
=============================================================================

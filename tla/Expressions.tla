----------------------------- MODULE Expressions -----------------------------
(***************************************************************************)
(* SQL expressions: the trees the parser builds, the types the semantic    *)
(* analyser gives them, their values in the executor, and the constant     *)
(* folding of the optimizer.                                               *)
(*                                                                         *)
(* A value is an integer.  A Python bool is an int, so TRUE is 1 and FALSE *)
(* is 0.  A string of n letters x is n, which is both its length and its   *)
(* place in the order of strings.  None is what an aggregate makes of no   *)
(* rows.  An evaluation that raises returns what it raises: ExecError,     *)
(* which the program reports, or Crash, a Python exception it does not     *)
(* expect.  Integers are those of Python, which have no width.             *)
(***************************************************************************)
EXTENDS Integers, Sequences, SequencesExt, FiniteSets, Functions

CONSTANTS None, SemanticError, ExecError, StorageError, Crash

Errors == {SemanticError, ExecError, StorageError, Crash}
Raised(v) == v \in Errors

Bool(b) == IF b THEN 1 ELSE 0
Truth(v) == v # 0 /\ v # None       \* Python's bool(v)

------------------------------------------------------------------------------
(* Trees *)

(* kind is the form in the source, type what the analyser resolves it to *)
Literal(kind, type, v) ==
    [node |-> "literal", kind |-> kind, type |-> type, value |-> v]
Number(v) == Literal("INTEGER", "INT", v)
Text(v) == Literal("STRING", "VARCHAR", v)
Float(v) == Literal("FLOAT", "FLOAT", v)

Col(name) == [node |-> "column", name |-> name]
Unary(op, e) == [node |-> "unary", op |-> op, operand |-> e]
Binary(op, l, r) == [node |-> "binary", op |-> op, left |-> l, right |-> r]
Aggregate(f, e, distinct) ==
    [node |-> "aggregate", function |-> f, star |-> FALSE, argument |-> e,
     distinct |-> distinct]
CountStar == [node |-> "aggregate", function |-> "COUNT", star |-> TRUE]

Arithmetic == {"+", "-", "*", "/"}
Comparison == {"=", "!=", ">", ">=", "<", "<="}
Logic == {"AND", "OR"}

------------------------------------------------------------------------------
(* SemanticAnalyzer._expression: the type of a tree over columns of given  *)
(* types, or "rejected"                                                    *)

UnaryRule(op, k) ==
    CASE op \in {"+", "-"} /\ k = "INT" -> "INT"
      [] op = "NOT" /\ k = "BOOL"       -> "BOOL"
      [] OTHER                          -> "rejected"

BinaryRule(op, k, l) ==
    CASE op \in Arithmetic /\ k = "INT" /\ l = "INT"               -> "INT"
      [] op \in Comparison /\ k = l /\ k \in {"INT", "VARCHAR"}    -> "BOOL"
      [] op \in Logic \cup {"=", "!="} /\ k = "BOOL" /\ l = "BOOL" -> "BOOL"
      [] OTHER                                                     -> "rejected"

AggregateRule(f, k) ==
    CASE k = "rejected"                        -> "rejected"
      [] f = "COUNT"                           -> "INT"
      [] f \in {"SUM", "AVG"}                  -> IF k = "INT" THEN "INT" ELSE "rejected"
      [] f \in {"MIN", "MAX"}                  -> k

RECURSIVE TypeOf(_, _)
TypeOf(e, columns) ==
    CASE e.node = "literal"   -> IF e.kind = "FLOAT" THEN "rejected" ELSE e.type
      [] e.node = "column"    ->
            IF e.name \in DOMAIN columns THEN columns[e.name] ELSE "rejected"
      [] e.node = "unary"     -> UnaryRule(e.op, TypeOf(e.operand, columns))
      [] e.node = "binary"    ->
            BinaryRule(e.op, TypeOf(e.left, columns), TypeOf(e.right, columns))
      [] e.node = "aggregate" ->
            IF e.star THEN "INT"
            ELSE AggregateRule(e.function, TypeOf(e.argument, columns))

RECURSIVE HasAggregate(_)
HasAggregate(e) ==
    \/ e.node = "aggregate"
    \/ e.node = "unary" /\ HasAggregate(e.operand)
    \/ e.node = "binary" /\ (HasAggregate(e.left) \/ HasAggregate(e.right))

------------------------------------------------------------------------------
(* Values *)

Magnitude(n) == IF n < 0 THEN -n ELSE n

(* int(left / right): truncation towards zero *)
Quotient(l, r) ==
    LET q == Magnitude(l) \div Magnitude(r)
    IN  IF (l < 0) = (r < 0) THEN q ELSE -q

ApplyUnary(op, v) ==
    CASE Raised(v)                  -> v
      [] op = "NOT"                 -> Bool(~ Truth(v))
      [] op = "-" /\ v = None       -> Crash
      [] op = "-"                   -> -v
      [] OTHER                      -> v

ApplyBinary(op, l, r) ==
    CASE op = "/" /\ r = 0      -> ExecError
      [] op = "="               -> Bool(l = r)
      [] op = "!="              -> Bool(l # r)
      [] None \in {l, r}        -> Crash
      [] op = "/"               -> Quotient(l, r)
      [] op = "+"               -> l + r
      [] op = "-"               -> l - r
      [] op = "*"               -> l * r
      [] op = ">"               -> Bool(l > r)
      [] op = ">="              -> Bool(l >= r)
      [] op = "<"               -> Bool(l < r)
      [] op = "<="              -> Bool(l <= r)

(* Where an expression is evaluated: a row whose columns index places, or  *)
(* no row; and, in a HAVING clause, the rows of the group and their index. *)
NoRow == <<>>
Context(row, index) == [row |-> row, index |-> index, grouped |-> FALSE]
NoSource == Context(NoRow, <<>>)
GroupContext(row, index, members, base) ==
    [row |-> row, index |-> index, grouped |-> TRUE, members |-> members, base |-> base]

(* row[index[name]], either of which may fail *)
Cell(row, index, name) ==
    IF name \in DOMAIN index /\ index[name] \in DOMAIN row
    THEN row[index[name]] ELSE Crash

FirstRaised(values) ==
    LET bad == {i \in DOMAIN values : Raised(values[i])}
    IN  values[CHOOSE i \in bad : \A j \in bad : i <= j]

(* The part of _compute_aggregate behind the values of the argument *)
Combine(f, distinct, values) ==
    LET total == FoldFunction(LAMBDA x, y : x + y, 0, values) IN
    CASE f = "COUNT"   -> IF distinct THEN Cardinality(Range(values)) ELSE Len(values)
      [] values = <<>> -> None
      [] f = "SUM"     -> total
      [] f = "AVG"     -> total \div Len(values)
      [] f = "MIN"     -> CHOOSE v \in Range(values) : \A w \in Range(values) : v <= w
      [] f = "MAX"     -> CHOOSE v \in Range(values) : \A w \in Range(values) : w <= v

(* _evaluate, _evaluate_having and _compute_aggregate.  Only BOOL operands *)
(* reach AND and OR, of which bool() makes nothing new.                    *)
RECURSIVE Evaluate(_, _), ComputeAggregate(_, _, _)
Evaluate(e, at) ==
    CASE e.node = "literal"   -> e.value
      [] e.node = "column"    ->
            IF at.row = NoRow THEN ExecError ELSE Cell(at.row, at.index, e.name)
      [] e.node = "unary"     -> ApplyUnary(e.op, Evaluate(e.operand, at))
      [] e.node = "binary"    ->
            LET l == Evaluate(e.left, at) IN
            IF \/ Raised(l)
               \/ e.op = "AND" /\ ~ Truth(l)
               \/ e.op = "OR" /\ Truth(l)
            THEN l
            ELSE LET r == Evaluate(e.right, at)
                 IN  IF Raised(r) \/ e.op \in Logic THEN r ELSE ApplyBinary(e.op, l, r)
      [] e.node = "aggregate" ->
            IF at.grouped THEN ComputeAggregate(e, at.members, at.base) ELSE ExecError

ComputeAggregate(e, members, base) ==
    IF e.star THEN Len(members)
    ELSE LET values == [i \in DOMAIN members |->
                            Evaluate(e.argument, Context(members[i], base))]
         IN  IF \E i \in DOMAIN values : Raised(values[i])
             THEN FirstRaised(values)
             ELSE Combine(e.function, e.distinct, values)

------------------------------------------------------------------------------
(* Optimizer._fold_expression *)

IntegerLiteral(v) == Number(v)
BooleanLiteral(b) == Literal("INTEGER", "BOOL", Bool(b))

Foldable(e) == e.node = "literal" /\ e.kind \in {"INTEGER", "STRING"}
IsInteger(e) == Foldable(e) /\ e.kind = "INTEGER"

(* _as_truth_value(e) is not None *)
Constant(e) == e.node = "literal" /\ e.type = "BOOL"
IsTrue(e) == Constant(e) /\ e.value # 0

FoldUnary(e) ==
    CASE e.op = "NOT" /\ Constant(e.operand)  -> BooleanLiteral(~ IsTrue(e.operand))
      [] e.op = "+" /\ IsInteger(e.operand)   -> IntegerLiteral(e.operand.value)
      [] e.op = "-" /\ IsInteger(e.operand)   -> IntegerLiteral(-e.operand.value)
      [] OTHER                                -> e

FoldArithmetic(e) ==
    IF IsInteger(e.left) /\ IsInteger(e.right) /\ ~ (e.op = "/" /\ e.right.value = 0)
    THEN IntegerLiteral(ApplyBinary(e.op, e.left.value, e.right.value))
    ELSE e

FoldComparison(e) ==
    IF Foldable(e.left) /\ Foldable(e.right) /\ e.left.kind = e.right.kind
    THEN BooleanLiteral(ApplyBinary(e.op, e.left.value, e.right.value) = 1)
    ELSE e

(* AND with one false operand is FALSE, with a true one the other operand; *)
(* OR the other way round                                                  *)
SimplifyBoolean(e) ==
    LET decide(known, other) ==
            IF IsTrue(known) = (e.op = "AND") THEN other ELSE BooleanLiteral(e.op = "OR")
    IN  CASE Constant(e.left)  -> decide(e.left, e.right)
          [] Constant(e.right) -> decide(e.right, e.left)
          [] OTHER             -> e

RECURSIVE Fold(_)
Fold(e) ==
    CASE e.node = "unary"  -> FoldUnary([e EXCEPT !.operand = Fold(@)])
      [] e.node = "binary" ->
            LET f == [e EXCEPT !.left = Fold(@), !.right = Fold(@)]
            IN  CASE e.op \in Logic      -> SimplifyBoolean(f)
                  [] e.op \in Arithmetic -> FoldArithmetic(f)
                  [] OTHER               -> FoldComparison(f)
      [] OTHER             -> e
=============================================================================

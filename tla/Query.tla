-------------------------------- MODULE Query --------------------------------
(***************************************************************************)
(* A statement on its way through MiniDB._run_one: analysed, planned,      *)
(* optimised, executed against one table and answered.                     *)
(*                                                                         *)
(* The table is a list of rows on one page, which is what the storage      *)
(* engine makes of it (TableHeap: over several pages a statement that      *)
(* raises leaves the pages before the failing one changed).  An optional   *)
(* clause is a sequence of none or one; an empty select list is *.  A plan *)
(* is the sequence of its nodes, each over the one before it.              *)
(***************************************************************************)
EXTENDS Expressions

CONSTANTS
    Columns,            \* the names of the table's columns, in order
    Kinds,              \* their types
    Width,              \* the n of every VARCHAR(n)
    IntMin, IntMax,     \* what an INT column holds
    Statements,         \* what the user may ask
    Tables,             \* what the table may hold at first
    MaxStatements       \* bound on the statements of a behaviour

ASSUME SchemaAssumption ==
    /\ IsInjective(Columns)
    /\ Kinds \in [Range(Columns) -> {"INT", "VARCHAR"}]
    /\ \A t \in Tables : \A i \in DOMAIN t : Len(t[i]) = Len(Columns)

VARIABLES
    table,              \* the rows, in the order of a scan
    stage,              \* how far the statement is
    stmt, plan,
    answer,             \* what the statement returned or raised
    asked               \* statements so far

vars == <<table, stage, stmt, plan, answer, asked>>

(* _column_index *)
Index == [c \in Range(Columns) |-> CHOOSE i \in DOMAIN Columns : Columns[i] = c]
On(row) == Context(row, Index)

------------------------------------------------------------------------------
(* Statements *)

Select(items, where, group, having, order, limit) ==
    [kind |-> "select", items |-> items, where |-> where, group |-> group,
     having |-> having, order |-> order, limit |-> limit]
Delete(where) == [kind |-> "delete", where |-> where]
Update(set, where) == [kind |-> "update", set |-> set, where |-> where]
Insert(columns, values) == [kind |-> "insert", columns |-> columns, values |-> values]

Assign(c, e) == [column |-> c, value |-> e]
Asc(c) == [column |-> c, descending |-> FALSE]
Desc(c) == [column |-> c, descending |-> TRUE]

IsAggregate(e) == e.node = "aggregate"
Aggregates(s) == SelectSeq(s.items, IsAggregate)
Grouped(s) == s.kind = "select" /\ (Aggregates(s) # <<>> \/ s.group # <<>>)

------------------------------------------------------------------------------
(* SemanticAnalyzer.analyze: None, or what it raises *)

Verdict(good) == IF good THEN None ELSE SemanticError
IsCondition(e) == TypeOf(e, Kinds) = "BOOL"
Conditions(clause) == \A e \in Range(clause) : IsCondition(e)

(* Faulty variant: the columns of ORDER BY are not looked up *)
UnboundSelectVerdict(s) ==
    Verdict(/\ \A e \in Range(s.items) : TypeOf(e, Kinds) # "rejected"
            /\ Conditions(s.where)
            /\ Conditions(s.having))

SelectVerdict(s) ==
    Verdict(/\ \A o \in Range(s.order) : o.column \in DOMAIN Kinds
            /\ \A e \in Range(s.items) : TypeOf(e, Kinds) # "rejected"
            /\ Range(s.group) \subseteq DOMAIN Kinds
            /\ Grouped(s) \/ s.having # <<>> =>
                  \A e \in Range(s.items) : IsAggregate(e) \/ e.name \in Range(s.group)
            /\ Conditions(s.where)
            /\ \A e \in Range(s.where) : ~ HasAggregate(e)
            /\ Conditions(s.having)
            /\ s.having # <<>> => Grouped(s))

TooLong(e) == e.node = "literal" /\ e.kind = "STRING" /\ e.value > Width

UpdateVerdict(s) ==
    Verdict(/\ \A i, j \in DOMAIN s.set : s.set[i].column = s.set[j].column => i = j
            /\ \A a \in Range(s.set) :
                  /\ a.column \in DOMAIN Kinds
                  /\ TypeOf(a.value, Kinds) = Kinds[a.column]
                  /\ ~ TooLong(a.value)
            /\ Conditions(s.where))

(* The columns an INSERT gives its values to *)
Targets(s) == IF s.columns = <<>> THEN Columns ELSE s.columns

(* There is no row to take a column from.  The length of a VARCHAR is      *)
(* asked of a literal: no other tree has the attribute.                    *)
ValueVerdict(e, c) ==
    CASE TypeOf(e, <<>>) # Kinds[c]                        -> SemanticError
      [] Kinds[c] = "VARCHAR" /\ e.node # "literal"        -> Crash
      [] OTHER                                             -> Verdict(~ TooLong(e))

InsertVerdict(s) ==
    LET t == Targets(s)
        verdicts == [i \in DOMAIN t |-> ValueVerdict(s.values[i], t[i])]
    IN  CASE ~ IsInjective(t) \/ Range(t) # Range(Columns) -> SemanticError
          [] Len(s.values) # Len(t)                        -> SemanticError
          [] \A i \in DOMAIN t : verdicts[i] = None        -> None
          [] OTHER                                         -> FirstRaised(verdicts)

AnalyzerVerdict(s) ==
    CASE s.kind = "select" -> SelectVerdict(s)
      [] s.kind = "update" -> UpdateVerdict(s)
      [] s.kind = "insert" -> InsertVerdict(s)
      [] s.kind = "delete" -> Verdict(Conditions(s.where))

------------------------------------------------------------------------------
(* Planner.build and Optimizer.optimize *)

Scan == [node |-> "scan"]
Filter(e) == [node |-> "filter", predicate |-> e]
FilterOver(where) == [i \in DOMAIN where |-> Filter(where[i])]

SelectPlan(s) ==
    <<Scan>>
    \o FilterOver(s.where)
    \o (IF Grouped(s)
        THEN <<[node |-> "aggregate", group |-> s.group, aggregates |-> Aggregates(s),
                having |-> s.having]>>
        ELSE <<>>)
    \o (IF s.order = <<>> THEN <<>> ELSE <<[node |-> "sort", order |-> s.order]>>)
    \o <<[node |-> "project", items |-> s.items]>>
    \o [i \in DOMAIN s.limit |-> [node |-> "limit", count |-> s.limit[i]]]

Build(s) ==
    CASE s.kind = "select" -> SelectPlan(s)
      [] s.kind = "delete" -> <<Scan>> \o FilterOver(s.where) \o <<[node |-> "delete"]>>
      [] s.kind = "update" ->
            (IF s.where = <<>> THEN <<>> ELSE <<Scan>> \o FilterOver(s.where))
            \o <<[node |-> "update", set |-> s.set]>>
      [] s.kind = "insert" ->
            <<[node |-> "insert", columns |-> s.columns, values |-> s.values]>>

(* Faulty variant: a filter that is always false goes, too *)
EagerOptimizeFilter(n) ==
    LET p == Fold(n.predicate) IN IF Constant(p) THEN <<>> ELSE <<Filter(p)>>

(* A filter that is always true goes, one that is always false stays *)
OptimizeFilter(n) ==
    LET p == Fold(n.predicate) IN IF IsTrue(p) THEN <<>> ELSE <<Filter(p)>>

OptimizeNode(n) ==
    CASE n.node = "filter"                       -> OptimizeFilter(n)
      [] n.node = "project" /\ n.items = <<>>    -> <<>>
      [] n.node = "aggregate"                    ->
            <<[n EXCEPT !.having = [i \in DOMAIN @ |-> Fold(@[i])]]>>
      [] OTHER                                   -> <<n>>

OptimizePlan(p) == FlattenSeq([i \in DOMAIN p |-> OptimizeNode(p[i])])

------------------------------------------------------------------------------
(* Executor._run: the rows a node yields.  A generator that raises has     *)
(* yielded the rows before: its stream ends with what it raised, which     *)
(* nobody sees who stops asking earlier.                                   *)

Broken(stream) == stream # <<>> /\ Raised(Last(stream))

(* The outputs of each row in turn, up to the first that raises *)
Through(stream, Outputs(_)) ==
    FoldLeft(LAMBDA out, row : CASE Broken(out) -> out
                                 [] Raised(row) -> Append(out, row)
                                 [] OTHER       -> out \o Outputs(row),
             <<>>, stream)

RunFilter(predicate, stream) ==
    Through(stream, LAMBDA row : LET v == Evaluate(predicate, On(row)) IN
                                 CASE Raised(v) -> <<v>>
                                   [] Truth(v)  -> <<row>>
                                   [] OTHER     -> <<>>)

(* list(...) of a stream, and what is made of the list *)
Collected(stream, Made(_)) == IF Broken(stream) THEN <<Last(stream)>> ELSE Made(stream)

(* rows.sort on one column: stable, in either direction *)
SortOn(rows, o) ==
    LET key(i) == Cell(rows[i], Index, o.column)
        before(i, j) == \/ IF o.descending THEN key(i) > key(j) ELSE key(i) < key(j)
                        \/ key(i) = key(j) /\ i < j
        permutation == SetToSortSeq(DOMAIN rows, before)
    IN  IF \E i \in DOMAIN rows : Raised(key(i))
        THEN <<Crash>>
        ELSE [i \in DOMAIN rows |-> rows[permutation[i]]]

(* Faulty variant: the first column is sorted first *)
ForwardRunSort(order, stream) ==
    Collected(stream, LAMBDA rows :
        FoldLeft(LAMBDA sorted, o : IF Broken(sorted) THEN sorted ELSE SortOn(sorted, o),
                 rows, order))

RunSort(order, stream) ==
    Collected(stream, LAMBDA rows :
        FoldLeft(LAMBDA sorted, o : IF Broken(sorted) THEN sorted ELSE SortOn(sorted, o),
                 rows, Reverse(order)))

(* Groups in the order in which their keys appear; one group without keys *)
Key(group, row) == [i \in DOMAIN group |-> row[Index[group[i]]]]
Members(group, key, rows) == SelectSeq(rows, LAMBDA row : Key(group, row) = key)
(* Faulty variant: only neighbours make a group *)
AdjacentGroupKeys(group, rows) ==
    IF group = <<>> THEN <<<<>>>>
    ELSE FoldLeft(LAMBDA keys, row : IF keys # <<>> /\ Last(keys) = Key(group, row) THEN keys
                                     ELSE Append(keys, Key(group, row)),
                  <<>>, rows)

GroupKeys(group, rows) ==
    IF group = <<>> THEN <<<<>>>>
    ELSE FoldLeft(LAMBDA keys, row : IF Key(group, row) \in Range(keys) THEN keys
                                     ELSE Append(keys, Key(group, row)),
                  <<>>, rows)

(* One group: its key and its aggregates, if HAVING lets it pass *)
GroupOutput(n, key, rows) ==
    LET members == Members(n.group, key, rows)
        values == [i \in DOMAIN n.aggregates |->
                      ComputeAggregate(n.aggregates[i], members, Index)]
        row == key \o values
        position == [c \in Range(n.group) |->
                        CHOOSE i \in DOMAIN n.group : n.group[i] = c
                                   /\ \A j \in DOMAIN n.group : n.group[j] = c => j <= i]
        having == [i \in DOMAIN n.having |->
                      Evaluate(n.having[i], GroupContext(row, position, members, Index))]
    IN  CASE \E i \in DOMAIN values : Raised(values[i]) -> <<FirstRaised(values)>>
          [] Broken(having)                             -> having
          [] \A v \in Range(having) : Truth(v)          -> <<row>>
          [] OTHER                                      -> <<>>

RunAggregate(n, stream) ==
    Collected(stream, LAMBDA rows :
        Through(GroupKeys(n.group, rows), LAMBDA key : GroupOutput(n, key, rows)))

(* The row of an Aggregate is passed on as it is.  Any other row is taken  *)
(* apart by column name, and an aggregate is the name of no column.        *)
RunProject(items, child, stream) ==
    CASE items = <<>> \/ child.node = "aggregate"      -> stream
      [] \E e \in Range(items) : e.node # "column"     -> <<Crash>>
      [] OTHER -> LET taken(row) == [i \in DOMAIN items |-> Cell(row, Index, items[i].name)]
                  IN  Through(stream, LAMBDA row :
                          IF \E i \in DOMAIN items : Raised(taken(row)[i])
                          THEN <<Crash>> ELSE <<taken(row)>>)

RunLimit(count, stream) ==
    IF Len(stream) <= count THEN stream ELSE SubSeq(stream, 1, count)

RECURSIVE Run(_, _)
Run(p, rows) ==
    LET n == Last(p)
        below == Run(Front(p), rows)
    IN  CASE n.node = "scan"      -> rows
          [] n.node = "filter"    -> RunFilter(n.predicate, below)
          [] n.node = "aggregate" -> RunAggregate(n, below)
          [] n.node = "sort"      -> RunSort(n.order, below)
          [] n.node = "project"   -> RunProject(n.items, p[Len(p) - 1], below)
          [] n.node = "limit"     -> RunLimit(n.count, below)

------------------------------------------------------------------------------
(* Executor.execute: the answer, and the table it leaves *)

Outcome(error, rows, count, after) ==
    [error |-> error, rows |-> rows, count |-> count, table |-> after]
Failure(error, rows) == Outcome(error, <<>>, 0, rows)

ExecuteSelect(p, rows) ==
    LET result == Run(p, rows)
    IN  IF Broken(result) THEN Failure(Last(result), rows)
        ELSE Outcome(None, result, 0, rows)

(* _predicate: the filter below the statement's node, or every row *)
Predicate(p, row) ==
    IF Len(p) > 1 /\ p[Len(p) - 1].node = "filter"
    THEN Evaluate(p[Len(p) - 1].predicate, On(row)) ELSE 1

(* encode_row *)
Encode(row) ==
    IF \E i \in DOMAIN row : Kinds[Columns[i]] = "INT" /\ row[i] \notin IntMin..IntMax
    THEN StorageError ELSE row

(* Faulty variant: an assignment sees the ones before it *)
RunningTransform(set, row) ==
    Encode(FoldLeft(LAMBDA r, a : [r EXCEPT ![Index[a.column]] = Evaluate(a.value, On(r))],
                    row, set))

(* transform: every value is computed from the row as it was *)
Transform(set, row) ==
    LET values == [i \in DOMAIN set |-> Evaluate(set[i].value, On(row))]
        assigned(c) == {i \in DOMAIN set : set[i].column = c}
    IN  IF \E i \in DOMAIN values : Raised(values[i])
        THEN FirstRaised(values)
        ELSE Encode([k \in DOMAIN row |->
                 IF assigned(Columns[k]) = {} THEN row[k]
                 ELSE values[CHOOSE i \in assigned(Columns[k]) : TRUE]])

ExecuteUpdate(p, rows) ==
    LET hit == [i \in DOMAIN rows |-> Predicate(p, rows[i])]
        changed == [i \in DOMAIN rows |->
                       CASE Raised(hit[i]) -> hit[i]
                         [] Truth(hit[i])  -> Transform(Last(p).set, rows[i])
                         [] OTHER          -> rows[i]]
    IN  IF \E i \in DOMAIN rows : Raised(changed[i])
        THEN Failure(FirstRaised(changed), rows)
        ELSE Outcome(None, <<>>, Len(SelectSeq(hit, Truth)), changed)

ExecuteDelete(p, rows) ==
    LET hit == [i \in DOMAIN rows |-> Predicate(p, rows[i])]
        left == SelectSeq(rows, LAMBDA row : ~ Truth(Predicate(p, row)))
    IN  IF \E i \in DOMAIN rows : Raised(hit[i])
        THEN Failure(FirstRaised(hit), rows)
        ELSE Outcome(None, <<>>, Len(rows) - Len(left), left)

(* _place: a value goes to the place of its column *)
Place(columns, values) ==
    IF columns = <<>> THEN values
    ELSE [k \in DOMAIN Columns |->
             values[CHOOSE i \in DOMAIN columns : columns[i] = Columns[k]]]

ExecuteInsert(p, rows) ==
    LET n == Last(p)
        values == [i \in DOMAIN n.values |-> Evaluate(n.values[i], NoSource)]
        row == IF \E i \in DOMAIN values : Raised(values[i])
               THEN FirstRaised(values) ELSE Encode(Place(n.columns, values))
    IN  IF Raised(row) THEN Failure(row, rows)
        ELSE Outcome(None, <<>>, 1, Append(rows, row))

ExecutePlan(p, rows) ==
    CASE Last(p).node = "insert" -> ExecuteInsert(p, rows)
      [] Last(p).node = "delete" -> ExecuteDelete(p, rows)
      [] Last(p).node = "update" -> ExecuteUpdate(p, rows)
      [] OTHER                   -> ExecuteSelect(p, rows)

------------------------------------------------------------------------------
(* MiniDB._run_one under the loop of the command line *)

NoPlan == <<>>
NoAnswer == Failure(None, <<>>)

Init ==
    /\ table \in Tables
    /\ stage = "idle"
    /\ stmt = Delete(<<>>)
    /\ plan = NoPlan
    /\ answer = NoAnswer
    /\ asked = 0

(* The parser has made a tree of what was typed *)
Submit(s) ==
    /\ stage = "idle" /\ asked < MaxStatements
    /\ stmt' = s
    /\ stage' = "parsed"
    /\ asked' = asked + 1
    /\ UNCHANGED <<table, plan, answer>>

Analyze ==
    /\ stage = "parsed"
    /\ \/ /\ AnalyzerVerdict(stmt) = None
          /\ stage' = "checked"
          /\ UNCHANGED answer
       \/ /\ AnalyzerVerdict(stmt) # None
          /\ stage' = "answered"
          /\ answer' = Failure(AnalyzerVerdict(stmt), table)
    /\ UNCHANGED <<table, stmt, plan, asked>>

BuildPlan ==
    /\ stage = "checked"
    /\ plan' = Build(stmt)
    /\ stage' = "planned"
    /\ UNCHANGED <<table, stmt, answer, asked>>

Optimize ==
    /\ stage = "planned"
    /\ plan' = OptimizePlan(plan)
    /\ stage' = "optimized"
    /\ UNCHANGED <<table, stmt, answer, asked>>

Execute ==
    /\ stage = "optimized"
    /\ answer' = ExecutePlan(plan, table)
    /\ table' = answer'.table
    /\ stage' = "answered"
    /\ UNCHANGED <<stmt, plan, asked>>

(* The answer or the error is printed, and the loop goes on; it does not   *)
(* catch any other exception, which closes the database and ends it.       *)
Report ==
    /\ stage = "answered"
    /\ stage' = IF answer.error = Crash THEN "down" ELSE "idle"
    /\ plan' = NoPlan
    /\ answer' = NoAnswer
    /\ UNCHANGED <<table, stmt, asked>>

Restart ==
    /\ stage = "down"
    /\ stage' = "idle"
    /\ UNCHANGED <<table, stmt, plan, answer, asked>>

Next ==
    \/ \E s \in Statements : Submit(s)
    \/ Analyze \/ BuildPlan \/ Optimize \/ Execute \/ Report \/ Restart

Spec == Init /\ [][Next]_vars

------------------------------------------------------------------------------
(* Properties *)

(* The rows a condition holds of, in the order of the table *)
Holds(where, row) == \A e \in Range(where) : Evaluate(e, On(row)) = 1
Evaluates(where) ==
    \A e \in Range(where) : \A i \in DOMAIN table : ~ Raised(Evaluate(e, On(table[i])))
Chosen == SelectSeq(table, LAMBDA row : Holds(stmt.where, row))

(* A HAVING clause on the one group of no rows, whose aggregates are None *)
NothingToAggregate ==
    stmt.kind = "select" /\ stmt.having # <<>> /\ stmt.group = <<>> /\ Chosen = <<>>

(* The optimizer changes neither answer nor effect of a statement and adds *)
(* no node to its plan (spec.md, SC-004), unless the plain one raises: AND *)
(* and OR with a constant operand drop the other one, and with it a        *)
(* division by zero, or in HAVING a crash.  Over no rows they may also     *)
(* leave None where the plain plan has FALSE, and the two are not equal.   *)
OptimizerKeepsMeaning ==
    stage = "optimized" =>
        LET plain == ExecutePlan(Build(stmt), table)
            dropped == \/ plain.error = ExecError
                       \/ plain.error = Crash /\ stmt.having # <<>>
        IN  /\ dropped \/ NothingToAggregate \/ ExecutePlan(plan, table) = plain
            /\ Len(plan) <= Len(Build(stmt))

(* Row i of a list comes before row j: by the first column of ORDER BY in  *)
(* which they differ, or by their order in the table if there is none.     *)
Precedes(rows, i, j) ==
    LET value(k, o) == rows[k][Index[stmt.order[o].column]]
        differ == {o \in DOMAIN stmt.order : value(i, o) # value(j, o)}
        first == CHOOSE o \in differ : \A p \in differ : o <= p
    IN  IF differ = {} THEN i < j
        ELSE IF stmt.order[first].descending
             THEN value(i, first) > value(j, first)
             ELSE value(i, first) < value(j, first)

Picked(row) ==
    IF stmt.items = <<>> THEN row
    ELSE [i \in DOMAIN stmt.items |-> row[Index[stmt.items[i].name]]]

(* A SELECT without aggregates returns the rows its condition holds of, in *)
(* the order asked for, cut and projected.                                 *)
PlainSelect ==
    (stage = "answered" /\ stmt.kind = "select" /\ ~ Grouped(stmt)
        /\ answer.error # SemanticError /\ Evaluates(stmt.where)) =>
        LET rank(i) == Cardinality({j \in DOMAIN Chosen : Precedes(Chosen, j, i)}) + 1
            kept == {i \in DOMAIN Chosen : \A n \in Range(stmt.limit) : rank(i) <= n}
        IN  /\ answer.error = None
            /\ Len(answer.rows) = Cardinality(kept)
            /\ \A i \in kept : answer.rows[rank(i)] = Picked(Chosen[i])

(* v is what the aggregate e is of some rows *)
IsValueOf(v, e, members) ==
    LET value(i) == Evaluate(e.argument, On(members[i]))
        total == FoldFunction(LAMBDA x, y : x + y, 0, [i \in DOMAIN members |-> value(i)])
        attained == \E i \in DOMAIN members : value(i) = v
    IN  CASE e.node # "aggregate"    -> FALSE
          [] e.star                  -> v = Cardinality(DOMAIN members)
          [] e.function = "COUNT"    ->
                v = IF e.distinct THEN Cardinality({value(i) : i \in DOMAIN members})
                    ELSE Cardinality(DOMAIN members)
          [] members = <<>>          -> v = None
          [] e.function = "SUM"      -> v = total
          [] e.function = "AVG"      -> v * Len(members) <= total /\ total < (v + 1) * Len(members)
          [] e.function = "MIN"      -> attained /\ \A i \in DOMAIN members : v <= value(i)
          [] e.function = "MAX"      -> attained /\ \A i \in DOMAIN members : v >= value(i)

GroupedSelect ==
    (stage = "answered" /\ stmt.kind = "select" /\ Grouped(stmt)
        /\ stmt.order = <<>> /\ stmt.having = <<>> /\ stmt.limit = <<>>
        /\ answer.error # SemanticError /\ Evaluates(stmt.where)) =>
        LET keyOf(out) == SubSeq(out, 1, Len(stmt.group))
            inGroup(out) == SelectSeq(Chosen, LAMBDA row : Key(stmt.group, row) = keyOf(out))
            wanted == Aggregates(stmt)
        IN  /\ answer.error = None
            /\ \A i, j \in DOMAIN answer.rows :
                  keyOf(answer.rows[i]) = keyOf(answer.rows[j]) => i = j
            /\ \A k \in DOMAIN Chosen : \E i \in DOMAIN answer.rows :
                  keyOf(answer.rows[i]) = Key(stmt.group, Chosen[k])
            /\ \A i \in DOMAIN answer.rows :
                  /\ stmt.group # <<>> => inGroup(answer.rows[i]) # <<>>
                  /\ \A a \in DOMAIN wanted :
                        IsValueOf(answer.rows[i][Len(stmt.group) + a], wanted[a],
                                  inGroup(answer.rows[i]))

(* A SELECT whose condition has a value on every row returns the rows it   *)
(* holds of, in the order asked for, cut and projected in that order; if   *)
(* grouped, without ORDER BY, HAVING and LIMIT, one row for every group,   *)
(* in which each aggregate is that of the group's rows: analysis, plan,    *)
(* folding and operators together.                                         *)
SelectsWhatItSays == PlainSelect /\ GroupedSelect

(* What the analyser accepts the executor can run: an unexpected exception *)
(* takes an ORDER BY or a HAVING over groups, or an aggregate of strings   *)
(* among the values of an INSERT.                                          *)
CrashesOnlyOnGroups ==
    answer.error = Crash =>
        \/ stmt.kind = "insert" /\ \E e \in Range(stmt.values) : IsAggregate(e)
        \/ Grouped(stmt) /\ (stmt.order # <<>> \/ stmt.having # <<>>)

(* A statement that raises leaves the table alone.  DELETE takes away the  *)
(* rows it names.  UPDATE computes all values from the row as it was, in   *)
(* whatever order the columns are named.  INSERT puts the values under the *)
(* names given to them.  No number outside INT is ever stored.             *)
Given(c) == {i \in DOMAIN stmt.set : stmt.set[i].column = c}
Updated(row) ==
    [k \in DOMAIN row |->
        IF Given(Columns[k]) = {} THEN row[k]
        ELSE LET i == CHOOSE i \in Given(Columns[k]) : TRUE
             IN  Evaluate(stmt.set[i].value, On(row))]
WriteEffect ==
    IF answer'.error # None THEN table' = table
    ELSE CASE stmt.kind = "select" -> table' = table
           [] stmt.kind = "delete" -> Evaluates(stmt.where) =>
                 table' = SelectSeq(table, LAMBDA row : ~ Holds(stmt.where, row))
           [] stmt.kind = "update" -> Evaluates(stmt.where) =>
                 table' = [i \in DOMAIN table |->
                              IF Holds(stmt.where, table[i])
                              THEN Updated(table[i]) ELSE table[i]]
           [] stmt.kind = "insert" ->
                 /\ Len(table') = Len(table) + 1
                 /\ SubSeq(table', 1, Len(table)) = table
                 /\ \A i \in DOMAIN Targets(stmt) :
                       Last(table')[Index[Targets(stmt)[i]]]
                           = Evaluate(stmt.values[i], NoSource)
Storable(rows) ==
    \A i \in DOMAIN rows : \A k \in DOMAIN Columns :
        rows[i][k] \in (IF Kinds[Columns[k]] = "INT" THEN IntMin..IntMax ELSE 0..Width)
WritesAreExact == [][stage = "optimized" => WriteEffect /\ Storable(table')]_vars
=============================================================================

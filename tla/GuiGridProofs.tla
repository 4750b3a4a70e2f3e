----------------------------- MODULE GuiGridProofs -----------------------------
(***************************************************************************)
(* The grid's row buttons reach the row the user saw, and the grid at rest *)
(* is up to date: for any directories, tables, rows and values, and any    *)
(* number of clicks.                                                       *)
(***************************************************************************)
EXTENDS GuiGrid, TLAPS

-----------------------------------------------------------------------------
(* The inductive invariant.                                                *)

IsRow(row, columns) == row = [c \in Range(columns) |-> row[c]]

(* What a statement carries, by its kind.                                  *)
WellFormed(s) ==
    /\ s.verb # "none"
    /\ s.verb = "SelectStmt" => s.old = <<>> /\ s.new = <<>>
    /\ s.verb \in {"InsertStmt", "UpdateStmt"} =>
          s.new # <<>> /\ s.new = [c \in DOMAIN s.new |-> s.new[c]]
    /\ s.verb = "open" => s.table \in DOMAIN Contents

StoreInv ==
    /\ dir \in DOMAIN Contents
    /\ DOMAIN store = DOMAIN Contents
    /\ \A d \in DOMAIN Contents :
          /\ DOMAIN store[d] \subseteq DOMAIN Layouts[d]
          /\ \A t \in DOMAIN store[d] : \A row \in DOMAIN store[d][t] :
                IsRow(row, Layouts[d][t])

(* One request is out at a time, and a dialog sends none by itself.        *)
FlightInv ==
    /\ busy \in BOOLEAN
    /\ ~ busy => request = Nothing /\ response = Nothing
    /\ response # Nothing => request = Nothing
    /\ request # Nothing => WellFormed(request)
    /\ dialog # Nothing =>
          /\ WellFormed(dialog)
          /\ dialog.verb \in {"InsertStmt", "DropTableStmt", "DeleteStmt", "UpdateStmt"}

(* At rest, the object tree has the tables there are.                      *)
TreeInv ==
    /\ \A t \in DOMAIN tree : Range(tree[t]) # {}
    /\ ~ busy => tree = Snapshot
    /\ response # Nothing /\ response.verb \in {"schema", "open"} =>
          response.tables = Snapshot

LinesOf(rows, columns) ==
    {[i \in DOMAIN columns |-> row[columns[i]]] : row \in DOMAIN rows}

(* What is on show is in its table: of the grid, unless a statement that   *)
(* failed has changed that table, or of the answer that is to replace it.  *)
IsCurrent(shown) ==
    shown.lines # {} =>
        /\ shown.dir \in DOMAIN store
        /\ shown.table \in DOMAIN store[shown.dir]
        /\ shown.lines = LinesOf(store[shown.dir][shown.table], shown.columns)
        /\ shown.columns = <<>> => Layouts[shown.dir][shown.table] = <<>>
CurrentInv ==
    IF Replaces THEN IsCurrent(response.grid) ELSE torn \/ IsCurrent(grid)

(* The grid shows the table the row buttons work on, all of its columns.   *)
IsAimed(shown) ==
    shown.lines # {} =>
        /\ current \in DOMAIN Tables
        /\ shown.dir = dir /\ shown.table = current
        /\ shown.columns = Layouts[dir][current]
        /\ shown.lines = LinesOf(Tables[current], shown.columns)

(* A chain of requests and answers that the user has waited for keeps the  *)
(* grid aimed, or replaces it by one that is.                              *)
CalmInv ==
    done = {} =>
        /\ dialog # Nothing => ~ busy
        /\ ~ busy => IsAimed(grid)
        /\ request # Nothing =>
              /\ request.verb # "open"
              /\ request.verb = "SelectStmt" =>
                    /\ request.table = current /\ request.columns = <<>>
                    /\ IsAimed(grid) \/ current \in DOMAIN Tables
              /\ request.verb # "SelectStmt" => IsAimed(grid)
              /\ request.verb = "UpdateStmt" => follow = current
        /\ response # Nothing =>
              /\ response.verb # "open"
              /\ IF Replaces THEN IsAimed(response.grid) ELSE IsAimed(grid)
              /\ response.verb = "UpdateStmt" => follow = current

HitsMeant(s) ==
    s.verb \in {"DeleteStmt", "UpdateStmt"} /\ s.meant # None /\ s.calm =>
        /\ s.meant = [dir |-> dir, table |-> s.table, row |-> s.old]
        /\ s.table \in DOMAIN Tables
        /\ s.old \in DOMAIN Tables[s.table]

AimInv ==
    /\ CalmInv
    /\ dialog # Nothing =>
          /\ dialog.calm => done = {} /\ ~ busy
          /\ dialog.verb = "UpdateStmt" => dialog.table = current
          /\ HitsMeant(dialog)
    /\ request # Nothing => HitsMeant(request)

GridInv == StoreInv /\ FlightInv /\ TreeInv /\ CurrentInv /\ AimInv

-----------------------------------------------------------------------------
(* Lemmas on rows and bags.                                                *)

(* A displayed line gives its row back.                                    *)
LEMMA ZipOfLine ==
    ASSUME NEW columns, NEW row, IsRow(row, columns)
    PROVE  Zip(columns, [i \in DOMAIN columns |-> row[columns[i]]]) = row
<1> DEFINE line == [i \in DOMAIN columns |-> row[columns[i]]]
           S == {columns[i] : i \in DOMAIN columns}
<1>1. DOMAIN line = DOMAIN columns
  OBVIOUS
<1>2. {columns[i] : i \in DOMAIN columns \cap DOMAIN line} = S
  BY <1>1
<1>3. ASSUME NEW c \in S
      PROVE  line[CHOOSE i \in DOMAIN columns : columns[i] = c] = row[c]
  <2> DEFINE i == CHOOSE i \in DOMAIN columns : columns[i] = c
  <2>1. i \in DOMAIN columns /\ columns[i] = c
    BY <1>3
  <2> HIDE DEF i
  <2>2. line[i] = row[c]
    BY <2>1
  <2> QED
    BY <2>2 DEF i
<1>4. Zip(columns, line) = [c \in S |-> row[c]]
  <2>1. Zip(columns, line) =
            [c \in S |-> line[CHOOSE i \in DOMAIN columns : columns[i] = c]]
    BY <1>2 DEF Zip
  <2> HIDE DEF line, S
  <2> QED
    BY <1>3, <2>1
<1>5. Range(columns) = S
  BY DEF Range
<1> HIDE DEF S, line
<1> QED
  BY <1>4, <1>5 DEF IsRow, line

LEMMA RowIsRow ==
    ASSUME NEW columns, NEW row \in RowsOver(columns)
    PROVE  /\ IsRow(row, columns) /\ DOMAIN row = Range(columns)
           /\ row = [c \in DOMAIN row |-> row[c]]
           /\ Range(columns) # {} => row # <<>>
<1> QED
  BY DEF RowsOver, IsRow

(* A statement leaves in a table its rows, and the one it brings, however  *)
(* far it came.                                                            *)
LEMMA RowsLeft ==
    ASSUME NEW s, NEW n, s.table \in DOMAIN Tables
    PROVE  /\ DOMAIN RowsAfter(s, n) \subseteq DOMAIN Tables[s.table] \cup {s.new}
           /\ s.verb \notin {"InsertStmt", "DeleteStmt", "UpdateStmt"} =>
                 RowsAfter(s, n) = Tables[s.table]
           /\ s.verb \notin {"InsertStmt", "UpdateStmt"} =>
                 DOMAIN RowsAfter(s, n) \subseteq DOMAIN Tables[s.table]
<1> DEFINE rows == Tables[s.table]
           less == rows (-) Copies(s.old, n)
<1> HIDE DEF rows
<1>1. DOMAIN less \subseteq DOMAIN rows
  BY DEF (-)
<1> HIDE DEF less
<1>2. CASE s.verb = "InsertStmt"
  <2>1. RowsAfter(s, n) = rows (+) SetToBag({s.new})
    BY <1>2 DEF RowsAfter, rows
  <2> QED
    BY <1>2, <2>1 DEF rows, (+), SetToBag
<1>3. CASE s.verb = "DeleteStmt"
  <2>1. RowsAfter(s, n) = less
    BY <1>3 DEF RowsAfter, rows, less
  <2> QED
    BY <1>1, <1>3, <2>1 DEF rows
<1>4. CASE s.verb = "UpdateStmt"
  <2>1. RowsAfter(s, n) = less (+) Copies(s.new, n)
    BY <1>4 DEF RowsAfter, rows, less
  <2>2. DOMAIN Copies(s.new, n) \subseteq {s.new}
    BY DEF Copies
  <2>3. DOMAIN RowsAfter(s, n) \subseteq DOMAIN less \cup {s.new}
    BY <2>1, <2>2 DEF (+)
  <2> QED
    BY <1>1, <1>4, <2>3 DEF rows
<1>5. CASE s.verb \notin {"InsertStmt", "DeleteStmt", "UpdateStmt"}
  <2>1. RowsAfter(s, n) = Tables[s.table]
    BY <1>5 DEF RowsAfter
  <2> QED
    BY <2>1
<1> QED
  BY <1>2, <1>3, <1>4, <1>5

-----------------------------------------------------------------------------
(* The initial state.                                                      *)

LEMMA InitHolds == Init => GridInv
<1> SUFFICES ASSUME Init PROVE GridInv
  OBVIOUS
<1> USE DEF Init
<1>1. StoreInv
  <2>1. \A d \in DOMAIN Contents : \A t \in DOMAIN Contents[d] :
           \A row \in DOMAIN Contents[d][t] : IsRow(row, Layouts[d][t])
    BY GuiGridAssumption DEF IsRow
  <2> QED
    BY <2>1, GuiGridAssumption DEF StoreInv
<1>2. Schema # Nothing /\ Schema.verb = "schema"
  BY DEF Schema, Statement, Nothing
<1>3. FlightInv
  BY <1>2 DEF FlightInv, WellFormed
<1>4. TreeInv
  BY DEF TreeInv
<1>5. CurrentInv
  BY DEF CurrentInv, IsCurrent, Replaces, EmptyGrid
<1>6. AimInv
  BY <1>2 DEF AimInv, CalmInv, IsAimed, EmptyGrid, HitsMeant
<1> QED
  BY <1>1, <1>3, <1>4, <1>5, <1>6 DEF GridInv

-----------------------------------------------------------------------------
(* What the user does.                                                     *)

LEMMA StatementIs ==
    ASSUME NEW verb, NEW table, NEW columns, NEW old, NEW fresh
    PROVE  LET s == Statement(verb, table, columns, old, fresh) IN
           /\ s.verb = verb /\ s.table = table /\ s.columns = columns
           /\ s.old = old /\ s.new = fresh /\ s.meant = None
           /\ s.calm = (~ busy /\ done = {})
           /\ s # Nothing \/ verb = "none"
<1> QED
  BY DEF Statement, Nothing

LEMMA BrowseIs ==
    ASSUME NEW t
    PROVE  /\ Browse(t) # Nothing /\ WellFormed(Browse(t))
           /\ Browse(t).verb = "SelectStmt" /\ Browse(t).table = t /\ Browse(t).columns = <<>>
<1> QED
  BY DEF Browse, Statement, Nothing, WellFormed

LEMMA SchemaIs == Schema # Nothing /\ WellFormed(Schema) /\ Schema.verb = "schema"
<1> QED
  BY DEF Schema, Statement, Nothing, WellFormed

(* A request that goes out disturbs nothing but what it is itself for.     *)
LEMMA ClickStep ==
    ASSUME GridInv, NEW s, WellFormed(s), s # Nothing,
           Submit(s) \/ UNCHANGED <<busy, request>>,
           UNCHANGED <<dir, store, tree, grid, response, torn>>,
           dialog' # Nothing =>
              /\ WellFormed(dialog')
              /\ dialog'.verb \in {"InsertStmt", "DropTableStmt", "DeleteStmt", "UpdateStmt"}
    PROVE  StoreInv' /\ FlightInv' /\ TreeInv' /\ CurrentInv'
<1>0. \/ UNCHANGED <<busy, request>>
      \/ ~ busy /\ busy' = TRUE /\ request' = s
  BY DEF Submit
<1>1. StoreInv'
  BY DEF GridInv, StoreInv, IsRow
<1>2. FlightInv'
  <2>1. WellFormed(s)' = WellFormed(s)
    BY DEF WellFormed
  <2> QED
    BY <1>0, <2>1 DEF GridInv, FlightInv, WellFormed
<1>3. TreeInv'
  BY <1>0 DEF GridInv, TreeInv, FlightInv, Snapshot, Tables
<1>4. CurrentInv'
  BY DEF GridInv, CurrentInv, IsCurrent, Replaces, LinesOf
<1> QED
  BY <1>1, <1>2, <1>3, <1>4

(* What is aimed stays so while the store and the choice of table do.      *)
LEMMA StillAimed ==
    ASSUME UNCHANGED <<dir, store, current>>, NEW shown
    PROVE  IsAimed(shown) <=> (IsAimed(shown))'
<1> QED
  BY DEF IsAimed, Tables, LinesOf

LEMMA StillHits ==
    ASSUME UNCHANGED <<dir, store>>, NEW s
    PROVE  HitsMeant(s) <=> HitsMeant(s)'
<1> QED
  BY DEF HitsMeant, Tables

LEMMA OpenTableHolds ==
    ASSUME GridInv, NEW t, OpenTable(t)
    PROVE  GridInv'
<1> USE DEF OpenTable, Opened
<1>1. UNCHANGED <<dir, store, tree, grid, follow, dialog, response, torn>> /\ dialog = Nothing
  BY DEF Free
<1>2. StoreInv' /\ FlightInv' /\ TreeInv' /\ CurrentInv'
  <2> DEFINE s == Browse(t)
  <2>1. s # Nothing /\ WellFormed(s) /\ Submit(s)
    BY BrowseIs
  <2> HIDE DEF s, OpenTable
  <2> QED
    BY <1>1, <2>1, ClickStep
<1>3. CASE busy
  BY <1>1, <1>2, <1>3 DEF GridInv, AimInv, CalmInv, HitsMeant, Submit, Haste, Tables
<1>4. CASE ~ busy
  <2>1. t \in DOMAIN Tables
    BY <1>4 DEF GridInv, TreeInv, Snapshot
  <2>2. request' = Browse(t) /\ busy' = TRUE /\ current' = t /\ response' = Nothing
    BY <1>1, <1>4 DEF Submit, GridInv, FlightInv
  <2>3. /\ request'.verb = "SelectStmt" /\ request'.table = t /\ request'.columns = <<>>
    BY <2>2, BrowseIs
  <2>4. CalmInv'
    BY <1>1, <2>1, <2>2, <2>3 DEF CalmInv, Tables
  <2>5. HitsMeant(request)'
    BY <2>3 DEF HitsMeant
  <2> QED
    BY <1>1, <1>2, <2>4, <2>5 DEF GridInv, AimInv
<1> QED
  BY <1>3, <1>4, <1>2 DEF GridInv, FlightInv

LEMMA RefreshHolds ==
    ASSUME GridInv, Refresh
    PROVE  GridInv'
<1>1. /\ UNCHANGED <<dir, store, tree, current, grid, follow, dialog, response, done, torn>>
      /\ dialog = Nothing
  BY DEF Refresh, Free, view
<1>2. PICK s : /\ Submit(s) /\ s # Nothing /\ WellFormed(s)
               /\ \/ s.verb = "schema"
                  \/ s.verb = "SelectStmt" /\ s.table = current /\ s.columns = <<>>
  <2>1. CASE Submit(Schema)
    BY <2>1, SchemaIs
  <2>2. CASE Submit(Browse(current))
    <3> DEFINE s == Browse(current)
    <3>1. Submit(s) /\ s # Nothing /\ WellFormed(s)
            /\ s.verb = "SelectStmt" /\ s.table = current /\ s.columns = <<>>
      BY <2>2, BrowseIs
    <3> HIDE DEF s
    <3> QED
      BY <3>1
  <2> QED
    BY <2>1, <2>2 DEF Refresh
<1>3. StoreInv' /\ FlightInv' /\ TreeInv' /\ CurrentInv'
  BY <1>1, <1>2, ClickStep
<1>4. CASE busy
  <2>1. UNCHANGED <<busy, request>>
    BY <1>2, <1>4 DEF Submit
  <2>2. AimInv'
    BY <1>1, <2>1 DEF GridInv, AimInv, CalmInv, HitsMeant, Tables, IsAimed, LinesOf, Replaces
  <2> QED
    BY <1>3, <2>2 DEF GridInv
<1>5. CASE ~ busy
  <2>1. busy' = TRUE /\ request' = s /\ response' = Nothing
    BY <1>1, <1>2, <1>5 DEF Submit, GridInv, FlightInv
  <2>2. done = {} => IsAimed(grid)
    BY <1>5 DEF GridInv, AimInv, CalmInv
  <2>3. done' = {} => IsAimed(grid)'
    BY <1>1, <2>2 DEF IsAimed, Tables, LinesOf
  <2>4. CalmInv'
    BY <1>1, <1>2, <2>1, <2>3 DEF CalmInv
  <2> QED
    BY <1>1, <1>2, <1>3, <2>1, <2>4 DEF GridInv, AimInv, HitsMeant
<1> QED
  BY <1>4, <1>5, <1>3 DEF GridInv, FlightInv

(* An action after which the user is no longer calm.                       *)
LEMMA HastyStep ==
    ASSUME GridInv, NEW s, WellFormed(s), s # Nothing, Submit(s),
           s.verb \in {"DeleteStmt", "UpdateStmt"} => s.meant = None,
           UNCHANGED <<dir, store, tree, current, grid, follow, dialog, response, torn>>,
           dialog = Nothing, done' # {}
    PROVE  GridInv'
<1>1. StoreInv' /\ FlightInv' /\ TreeInv' /\ CurrentInv'
  BY ClickStep
<1>2. UNCHANGED <<busy, request>> \/ request' = s
  BY DEF Submit
<1>3. request' # Nothing => HitsMeant(request)'
  BY <1>2 DEF GridInv, AimInv, HitsMeant, Tables
<1>4. CalmInv'
  BY DEF CalmInv
<1> QED
  BY <1>1, <1>3, <1>4 DEF GridInv, AimInv

(* A write or a change of tables that the user asks for in the console.    *)
LEMMA CalmStep ==
    ASSUME GridInv, NEW s, WellFormed(s), s # Nothing, Submit(s), s.meant = None,
           s.verb \notin {"SelectStmt", "UpdateStmt", "open"},
           UNCHANGED <<dir, store, tree, current, grid, follow, dialog, response, torn>>,
           dialog = Nothing, done' = done
    PROVE  GridInv'
<1>1. StoreInv' /\ FlightInv' /\ TreeInv' /\ CurrentInv'
  BY ClickStep
<1>2. CASE busy
  <2>1. UNCHANGED <<busy, request>>
    BY <1>2 DEF Submit
  <2>2. AimInv'
    BY <2>1 DEF GridInv, AimInv, CalmInv, HitsMeant, Tables, IsAimed, LinesOf, Replaces
  <2> QED
    BY <1>1, <2>2 DEF GridInv
<1>3. CASE ~ busy
  <2>1. busy' = TRUE /\ request' = s /\ response' = Nothing
    BY <1>3 DEF Submit, GridInv, FlightInv
  <2>2. done = {} => IsAimed(grid)
    BY <1>3 DEF GridInv, AimInv, CalmInv
  <2>3. done' = {} => IsAimed(grid)'
    BY <2>2 DEF IsAimed, Tables, LinesOf
  <2>4. CalmInv'
    BY <2>1, <2>3 DEF CalmInv
  <2> QED
    BY <1>1, <2>1, <2>4 DEF GridInv, AimInv, HitsMeant
<1> QED
  BY <1>2, <1>3 DEF GridInv, FlightInv

LEMMA ConsoleHolds ==
    ASSUME GridInv, NEW t, Console(t)
    PROVE  GridInv'
<1> DEFINE columns == Layouts[dir][t]
<1>0. dir \in DOMAIN Layouts /\ t \in DOMAIN Layouts[dir]
  BY GuiGridAssumption DEF Console, GridInv, StoreInv
<1>1. /\ UNCHANGED <<dir, store, tree, current, grid, follow, dialog, response, torn>>
      /\ dialog = Nothing
  BY DEF Console, Free, view
<1>2. ASSUME NEW shown,
             Submit(Statement("SelectStmt", t, shown, <<>>, <<>>)),
             done' = done \cup {"console"}
      PROVE  GridInv'
  <2> DEFINE s == Statement("SelectStmt", t, shown, <<>>, <<>>)
  <2>1. s # Nothing /\ WellFormed(s) /\ Submit(s) /\ s.meant = None
    BY <1>2 DEF Statement, Nothing, WellFormed
  <2> HIDE DEF s
  <2> QED
    BY <1>1, <1>2, <2>1, HastyStep
<1>3. ASSUME NEW old \in RowsOver(columns), NEW fresh \in RowsOver(columns),
             Submit(Statement("UpdateStmt", t, columns, old, fresh)),
             done' = done \cup {"console"}
      PROVE  GridInv'
  <2> DEFINE s == Statement("UpdateStmt", t, columns, old, fresh)
  <2>0. fresh # <<>> /\ fresh = [c \in DOMAIN fresh |-> fresh[c]]
    BY <1>0, GuiGridAssumption, RowIsRow
  <2>1. s # Nothing /\ WellFormed(s) /\ Submit(s) /\ s.meant = None
    BY <1>3, <2>0 DEF Statement, Nothing, WellFormed
  <2> HIDE DEF s
  <2> QED
    BY <1>1, <1>3, <2>1, HastyStep
<1>4. ASSUME NEW old \in RowsOver(columns),
             Submit(Statement("DeleteStmt", t, columns, old, <<>>)), done' = done
      PROVE  GridInv'
  <2> DEFINE s == Statement("DeleteStmt", t, columns, old, <<>>)
  <2>1. /\ s # Nothing /\ WellFormed(s) /\ Submit(s) /\ s.meant = None
        /\ s.verb = "DeleteStmt"
    BY <1>4 DEF Statement, Nothing, WellFormed
  <2> HIDE DEF s
  <2> QED
    BY <1>1, <1>4, <2>1, CalmStep
<1>5. ASSUME NEW fresh \in RowsOver(columns),
             Submit(Statement("InsertStmt", t, columns, <<>>, fresh)), done' = done
      PROVE  GridInv'
  <2> DEFINE s == Statement("InsertStmt", t, columns, <<>>, fresh)
  <2>0. fresh # <<>> /\ fresh = [c \in DOMAIN fresh |-> fresh[c]]
    BY <1>0, GuiGridAssumption, RowIsRow
  <2>1. /\ s # Nothing /\ WellFormed(s) /\ Submit(s) /\ s.meant = None
        /\ s.verb = "InsertStmt"
    BY <1>5, <2>0 DEF Statement, Nothing, WellFormed
  <2> HIDE DEF s
  <2> QED
    BY <1>1, <1>5, <2>1, CalmStep
<1>6. ASSUME NEW verb \in {"CreateTableStmt", "DropTableStmt"},
             Submit(Statement(verb, t, <<>>, <<>>, <<>>)), done' = done
      PROVE  GridInv'
  <2> DEFINE s == Statement(verb, t, <<>>, <<>>, <<>>)
  <2>1. /\ s # Nothing /\ WellFormed(s) /\ Submit(s) /\ s.meant = None
        /\ s.verb = verb
    BY <1>6 DEF Statement, Nothing, WellFormed
  <2> HIDE DEF s
  <2> QED
    BY <1>1, <1>6, <2>1, CalmStep
<1> QED
  BY <1>2, <1>3, <1>4, <1>5, <1>6 DEF Console

LEMMA OpenDirectoryHolds ==
    ASSUME GridInv, NEW d, OpenDirectory(d)
    PROVE  GridInv'
<1> DEFINE s == Statement("open", d, <<>>, <<>>, <<>>)
<1>1. s # Nothing /\ WellFormed(s) /\ Submit(s) /\ s.meant = None
  BY DEF OpenDirectory, Statement, Nothing, WellFormed
<1>2. /\ UNCHANGED <<dir, store, tree, current, grid, follow, dialog, response, torn>>
      /\ dialog = Nothing /\ done' # {}
  BY DEF OpenDirectory, Free, view
<1> HIDE DEF s
<1> QED
  BY <1>1, <1>2, HastyStep

(* A dialog opens: in haste nothing is promised of it, at rest its row is  *)
(* the one on show.                                                        *)
LEMMA DialogStep ==
    ASSUME GridInv, WellFormed(dialog'),
           UNCHANGED <<dir, store, tree, current, grid, follow, busy, request, response, torn>>,
           dialog'.verb \in {"InsertStmt", "DropTableStmt", "DeleteStmt", "UpdateStmt"},
           dialog'.calm = (~ busy /\ done = {}), done' = Haste,
           dialog'.verb = "UpdateStmt" => dialog'.table = current,
           ~ busy /\ done = {} => HitsMeant(dialog')
    PROVE  GridInv'
<1>1. Submit(Schema) \/ UNCHANGED <<busy, request>>
  OBVIOUS
<1>2. StoreInv' /\ FlightInv' /\ TreeInv' /\ CurrentInv'
  BY <1>1, SchemaIs, ClickStep
<1>3. CASE busy
  <2>1. done' # {}
    BY <1>3 DEF Haste
  <2>2. HitsMeant(dialog)' /\ ~ dialog'.calm
    BY <1>3 DEF HitsMeant
  <2>3. request' # Nothing => HitsMeant(request)'
    BY DEF GridInv, AimInv, HitsMeant, Tables
  <2> QED
    BY <1>2, <2>1, <2>2, <2>3 DEF GridInv, AimInv, CalmInv
<1>4. CASE ~ busy
  <2>1. done' = done /\ request' = Nothing /\ response' = Nothing
    BY <1>4 DEF Haste, GridInv, FlightInv
  <2>2. done = {} => IsAimed(grid)
    BY <1>4 DEF GridInv, AimInv, CalmInv
  <2>3. done' = {} => IsAimed(grid)'
    BY <2>1, <2>2 DEF IsAimed, Tables, LinesOf
  <2>4. CalmInv'
    BY <1>4, <2>1, <2>3 DEF CalmInv
  <2>5. HitsMeant(dialog)'
    BY DEF HitsMeant, Tables
  <2> QED
    BY <1>2, <1>4, <2>1, <2>4, <2>5 DEF GridInv, AimInv
<1> QED
  BY <1>3, <1>4 DEF GridInv, FlightInv

LEMMA InsertRowHolds ==
    ASSUME GridInv, NEW t, InsertRow(t)
    PROVE  GridInv'
<1>1. /\ UNCHANGED <<dir, store, tree, current, grid, follow, busy, request, response, torn>>
      /\ t \in DOMAIN tree /\ done' = Haste
  BY DEF InsertRow, view
<1>2. PICK fresh \in RowsOver(tree[t]) :
          dialog' = Statement("InsertStmt", t, tree[t], <<>>, fresh)
  BY DEF InsertRow
<1>3. fresh # <<>> /\ fresh = [c \in DOMAIN fresh |-> fresh[c]]
  BY <1>1, RowIsRow DEF GridInv, TreeInv
<1>4. /\ WellFormed(dialog') /\ dialog'.verb = "InsertStmt"
      /\ dialog'.calm = (~ busy /\ done = {})
  BY <1>2, <1>3 DEF Statement, WellFormed
<1>5. HitsMeant(dialog')
  BY <1>4 DEF HitsMeant
<1> QED
  BY <1>1, <1>4, <1>5, DialogStep

LEMMA DropTableHolds ==
    ASSUME GridInv, NEW t, DropTable(t)
    PROVE  GridInv'
<1>1. /\ UNCHANGED <<dir, store, tree, current, grid, follow, busy, request, response, torn>>
      /\ done' = Haste
  BY DEF DropTable, view
<1>4. /\ WellFormed(dialog') /\ dialog'.verb = "DropTableStmt"
      /\ dialog'.calm = (~ busy /\ done = {})
  BY DEF DropTable, Statement, WellFormed
<1>5. HitsMeant(dialog')
  BY <1>4 DEF HitsMeant
<1> QED
  BY <1>1, <1>4, <1>5, DialogStep

(* At rest and calm, the selected line names its row of the current table. *)
LEMMA LineNamesItsRow ==
    ASSUME GridInv, ~ busy, done = {}, NEW line \in grid.lines
    PROVE  /\ Meant(line) = [dir |-> dir, table |-> current, row |-> Zip(tree[current], line)]
           /\ current \in DOMAIN Tables
           /\ Zip(tree[current], line) \in DOMAIN Tables[current]
<1>1. IsAimed(grid) /\ tree = Snapshot
  BY DEF GridInv, AimInv, CalmInv, TreeInv
<1>2. /\ current \in DOMAIN Tables
      /\ grid.dir = dir /\ grid.table = current
      /\ grid.columns = Layouts[dir][current]
      /\ grid.lines = LinesOf(Tables[current], grid.columns)
  BY <1>1 DEF IsAimed
<1>3. tree[current] = grid.columns
  BY <1>1, <1>2 DEF Snapshot
<1>4. PICK row \in DOMAIN Tables[current] :
          line = [i \in DOMAIN grid.columns |-> row[grid.columns[i]]]
  BY <1>2 DEF LinesOf
<1>5. IsRow(row, grid.columns)
  BY <1>2, <1>4 DEF GridInv, StoreInv, Tables
<1>6. Zip(grid.columns, line) = row
  BY <1>4, <1>5, ZipOfLine
<1> QED
  BY <1>2, <1>3, <1>4, <1>6 DEF Meant

LEMMA RowButtonHolds ==
    ASSUME GridInv, NEW line, RowButton(line)
    PROVE  GridInv'
<1> DEFINE columns == tree[current]
           old == Zip(columns, line)
<1>1. /\ UNCHANGED <<dir, store, tree, current, grid, follow, busy, request, response, torn>>
      /\ done' = Haste /\ line \in grid.lines /\ current \in DOMAIN tree
  BY DEF RowButton, view
<1>2. PICK verb, fresh :
          /\ verb \in {"DeleteStmt", "UpdateStmt"}
          /\ dialog' = [Statement(verb, current, columns, old, fresh)
                          EXCEPT !.meant = Meant(line)]
          /\ verb = "UpdateStmt" => fresh \in RowsOver(columns)
  BY DEF RowButton
<1>3. verb = "UpdateStmt" => fresh # <<>> /\ fresh = [c \in DOMAIN fresh |-> fresh[c]]
  BY <1>1, <1>2, RowIsRow DEF GridInv, TreeInv
<1> HIDE DEF columns, old
<1>4. /\ dialog'.verb = verb /\ dialog'.table = current /\ dialog'.new = fresh
      /\ dialog'.old = old /\ dialog'.meant = Meant(line)
      /\ dialog'.calm = (~ busy /\ done = {})
  BY <1>2 DEF Statement
<1>5. WellFormed(dialog')
  BY <1>2, <1>3, <1>4 DEF WellFormed
<1>6. ~ busy /\ done = {} => HitsMeant(dialog')
  BY <1>1, <1>4, LineNamesItsRow DEF HitsMeant, old, columns
<1> QED
  BY <1>1, <1>2, <1>4, <1>5, <1>6, DialogStep

LEMMA ConfirmHolds ==
    ASSUME GridInv, Confirm
    PROVE  GridInv'
<1> DEFINE s == dialog
<1>1. /\ UNCHANGED <<dir, store, tree, current, grid, response, done, torn>>
      /\ s # Nothing /\ dialog' = Nothing /\ Submit(s)
      /\ follow' = IF s.verb = "UpdateStmt" THEN s.table ELSE follow
  BY DEF Confirm
<1>2. /\ WellFormed(s) /\ s.verb \notin {"SelectStmt", "open"}
      /\ s.verb = "UpdateStmt" => s.table = current
      /\ HitsMeant(s)
      /\ done = {} => ~ busy
  BY <1>1 DEF GridInv, FlightInv, AimInv, CalmInv
<1> HIDE DEF s
<1>3. StoreInv' /\ FlightInv' /\ TreeInv' /\ CurrentInv'
  BY <1>1, <1>2, ClickStep
<1>4. CASE busy
  <2>1. done' # {} /\ UNCHANGED <<busy, request>>
    BY <1>1, <1>2, <1>4 DEF Submit
  <2>2. request' # Nothing => HitsMeant(request)'
    BY <1>1, <2>1 DEF GridInv, AimInv, HitsMeant, Tables
  <2> QED
    BY <1>1, <1>3, <2>1, <2>2 DEF GridInv, AimInv, CalmInv
<1>5. CASE ~ busy
  <2>1. busy' = TRUE /\ request' = s /\ response' = Nothing
    BY <1>1, <1>5 DEF Submit, GridInv, FlightInv
  <2>2. done = {} => IsAimed(grid)
    BY <1>5 DEF GridInv, AimInv, CalmInv
  <2>3. done' = {} => IsAimed(grid)'
    BY <1>1, <2>2 DEF IsAimed, Tables, LinesOf
  <2>4. CalmInv'
    BY <1>1, <1>2, <2>1, <2>3 DEF CalmInv
  <2>5. HitsMeant(request)'
    BY <1>1, <1>2, <2>1 DEF HitsMeant, Tables
  <2> QED
    BY <1>1, <1>3, <2>4, <2>5 DEF GridInv, AimInv
<1> QED
  BY <1>4, <1>5 DEF GridInv, FlightInv

LEMMA CancelHolds ==
    ASSUME GridInv, Cancel
    PROVE  GridInv'
<1>1. /\ UNCHANGED <<dir, store, tree, current, grid, follow, busy, request, response, done, torn>>
      /\ dialog' = Nothing
  BY DEF Cancel, view
<1>2. StoreInv' /\ FlightInv' /\ TreeInv' /\ CurrentInv'
  BY <1>1, SchemaIs, ClickStep
<1>3. AimInv'
  BY <1>1 DEF GridInv, AimInv, CalmInv, HitsMeant, Tables, IsAimed, LinesOf, Replaces
<1> QED
  BY <1>2, <1>3 DEF GridInv

-----------------------------------------------------------------------------
(* What the worker does.                                                   *)

(* With a request in the worker's hands the window is busy, nothing waits  *)
(* for the poll, and a dialog on show was opened in haste.                 *)
LEMMA AtWork ==
    ASSUME GridInv, request # Nothing
    PROVE  /\ busy = TRUE /\ response = Nothing /\ WellFormed(request)
           /\ dialog # Nothing => done # {} /\ ~ dialog.calm
           /\ torn \/ IsCurrent(grid)
<1> QED
  BY DEF GridInv, FlightInv, AimInv, CalmInv, CurrentInv, Replaces

LEMMA ServeHolds ==
    ASSUME GridInv, Serve
    PROVE  GridInv'
<1>1. /\ UNCHANGED <<dir, store, tree, current, grid, follow, dialog, busy, done, torn>>
      /\ request # Nothing /\ request.verb = "schema" /\ request' = Nothing
      /\ response'.verb = "schema" /\ response'.tables = Snapshot
  BY DEF Serve, Answer, view
<1>2. StoreInv'
  BY <1>1 DEF GridInv, StoreInv, IsRow
<1>3. FlightInv' /\ TreeInv'
  BY <1>1, AtWork DEF GridInv, FlightInv, TreeInv, WellFormed, Snapshot, Tables
<1>4. CurrentInv'
  BY <1>1, AtWork DEF CurrentInv, Replaces, IsCurrent, LinesOf
<1>5. done = {} => IsAimed(grid)
  BY <1>1 DEF GridInv, AimInv, CalmInv
<1>6. done' = {} => IsAimed(grid)'
  BY <1>1, <1>5 DEF IsAimed, Tables, LinesOf
<1>7. CalmInv'
  BY <1>1, <1>6, AtWork DEF CalmInv, Replaces
<1>8. AimInv'
  BY <1>1, <1>7, AtWork DEF GridInv, AimInv, HitsMeant
<1> QED
  BY <1>2, <1>3, <1>4, <1>8 DEF GridInv

LEMMA SwitchHolds ==
    ASSUME GridInv, Switch
    PROVE  GridInv'
<1>1. /\ UNCHANGED <<store, tree, current, grid, follow, dialog, busy, done, torn>>
      /\ request # Nothing /\ request.verb = "open" /\ request' = Nothing
      /\ dir' = request.table
      /\ response'.verb = "open" /\ response'.tables = Snapshot'
  BY DEF Switch, Answer, view, Snapshot, Tables
<1>2. StoreInv'
  BY <1>1, AtWork DEF GridInv, StoreInv, IsRow, WellFormed
<1>3. FlightInv'
  BY <1>1, AtWork DEF GridInv, FlightInv, WellFormed
<1>4. TreeInv'
  BY <1>1, AtWork DEF GridInv, TreeInv
<1>5. CurrentInv'
  BY <1>1, AtWork DEF CurrentInv, Replaces, IsCurrent, LinesOf
<1>6. done' # {}
  BY <1>1 DEF GridInv, AimInv, CalmInv
<1>8. AimInv'
  BY <1>1, <1>6, AtWork DEF GridInv, AimInv, CalmInv, HitsMeant
<1> QED
  BY <1>2, <1>3, <1>4, <1>5, <1>8 DEF GridInv

(* What a statement may leave of the tables, done or failed.               *)
MayLeave(s, left) == left = TablesAfter(s) \/ left \in TablesTorn(s)

(* The tables of a directory with one table's rows changed.                *)
LEMMA RowsChanged ==
    ASSUME StoreInv, NEW s, WellFormed(s), s.verb # "CreateTableStmt", Accepted(s),
           NEW n, NEW left, left = [Tables EXCEPT ![s.table] = RowsAfter(s, n)]
    PROVE  /\ DOMAIN left = DOMAIN Tables
           /\ \A t \in DOMAIN Tables : t # s.table => left[t] = Tables[t]
           /\ \A row \in DOMAIN left[s.table] : IsRow(row, Layouts[dir][s.table])
           /\ s.verb = "SelectStmt" => left[s.table] = Tables[s.table]
<1> DEFINE rows == RowsAfter(s, n)
<1>1. s.table \in DOMAIN Tables
  BY DEF Accepted
<1>2. /\ DOMAIN rows \subseteq DOMAIN Tables[s.table] \cup {s.new}
      /\ s.verb \notin {"InsertStmt", "DeleteStmt", "UpdateStmt"} => rows = Tables[s.table]
      /\ s.verb \notin {"InsertStmt", "UpdateStmt"} => DOMAIN rows \subseteq DOMAIN Tables[s.table]
  BY <1>1, RowsLeft
<1> HIDE DEF rows
<1>3. /\ DOMAIN left = DOMAIN Tables /\ left[s.table] = rows
      /\ \A t \in DOMAIN Tables : t # s.table => left[t] = Tables[t]
  BY <1>1 DEF rows
<1>4. s.verb \in {"InsertStmt", "UpdateStmt"} => IsRow(s.new, Layouts[dir][s.table])
  BY DEF WellFormed, Accepted, IsRow
<1>5. \A row \in DOMAIN rows : IsRow(row, Layouts[dir][s.table])
  BY <1>1, <1>2, <1>4 DEF StoreInv, Tables
<1> QED
  BY <1>2, <1>3, <1>5

(* The tables have rows over their columns, and those the statement does   *)
(* not name are as they were; a query changes none.                        *)
LEMMA TablesAreSound ==
    ASSUME StoreInv, NEW s, WellFormed(s), Accepted(s), NEW left, MayLeave(s, left)
    PROVE  /\ DOMAIN left \subseteq DOMAIN Layouts[dir]
           /\ \A t \in DOMAIN left : \A row \in DOMAIN left[t] : IsRow(row, Layouts[dir][t])
           /\ \A t \in DOMAIN Tables : t # s.table => t \in DOMAIN left /\ left[t] = Tables[t]
           /\ s.verb = "SelectStmt" => DOMAIN left = DOMAIN Tables /\ left[s.table] = Tables[s.table]
<1>1. /\ DOMAIN Tables \subseteq DOMAIN Layouts[dir]
      /\ \A t \in DOMAIN Tables : \A row \in DOMAIN Tables[t] : IsRow(row, Layouts[dir][t])
  BY DEF StoreInv, Tables
<1>2. CASE left = Tables
  BY <1>1, <1>2
<1>3. CASE s.verb = "DropTableStmt" /\ left = Without(Tables, s.table)
  BY <1>1, <1>3 DEF Without
<1>4. CASE s.verb = "CreateTableStmt" /\ left = TablesAfter(s)
  <2>1. left = [t \in DOMAIN Tables \cup {s.table} |-> IF t = s.table THEN EmptyBag ELSE Tables[t]]
    BY <1>4 DEF TablesAfter
  <2>2. s.table \in DOMAIN Layouts[dir] \ DOMAIN Tables
    BY <1>4 DEF Accepted
  <2>3. DOMAIN EmptyBag = {}
    BY DEF EmptyBag, SetToBag
  <2> QED
    BY <1>1, <1>4, <2>1, <2>2, <2>3
<1>5. ASSUME NEW n, s.verb # "CreateTableStmt",
             left = [Tables EXCEPT ![s.table] = RowsAfter(s, n)]
      PROVE  /\ DOMAIN left \subseteq DOMAIN Layouts[dir]
             /\ \A t \in DOMAIN left : \A row \in DOMAIN left[t] : IsRow(row, Layouts[dir][t])
             /\ \A t \in DOMAIN Tables : t # s.table => t \in DOMAIN left /\ left[t] = Tables[t]
             /\ s.verb = "SelectStmt" => DOMAIN left = DOMAIN Tables /\ left[s.table] = Tables[s.table]
  BY <1>1, <1>5, RowsChanged
<1>6. CASE left = TablesAfter(s)
  <2>1. CASE s.verb \in {"DropTableStmt", "CreateTableStmt"}
    BY <1>3, <1>4, <1>6, <2>1 DEF TablesAfter
  <2>2. CASE s.verb \notin {"DropTableStmt", "CreateTableStmt"}
    <3>1. left = [Tables EXCEPT ![s.table] = RowsAfter(s, Found(s))]
      BY <1>6, <2>2 DEF TablesAfter
    <3> QED
      BY <1>5, <2>2, <3>1
  <2> QED
    BY <2>1, <2>2
<1>7. CASE left \in TablesTorn(s)
  <2>1. CASE s.verb \in {"DeleteStmt", "UpdateStmt"}
    <3>1. PICK n \in 0 .. Found(s) : left = [Tables EXCEPT ![s.table] = RowsAfter(s, n)]
      BY <1>7, <2>1 DEF TablesTorn
    <3> QED
      BY <1>5, <2>1, <3>1
  <2>2. CASE s.verb = "DropTableStmt"
    BY <1>2, <1>3, <1>7, <2>2 DEF TablesTorn
  <2>3. CASE s.verb \notin {"DeleteStmt", "UpdateStmt", "DropTableStmt"}
    BY <1>2, <1>7, <2>3 DEF TablesTorn
  <2> QED
    BY <2>1, <2>2, <2>3
<1> QED
  BY <1>6, <1>7 DEF MayLeave

(* The store with such tables in it.                                       *)
LEMMA StoredIsSound ==
    ASSUME StoreInv, NEW s, WellFormed(s), Accepted(s), NEW left, MayLeave(s, left),
           store' = [store EXCEPT ![dir] = left], dir' = dir
    PROVE  /\ StoreInv' /\ Tables' = left
           /\ \A d \in DOMAIN Contents : d # dir => store'[d] = store[d]
           /\ s.verb = "SelectStmt" =>
                 DOMAIN store'[dir] = DOMAIN Tables /\ store'[dir][s.table] = Tables[s.table]
<1>1. /\ DOMAIN store' = DOMAIN store /\ store'[dir] = left
      /\ \A d \in DOMAIN Contents : d # dir => store'[d] = store[d]
  BY DEF StoreInv
<1>2. /\ DOMAIN left \subseteq DOMAIN Layouts[dir]
      /\ \A t \in DOMAIN left : \A row \in DOMAIN left[t] : IsRow(row, Layouts[dir][t])
      /\ s.verb = "SelectStmt" => DOMAIN left = DOMAIN Tables /\ left[s.table] = Tables[s.table]
  BY TablesAreSound
<1>3. StoreInv'
  BY <1>1, <1>2 DEF StoreInv, IsRow
<1> QED
  BY <1>1, <1>2, <1>3 DEF Tables

LEMMA ExecuteHolds ==
    ASSUME GridInv, Execute
    PROVE  GridInv'
<1> DEFINE s == request
           ok == Accepted(request)
<1>1. /\ UNCHANGED <<dir, tree, current, grid, follow, dialog, busy, done, torn>>
      /\ s # Nothing /\ s.verb \notin {"schema", "open"} /\ request' = Nothing
      /\ response'.verb = s.verb /\ response'.ok = ok
      /\ response'.grid = IF s.verb = "SelectStmt" /\ ok THEN Selected(s) ELSE EmptyGrid
      /\ store' = IF ok THEN [store EXCEPT ![dir] = TablesAfter(s)] ELSE store
  BY DEF Execute, Answer, view
<1>2. /\ WellFormed(s) /\ busy = TRUE /\ response = Nothing
      /\ dialog # Nothing => done # {} /\ ~ dialog.calm
      /\ torn \/ IsCurrent(grid)
  BY <1>1, AtWork
<1>3. response' # Nothing
  BY <1>1, <1>2 DEF WellFormed, Nothing
<1>4. ok \in BOOLEAN
  BY DEF Accepted
<1>5. Replaces' <=> ok
  BY <1>1, <1>3, <1>4 DEF Replaces
<1>6. ~ ok => store' = store
  BY <1>1
<1>7. ok /\ s.verb = "SelectStmt" =>
          /\ s.table \in DOMAIN Tables
          /\ DOMAIN store'[dir] = DOMAIN Tables /\ store'[dir][s.table] = Tables[s.table]
  BY <1>1, <1>2, StoredIsSound DEF GridInv, Accepted, MayLeave
<1>8. StoreInv'
  <2>1. CASE ~ ok
    BY <1>1, <1>6, <2>1 DEF GridInv, StoreInv, IsRow
  <2>2. CASE ok
    BY <1>1, <1>2, <2>2, StoredIsSound DEF GridInv, MayLeave
  <2> QED
    BY <2>1, <2>2
<1> HIDE DEF s, ok
<1>9. FlightInv' /\ TreeInv'
  BY <1>1, <1>2 DEF GridInv, FlightInv, TreeInv, WellFormed
<1>10. CurrentInv'
  <2>1. CASE ~ ok
    BY <1>1, <1>2, <1>5, <1>6, <2>1 DEF CurrentInv, IsCurrent, LinesOf
  <2>2. CASE ok /\ s.verb # "SelectStmt"
    BY <1>1, <1>5, <2>2 DEF CurrentInv, IsCurrent, EmptyGrid
  <2>3. CASE ok /\ s.verb = "SelectStmt"
    <3> DEFINE g == Selected(s)
               columns == IF s.columns = <<>> THEN Layouts[dir][s.table] ELSE s.columns
    <3>1. /\ g.dir = dir /\ g.table = s.table /\ g.columns = columns
          /\ g.lines = LinesOf(Tables[s.table], columns)
      BY DEF Selected, LinesOf
    <3>2. response'.grid = g
      BY <1>1, <2>3
    <3> HIDE DEF g
    <3>3. dir \in DOMAIN store'
      BY <1>1, <1>8 DEF StoreInv
    <3>4. /\ g.dir \in DOMAIN store' /\ g.table \in DOMAIN store'[g.dir]
          /\ g.lines = LinesOf(store'[g.dir][g.table], g.columns)
          /\ g.columns = <<>> => Layouts[g.dir][g.table] = <<>>
      BY <1>7, <2>3, <3>1, <3>3
    <3>5. IsCurrent(response.grid)'
      BY <3>2, <3>4 DEF IsCurrent, LinesOf
    <3> QED
      BY <1>5, <2>3, <3>5 DEF CurrentInv
  <2> QED
    BY <2>1, <2>2, <2>3
<1>11. ASSUME done = {}
       PROVE  IF ok THEN IsAimed(response.grid)' ELSE IsAimed(grid)'
  <2>1. /\ s.verb = "SelectStmt" => /\ s.table = current /\ s.columns = <<>>
                                    /\ IsAimed(grid) \/ current \in DOMAIN Tables
        /\ s.verb # "SelectStmt" => IsAimed(grid)
    BY <1>1, <1>11 DEF GridInv, AimInv, CalmInv, s
  <2>2. CASE ~ ok
    <3>1. s.verb = "SelectStmt" => s.table \notin DOMAIN Tables
      <4>1. s.verb = "SelectStmt" => {s.old, s.new} \ {<<>>} = {}
        BY <1>2 DEF WellFormed
      <4> QED
        BY <2>2, <4>1 DEF ok, s, Accepted
    <3>2. IsAimed(grid)
      BY <2>1, <3>1
    <3> QED
      BY <1>1, <1>6, <2>2, <3>2 DEF IsAimed, Tables, LinesOf
  <2>3. CASE ok /\ s.verb # "SelectStmt"
    BY <1>1, <2>3 DEF IsAimed, EmptyGrid
  <2>4. CASE ok /\ s.verb = "SelectStmt"
    <3> DEFINE g == Selected(s)
    <3>1. /\ g.dir = dir /\ g.table = current /\ g.columns = Layouts[dir][current]
          /\ g.lines = LinesOf(Tables[current], g.columns)
      BY <2>1, <2>4 DEF Selected, LinesOf
    <3>2. response'.grid = g
      BY <1>1, <2>4
    <3> HIDE DEF g
    <3>3. /\ current \in DOMAIN store'[dir]
          /\ g.lines = LinesOf(store'[dir][current], g.columns)
      BY <1>7, <2>1, <2>4, <3>1
    <3>4. IsAimed(response.grid)'
      BY <1>1, <3>1, <3>2, <3>3 DEF IsAimed, Tables, LinesOf
    <3> QED
      BY <2>4, <3>4
  <2> QED
    BY <2>2, <2>3, <2>4
<1>12. done = {} /\ s.verb = "UpdateStmt" => follow = current
  BY <1>1 DEF GridInv, AimInv, CalmInv, s
<1>13. CalmInv'
  BY <1>1, <1>2, <1>4, <1>5, <1>11, <1>12 DEF CalmInv
<1>14. AimInv'
  BY <1>1, <1>2, <1>13 DEF GridInv, AimInv, HitsMeant
<1> QED
  BY <1>8, <1>9, <1>10, <1>14 DEF GridInv

(* The lines on show of a table that a failing statement has left alone.   *)
LEMMA FailsHolds ==
    ASSUME GridInv, ExecuteFails
    PROVE  GridInv'
<1> DEFINE s == request
<1>1. /\ UNCHANGED <<dir, tree, current, grid, follow, dialog, busy>>
      /\ s # Nothing /\ s.verb \notin {"schema", "open"} /\ request' = Nothing
      /\ response'.verb = s.verb /\ response'.ok = FALSE /\ Accepted(s)
      /\ done' # {}
  BY DEF ExecuteFails, Answer, view
<1>2. /\ WellFormed(s) /\ busy = TRUE /\ response = Nothing
      /\ dialog # Nothing => done # {} /\ ~ dialog.calm
      /\ torn \/ IsCurrent(grid)
  BY <1>1, AtWork
<1>3. PICK left \in TablesTorn(s) :
          /\ store' = [store EXCEPT ![dir] = left]
          /\ torn' = (torn \/ (left # Tables /\ IsShown(s.table)))
  BY DEF ExecuteFails
<1>4. /\ StoreInv' /\ Tables' = left
      /\ \A d \in DOMAIN Contents : d # dir => store'[d] = store[d]
  BY <1>1, <1>2, <1>3, StoredIsSound DEF GridInv, MayLeave
<1>5. \A t \in DOMAIN Tables : t # s.table => t \in DOMAIN left /\ left[t] = Tables[t]
  BY <1>1, <1>2, <1>3, TablesAreSound DEF GridInv, MayLeave
<1>6. response' # Nothing /\ ~ Replaces'
  BY <1>1, <1>2 DEF WellFormed, Nothing, Replaces
<1> HIDE DEF s
<1>7. FlightInv' /\ TreeInv'
  BY <1>1, <1>2 DEF GridInv, FlightInv, TreeInv, WellFormed
<1>8. CurrentInv'
  <2>1. SUFFICES ASSUME ~ torn', grid.lines # {}
                 PROVE  IsCurrent(grid)'
    BY <1>1, <1>6 DEF CurrentInv, IsCurrent
  <2>2. /\ ~ torn /\ (left = Tables \/ ~ IsShown(s.table))
        /\ IsCurrent(grid)
    BY <1>2, <1>3, <2>1
  <2>3. /\ grid.dir \in DOMAIN store
        /\ grid.table \in DOMAIN store[grid.dir]
        /\ grid.lines = LinesOf(store[grid.dir][grid.table], grid.columns)
        /\ grid.columns = <<>> => Layouts[grid.dir][grid.table] = <<>>
    BY <2>1, <2>2 DEF IsCurrent
  <2>4. /\ grid.dir \in DOMAIN store' /\ grid.table \in DOMAIN store'[grid.dir]
        /\ store'[grid.dir][grid.table] = store[grid.dir][grid.table]
    <3>1. grid.dir \in DOMAIN Contents /\ DOMAIN store' = DOMAIN store
      BY <1>4, <2>3 DEF GridInv, StoreInv
    <3>2. CASE grid.dir # dir
      BY <1>4, <2>3, <3>1, <3>2
    <3>3. CASE grid.dir = dir
      <4>1. store'[dir] = left
        BY <1>1, <1>4 DEF Tables
      <4>2. left = Tables \/ grid.table # s.table
        BY <2>2, <3>3 DEF IsShown
      <4> QED
        BY <1>5, <2>3, <3>1, <3>3, <4>1, <4>2 DEF Tables
    <3> QED
      BY <3>2, <3>3
  <2> QED
    BY <1>1, <2>3, <2>4 DEF IsCurrent, LinesOf
<1>9. AimInv'
  BY <1>1, <1>2 DEF GridInv, AimInv, CalmInv, HitsMeant
<1> QED
  BY <1>4, <1>7, <1>8, <1>9 DEF GridInv

-----------------------------------------------------------------------------
(* What the poll does.                                                     *)

LEMMA ShowSchemaHolds ==
    ASSUME GridInv, Poll, ShowSchema
    PROVE  GridInv'
<1>1. /\ UNCHANGED <<dir, store, current, grid, follow, dialog, request, done>>
      /\ response # Nothing /\ response.verb \in {"schema", "open"} /\ response' = Nothing
      /\ tree' = response.tables /\ busy' = FALSE /\ (torn' <=> torn)
  BY DEF Poll, ShowSchema, Replaces
<1>2. StoreInv'
  BY <1>1 DEF GridInv, StoreInv, IsRow
<1>3. FlightInv'
  BY <1>1 DEF GridInv, FlightInv, WellFormed
<1>4. tree' = Snapshot
  BY <1>1 DEF GridInv, TreeInv
<1>5. TreeInv'
  <2>1. \A t \in DOMAIN Snapshot : Range(Snapshot[t]) # {}
    BY GuiGridAssumption DEF GridInv, StoreInv, Snapshot, Tables
  <2> QED
    BY <1>1, <1>4, <2>1 DEF TreeInv, Snapshot, Tables
<1>6. CurrentInv'
  BY <1>1 DEF GridInv, CurrentInv, Replaces, IsCurrent, LinesOf
<1>7. done = {} => IsAimed(grid)
  BY <1>1 DEF GridInv, AimInv, CalmInv, Replaces
<1>8. done' = {} => IsAimed(grid)'
  BY <1>1, <1>7 DEF IsAimed, Tables, LinesOf
<1>9. request' = Nothing
  BY <1>1 DEF GridInv, FlightInv
<1>10. CalmInv'
  BY <1>1, <1>8, <1>9 DEF CalmInv
<1>11. AimInv'
  BY <1>1, <1>9, <1>10 DEF GridInv, AimInv, HitsMeant, Tables
<1> QED
  BY <1>2, <1>3, <1>5, <1>6, <1>11 DEF GridInv

LEMMA ShowBatchHolds ==
    ASSUME GridInv, Poll, ShowBatch
    PROVE  GridInv'
<1>1. /\ UNCHANGED <<dir, store, tree, current, dialog, done>>
      /\ response # Nothing /\ response.verb \notin {"schema", "open"} /\ response' = Nothing
      /\ grid' = Shown /\ busy' = TRUE
      /\ request' = IF Follows THEN Browse(follow) ELSE Schema
      /\ torn' = (torn /\ ~ Replaces)
  BY DEF Poll, ShowBatch
<1>2. StoreInv'
  BY <1>1 DEF GridInv, StoreInv, IsRow
<1>3. /\ request' # Nothing
      /\ request'.verb # "open" /\ request'.verb \notin {"DeleteStmt", "UpdateStmt"}
      /\ request'.verb = "SelectStmt" =>
            Follows /\ request'.table = follow /\ request'.columns = <<>>
      /\ WellFormed(request')
  BY <1>1, BrowseIs, SchemaIs
<1>4. FlightInv'
  BY <1>1, <1>3 DEF GridInv, FlightInv, WellFormed
<1>5. TreeInv'
  BY <1>1 DEF GridInv, TreeInv
<1>6. CurrentInv'
  <2>1. torn' \/ IsCurrent(Shown)
    BY <1>1 DEF GridInv, CurrentInv, Replaces, Shown
  <2> QED
    BY <1>1, <2>1 DEF CurrentInv, Replaces, IsCurrent, LinesOf
<1>7. done = {} => dialog = Nothing
  BY <1>1 DEF GridInv, AimInv, CalmInv, FlightInv
<1>8. done = {} => IsAimed(Shown)
  BY <1>1 DEF GridInv, AimInv, CalmInv, Replaces, Shown
<1>9. done' = {} => IsAimed(grid)'
  BY <1>1, <1>8 DEF IsAimed, Tables, LinesOf
<1>10. done = {} /\ Follows => follow = current
  BY <1>1 DEF GridInv, AimInv, CalmInv, Follows
<1>11. CalmInv'
  BY <1>1, <1>3, <1>7, <1>9, <1>10 DEF CalmInv
<1>12. dialog # Nothing => ~ dialog.calm
  BY <1>1 DEF GridInv, AimInv, FlightInv
<1>13. AimInv'
  BY <1>1, <1>3, <1>11, <1>12 DEF GridInv, AimInv, HitsMeant
<1> QED
  BY <1>2, <1>4, <1>5, <1>6, <1>13 DEF GridInv

LEMMA StutterHolds ==
    ASSUME GridInv, UNCHANGED vars
    PROVE  GridInv'
<1>1. /\ UNCHANGED <<dir, store, tree, current, grid, follow, dialog>>
      /\ UNCHANGED <<busy, request, response, done, torn>>
  BY DEF vars, view
<1>2. StoreInv' /\ FlightInv' /\ TreeInv' /\ CurrentInv'
  <2>1. dialog' # Nothing =>
           /\ WellFormed(dialog')
           /\ dialog'.verb \in {"InsertStmt", "DropTableStmt", "DeleteStmt", "UpdateStmt"}
    BY <1>1 DEF GridInv, FlightInv
  <2> QED
    BY <1>1, <2>1, SchemaIs, ClickStep
<1>3. AimInv'
  BY <1>1 DEF GridInv, AimInv, CalmInv, HitsMeant, Tables, IsAimed, LinesOf, Replaces
<1> QED
  BY <1>2, <1>3 DEF GridInv

-----------------------------------------------------------------------------
(* The theorems.                                                           *)

(* However the clicks of the user, the answers of the worker and the polls *)
(* of the window interleave (gui/app.py, gui/controller.py): rows are over *)
(* their table's columns, one request is out at a time, the tree is that   *)
(* of the open directory at rest, and what is on show and what a dialog or *)
(* a request will do is tied to the tables as the invariant says.          *)
THEOREM GridInvariant == Spec => []GridInv
<1>1. Init => GridInv
  BY InitHolds
<1>2. GridInv /\ [Next]_vars => GridInv'
  <2> SUFFICES ASSUME GridInv, [Next]_vars PROVE GridInv'
    OBVIOUS
  <2>1. ASSUME NEW t \in TableNames, OpenTable(t) PROVE GridInv'
    BY <2>1, OpenTableHolds
  <2>2. ASSUME NEW t \in TableNames, Console(t) PROVE GridInv'
    BY <2>2, ConsoleHolds
  <2>3. ASSUME NEW t \in TableNames, InsertRow(t) PROVE GridInv'
    BY <2>3, InsertRowHolds
  <2>4. ASSUME NEW t \in TableNames, DropTable(t) PROVE GridInv'
    BY <2>4, DropTableHolds
  <2>5. ASSUME NEW d \in DOMAIN Layouts, OpenDirectory(d) PROVE GridInv'
    BY <2>5, OpenDirectoryHolds
  <2>6. ASSUME NEW line \in grid.lines, RowButton(line) PROVE GridInv'
    BY <2>6, RowButtonHolds
  <2>7. CASE Poll
    BY <2>7, ShowSchemaHolds, ShowBatchHolds DEF Poll
  <2> QED
    BY <2>1, <2>2, <2>3, <2>4, <2>5, <2>6, <2>7, RefreshHolds, ConfirmHolds, CancelHolds,
       ServeHolds, SwitchHolds, ExecuteHolds, FailsHolds, StutterHolds DEF Next
<1> QED
  BY <1>1, <1>2, PTL DEF Spec

(* A row's DELETE or UPDATE that was clicked after the table was opened at *)
(* rest, with no statement failing since, by a user who waited for each    *)
(* answer, neither queried nor updated in the console and stayed in the    *)
(* directory, reaches the row that was selected, which is still in its     *)
(* table (app.py:235-276).                                                 *)
THEOREM RowButtonsAimTrue == Spec => []AimIsTrue
<1>1. GridInv => AimIsTrue
  BY DEF GridInv, AimInv, HitsMeant, AimIsTrue
<1> QED
  BY <1>1, GridInvariant, PTL

(* With no request out, each line on show is a row of its table, and each  *)
(* row of the table is on show, whatever was done in the meantime and      *)
(* however statements failed (app.py:305-345, _show_batch and _show_rows): *)
(* but for the one case that a statement which failed had changed that     *)
(* very table since its lines were read.                                   *)
THEOREM NothingStaleAtRest == Spec => []GridIsCurrent
<1>1. GridInv => GridIsCurrent
  <2> SUFFICES ASSUME GridInv, ~ busy, ~ torn, grid.dir = dir, grid.lines # {}
               PROVE  /\ grid.table \in DOMAIN Tables
                      /\ grid.lines =
                            Selected([table |-> grid.table, columns |-> grid.columns]).lines
    BY DEF GridIsCurrent
  <2>1. IsCurrent(grid)
    BY DEF GridInv, FlightInv, CurrentInv, Replaces
  <2>2. /\ grid.table \in DOMAIN Tables
        /\ grid.lines = LinesOf(Tables[grid.table], grid.columns)
        /\ grid.columns = <<>> => Layouts[dir][grid.table] = <<>>
    BY <2>1 DEF IsCurrent, Tables
  <2> DEFINE s == [table |-> grid.table, columns |-> grid.columns]
             columns == IF s.columns = <<>> THEN Layouts[dir][s.table] ELSE s.columns
  <2>3. columns = grid.columns /\ s.table = grid.table
    BY <2>2
  <2>4. Selected(s).lines = LinesOf(Tables[s.table], columns)
    BY DEF Selected, LinesOf
  <2> HIDE DEF s, columns
  <2> QED
    BY <2>2, <2>3, <2>4 DEF s
<1> QED
  BY <1>1, GridInvariant, PTL
=============================================================================

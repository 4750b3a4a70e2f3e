------------------------------ MODULE GuiGrid ------------------------------
(***************************************************************************)
(* The data grid of the desktop client (gui/app.py): which table it shows, *)
(* which table the row buttons work on, and what an answer changes.        *)
(*                                                                         *)
(* The grid holds no keys.  "Change" and "delete" read the values of the   *)
(* selected line, name them after the columns of the table opened last     *)
(* (`current_table`, which nothing ties to the result on show), and send a *)
(* statement that finds the row by its values.  Dialogs are modal, but the *)
(* event loop runs under them: an answer may arrive while one is open.     *)
(*                                                                         *)
(* GuiWorker models the queues, the threads and the closing of databases;  *)
(* here a request is one record in the worker's hands and every directory  *)
(* opens.  A table is a bag of rows, a row a function on its columns, all  *)
(* of them INT, so that int() of a displayed value is that value.  The     *)
(* editor's texts are of one statement, and CREATE TABLE gives a table the *)
(* columns its directory has for it.  A statement that the analyser has    *)
(* accepted may still fail (a full pool, a clause that raises, a file that *)
(* cannot be removed), with part of its work done; a write error that      *)
(* loses another page is BufferPool's.                                     *)
(***************************************************************************)
EXTENDS Naturals, Sequences, Bags, Functions

CONSTANTS
    Layouts,    \* directory -> table -> its columns in order
    Contents,   \* directory -> table -> the rows it starts with
    FirstDir,   \* the directory at start-up
    Values,     \* what a column may hold
    MaxRows,    \* bound on the rows of a table
    MaxClicks,  \* bound on what the user does
    None        \* no table, no row

ASSUME GuiGridAssumption ==
    /\ FirstDir \in DOMAIN Contents
    /\ DOMAIN Layouts = DOMAIN Contents
    /\ \A d \in DOMAIN Layouts : \A t \in DOMAIN Layouts[d] : Range(Layouts[d][t]) # {}
    /\ \A d \in DOMAIN Contents :
          /\ DOMAIN Contents[d] \subseteq DOMAIN Layouts[d]
          /\ \A t \in DOMAIN Contents[d] :
                DOMAIN Contents[d][t] \subseteq [Range(Layouts[d][t]) -> Values]
    /\ MaxRows \in Nat \ {0}
    /\ MaxClicks \in Nat

VARIABLES
    dir,        \* the directory of the worker's service
    store,      \* directory -> existing table -> bag of rows
    tree,       \* app.tables: table -> columns
    current,    \* app.current_table, or None
    grid,       \* app.data_grid, with the table it came from
    follow,     \* app._refresh_table_after_write, or None
    dialog,     \* the statement a dialog will send, or Nothing
    busy,       \* controller.busy
    request, response,  \* in the worker's hands; waiting for the poll; or Nothing
    clicks,     \* how often the user acted
    done,       \* history, since the last opening of a table at rest:
                \* "hurry", "console", "directory", "failed"
    torn        \* history: a statement that failed has changed the table on
                \* show since its lines were read

view == <<tree, current, grid, follow>>
vars == <<dir, store, view, dialog, busy, request, response, clicks, done, torn>>

RowsOver(columns) == [Range(columns) -> Values]

(* Statements, one form for all.  `calm` and `meant` are history, of the   *)
(* moment the user clicked.                                                *)
Statement(verb, table, columns, old, new) ==
    [verb |-> verb, table |-> table, columns |-> columns, old |-> old, new |-> new,
     calm |-> ~ busy /\ done = {}, meant |-> None]
Browse(table) == Statement("SelectStmt", table, <<>>, <<>>, <<>>)
Schema == Statement("schema", None, <<>>, <<>>, <<>>)
Nothing == [verb |-> "none"]

EmptyGrid == [dir |-> None, table |-> None, columns |-> <<>>, lines |-> {}]

(* dict(zip(columns, values)): the shorter one decides. *)
Zip(columns, line) ==
    [c \in {columns[i] : i \in DOMAIN columns \cap DOMAIN line} |->
        line[CHOOSE i \in DOMAIN columns : columns[i] = c]]

Init ==
    /\ dir = FirstDir
    /\ store = Contents
    /\ tree = <<>> /\ current = None /\ grid = EmptyGrid /\ follow = None
    /\ clicks = 0 /\ done = {} /\ torn = FALSE
    /\ dialog = Nothing /\ busy = TRUE /\ request = Schema /\ response = Nothing

-----------------------------------------------------------------------------
(* What a click asks of the controller.                                    *)

(* controller._submit: a request made while one is out is dropped.         *)
Submit(s) ==
    IF busy THEN UNCHANGED <<busy, request>> ELSE busy' = TRUE /\ request' = s

(* No dialog is open (RowDialog.grab_set, messagebox): the window answers. *)
Free == dialog = Nothing /\ clicks < MaxClicks
Click == clicks' = clicks + 1

Haste == IF busy THEN done \cup {"hurry"} ELSE done

(* Faulty variant: as insert_row does, the table opened before is kept.    *)
OpenedFirst(t) == IF current = None THEN t ELSE current
Opened(t) == t

(* A double click in the object tree: open_selected_table.  `current_table`*)
(* changes at once, whatever becomes of the request.                       *)
OpenTable(t) ==
    /\ Free /\ Click
    /\ t \in DOMAIN tree
    /\ current' = Opened(t)
    /\ done' = IF busy THEN Haste ELSE {}
    /\ Submit(Browse(t))
    /\ UNCHANGED <<dir, store, tree, grid, follow, dialog, response, torn>>

(* refresh_data, refresh_schema *)
Refresh ==
    /\ Free /\ Click
    /\ \/ Submit(Schema)
       \/ current # None /\ Submit(Browse(current))
    /\ UNCHANGED <<dir, store, view, dialog, response, done, torn>>

(* The bound on a table's rows. *)
HasRoom(t) == t \in DOMAIN store[dir] => BagCardinality(store[dir][t]) < MaxRows

(* execute_sql with the editor's text: a query with the columns in another *)
(* order or left out, a write, CREATE TABLE (create_table of the window    *)
(* too), DROP TABLE.                                                       *)
Console(t) ==
    /\ Free /\ Click
    /\ t \in DOMAIN Layouts[dir]
    /\ LET columns == Layouts[dir][t]
           send(verb, list, old, new) == Submit(Statement(verb, t, list, old, new))
       IN
       \/ /\ done' = done \cup {"console"}
          /\ \/ \E i, j \in DOMAIN columns :
                    send("SelectStmt", IF i = j THEN <<columns[i]>> ELSE <<columns[i], columns[j]>>,
                         <<>>, <<>>)
             \/ \E old, new \in RowsOver(columns) : send("UpdateStmt", columns, old, new)
       \/ /\ done' = done
          /\ \/ \E old \in RowsOver(columns) : send("DeleteStmt", columns, old, <<>>)
             \/ HasRoom(t) /\ \E new \in RowsOver(columns) : send("InsertStmt", columns, <<>>, new)
             \/ \E verb \in {"CreateTableStmt", "DropTableStmt"} : send(verb, <<>>, <<>>, <<>>)
    /\ UNCHANGED <<dir, store, view, dialog, response, torn>>

OpenDirectory(d) ==
    /\ Free /\ Click
    /\ d \in DOMAIN Contents
    /\ done' = done \cup {"directory"}
    /\ Submit(Statement("open", d, <<>>, <<>>, <<>>))
    /\ UNCHANGED <<dir, store, view, dialog, response, torn>>

(* insert_row and drop_selected_table, up to their dialogs. *)
InsertRow(t) ==
    /\ Free /\ Click
    /\ t \in DOMAIN tree
    /\ current \in {None, t}
    /\ HasRoom(t)
    /\ \E new \in RowsOver(tree[t]) : dialog' = Statement("InsertStmt", t, tree[t], <<>>, new)
    /\ done' = Haste
    /\ UNCHANGED <<dir, store, view, busy, request, response, torn>>

DropTable(t) ==
    /\ Free /\ Click
    /\ t \in DOMAIN tree
    /\ dialog' = Statement("DropTableStmt", t, <<>>, <<>>, <<>>)
    /\ done' = Haste
    /\ UNCHANGED <<dir, store, view, busy, request, response, torn>>

(* What the user sees selected, whatever the program makes of it.          *)
Meant(line) == [dir |-> grid.dir, table |-> grid.table, row |-> Zip(grid.columns, line)]

(* delete_row and update_row, up to the confirmation.  A current table     *)
(* that is gone is a KeyError and fewer values than columns a ValueError,  *)
(* both of which Tk reports and forgets; surplus values are cut off.       *)
RowButton(line) ==
    /\ Free /\ Click
    /\ line \in grid.lines
    /\ current \in DOMAIN tree
    /\ Len(tree[current]) <= Len(line)
    /\ LET columns == tree[current]
           old == Zip(columns, line)
           send(verb, new) == dialog' = [Statement(verb, current, columns, old, new)
                                            EXCEPT !.meant = Meant(line)]
       IN  \/ send("DeleteStmt", <<>>)
           \/ \E new \in RowsOver(columns) : send("UpdateStmt", new)
    /\ done' = Haste
    /\ UNCHANGED <<dir, store, view, busy, request, response, torn>>

(* "Yes": the rest of the handler. *)
Confirm ==
    /\ dialog # Nothing
    /\ dialog' = Nothing
    /\ follow' = IF dialog.verb = "UpdateStmt" THEN dialog.table ELSE follow
    /\ Submit(dialog)
    /\ UNCHANGED <<dir, store, tree, current, grid, response, clicks, done, torn>>

Cancel ==
    /\ dialog # Nothing
    /\ dialog' = Nothing
    /\ UNCHANGED <<dir, store, view, busy, request, response, clicks, done, torn>>

-----------------------------------------------------------------------------
(* The worker: service.execute, schema_snapshot, and the change of         *)
(* directory, each to its answer.                                          *)

Tables == store[dir]
Snapshot == [t \in DOMAIN Tables |-> Layouts[dir][t]]
Without(f, x) == [y \in DOMAIN f \ {x} |-> f[y]]

Answer(verb, ok, tables, shown) ==
    [verb |-> verb, ok |-> ok, tables |-> tables, grid |-> shown]

(* The analyser knows the table and the columns, or a new table's name.    *)
Accepted(s) ==
    \/ /\ s.verb = "CreateTableStmt"
       /\ s.table \in DOMAIN Layouts[dir] \ DOMAIN Tables
    \/ /\ s.verb # "CreateTableStmt"
       /\ s.table \in DOMAIN Tables
       /\ \A row \in {s.old, s.new} \ {<<>>} : DOMAIN row = Range(Layouts[dir][s.table])

Copies(row, n) == [r \in IF n = 0 THEN {} ELSE {row} |-> n]
Found(s) == IF s.old \in DOMAIN Tables[s.table] THEN Tables[s.table][s.old] ELSE 0

(* The table's rows once the statement has changed n of those it looks for.*)
RowsAfter(s, n) ==
    LET rows == Tables[s.table]
    IN  CASE s.verb = "InsertStmt" -> rows (+) SetToBag({s.new})
          [] s.verb = "DeleteStmt" -> rows (-) Copies(s.old, n)
          [] s.verb = "UpdateStmt" -> (rows (-) Copies(s.old, n)) (+) Copies(s.new, n)
          [] OTHER -> rows

TablesAfter(s) ==
    CASE s.verb = "DropTableStmt" -> Without(Tables, s.table)
      [] s.verb = "CreateTableStmt" ->
            [t \in DOMAIN Tables \cup {s.table} |-> IF t = s.table THEN EmptyBag ELSE Tables[t]]
      [] OTHER -> [Tables EXCEPT ![s.table] = RowsAfter(s, Found(s))]

(* What a statement that fails may leave: DELETE and UPDATE have gone      *)
(* through some of the pages, DROP has left the catalog when its file      *)
(* cannot be removed (catalog_manager.py:190-193).                         *)
TablesTorn(s) ==
    CASE s.verb \in {"DeleteStmt", "UpdateStmt"} ->
            {[Tables EXCEPT ![s.table] = RowsAfter(s, n)] : n \in 0 .. Found(s)}
      [] s.verb = "DropTableStmt" -> {Tables, Without(Tables, s.table)}
      [] OTHER -> {Tables}

(* service._columns and the rows of a SELECT, as the grid will show them.  *)
Selected(s) ==
    LET columns == IF s.columns = <<>> THEN Layouts[dir][s.table] ELSE s.columns
    IN  [dir |-> dir, table |-> s.table, columns |-> columns,
         lines |-> {[i \in DOMAIN columns |-> row[columns[i]]] : row \in DOMAIN Tables[s.table]}]

Serve ==
    /\ request # Nothing /\ request.verb = "schema"
    /\ request' = Nothing
    /\ response' = Answer("schema", TRUE, Snapshot, EmptyGrid)
    /\ UNCHANGED <<dir, store, view, dialog, busy, clicks, done, torn>>

Switch ==
    /\ request # Nothing /\ request.verb = "open"
    /\ request' = Nothing
    /\ dir' = request.table
    /\ response' = Answer("open", TRUE, [t \in DOMAIN store[dir'] |-> Layouts[dir'][t]], EmptyGrid)
    /\ UNCHANGED <<store, view, dialog, busy, clicks, done, torn>>

Execute ==
    /\ request # Nothing /\ request.verb \notin {"schema", "open"}
    /\ request' = Nothing
    /\ response' = Answer(request.verb, Accepted(request), <<>>,
                          IF request.verb = "SelectStmt" /\ Accepted(request)
                          THEN Selected(request) ELSE EmptyGrid)
    /\ store' = IF Accepted(request) THEN [store EXCEPT ![dir] = TablesAfter(request)]
                                     ELSE store
    /\ UNCHANGED <<dir, view, dialog, busy, clicks, done, torn>>

IsShown(t) == grid.dir = dir /\ grid.table = t

(* The batch ends in an error and has no result to show.                   *)
ExecuteFails ==
    /\ request # Nothing /\ request.verb \notin {"schema", "open"}
    /\ Accepted(request)
    /\ request' = Nothing
    /\ response' = Answer(request.verb, FALSE, <<>>, EmptyGrid)
    /\ \E left \in TablesTorn(request) :
          /\ store' = [store EXCEPT ![dir] = left]
          /\ torn' = (torn \/ (left # Tables /\ IsShown(request.table)))
    /\ done' = done \cup {"failed"}
    /\ UNCHANGED <<dir, view, dialog, busy, clicks>>

-----------------------------------------------------------------------------
(* The poll (app._poll), every 80 ms. *)

(* _show_schema *)
ShowSchema ==
    /\ response # Nothing /\ response.verb \in {"schema", "open"}
    /\ tree' = response.tables
    /\ busy' = FALSE
    /\ UNCHANGED <<current, grid, follow, request>>

(* Faulty variant: a statement without rows leaves the grid as it is.      *)
ShownKept == IF response.ok /\ response.verb = "SelectStmt" THEN response.grid ELSE grid
(* _show_rows: every answer replaces the grid, a write by an empty one.    *)
Shown == IF response.ok THEN response.grid ELSE grid

Follows == response.ok /\ follow # None /\ response.verb = "UpdateStmt"

(* Faulty variant: the tables are asked for before the batch is shown.     *)
ShowBatchSchemaFirst ==
    /\ response # Nothing /\ response.verb \notin {"schema", "open"}
    /\ grid' = Shown
    /\ busy' = TRUE /\ request' = Schema
    /\ follow' = IF Follows THEN None ELSE follow
    /\ UNCHANGED <<tree, current>>
(* _show_batch, which after a row's UPDATE browses its table again, and    *)
(* the refresh of the tables, which is dropped in that case.               *)
ShowBatch ==
    /\ response # Nothing /\ response.verb \notin {"schema", "open"}
    /\ grid' = Shown
    /\ busy' = TRUE
    /\ IF Follows THEN request' = Browse(follow) /\ follow' = None
                  ELSE request' = Schema /\ follow' = follow
    /\ UNCHANGED <<tree, current>>

Replaces ==
    response # Nothing /\ response.verb \notin {"schema", "open"} /\ response.ok

Poll ==
    /\ ShowSchema \/ ShowBatch
    /\ response' = Nothing
    /\ torn' = (torn /\ ~ Replaces)
    /\ UNCHANGED <<dir, store, dialog, clicks, done>>

TableNames == UNION {DOMAIN Layouts[d] : d \in DOMAIN Layouts}

Next ==
    \/ \E t \in TableNames : OpenTable(t) \/ Console(t) \/ InsertRow(t) \/ DropTable(t)
    \/ \E d \in DOMAIN Layouts : OpenDirectory(d)
    \/ \E line \in grid.lines : RowButton(line)
    \/ Refresh \/ Confirm \/ Cancel
    \/ Serve \/ Switch \/ Execute \/ ExecuteFails \/ Poll

(* The worker takes what is sent and the poll returns every 80 ms, under a *)
(* dialog too; the user owes nothing.                                      *)
Spec ==
    /\ Init /\ [][Next]_vars
    /\ WF_vars(Serve \/ Switch \/ Execute \/ ExecuteFails) /\ WF_vars(Poll)

-----------------------------------------------------------------------------
(* A row's DELETE or UPDATE reaches the row that was selected: the table,  *)
(* the directory and the values are the ones on show, and the row is still *)
(* there, if since the table was opened at rest no statement has failed    *)
(* while it ran, and the user has waited for each answer, and neither      *)
(* queried nor updated in the console, nor gone to another directory.      *)
(* After any of these it need not (app.py:210, 235).                       *)
AimIsTrue ==
    request # Nothing /\ request.verb \in {"DeleteStmt", "UpdateStmt"}
        /\ request.meant # None /\ request.calm =>
    /\ request.meant = [dir |-> dir, table |-> request.table, row |-> request.old]
    /\ request.table \in DOMAIN Tables
    /\ request.old \in DOMAIN Tables[request.table]

(* At rest, no line of the grid is out of date: what is on show is in its  *)
(* table, if that is in the directory that is open.  The exception: a      *)
(* DELETE or UPDATE that fails on a later page, or a DROP whose file stays,*)
(* has changed the table, and the answer, which has no result, leaves the  *)
(* lines on show (app.py:304-315, storage_engine.py:197-240).              *)
GridIsCurrent ==
    ~ busy /\ ~ torn /\ grid.dir = dir /\ grid.lines # {} =>
    /\ grid.table \in DOMAIN Tables
    /\ grid.lines = Selected([table |-> grid.table, columns |-> grid.columns]).lines

(* After a row's UPDATE its table comes back: the window returns to rest   *)
(* with the table on show, unless the browsing of it failed, or the user,  *)
(* in haste, confirmed another change meanwhile, whose table is then       *)
(* browsed though it was never sent (app.py:275, 315).                     *)
UpdateIsShown ==
    \A t \in TableNames :
        (response # Nothing /\ response.verb = "UpdateStmt" /\ response.ok
            /\ follow = t /\ t \in DOMAIN Tables)
        ~> (~ busy /\ ({"hurry", "failed"} \cap done # {} \/ IsShown(t)))
=============================================================================

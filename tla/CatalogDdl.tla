----------------------------- MODULE CatalogDdl -----------------------------
(***************************************************************************)
(* CREATE TABLE, DROP TABLE and the start-up scan: engine/                 *)
(* catalog_manager.py with the parts of storage_engine.py and buffer.py it *)
(* drives.                                                                 *)
(*                                                                         *)
(* The system catalog is a table of its own, one row per column, some rows *)
(* to a page.  A statement changes catalog pages in the pool, writes them  *)
(* to the file one by one, and creates or removes the table's data file.   *)
(* Any write of a file may raise, and the process may be killed between    *)
(* any two writes.  The pool is large enough for the whole catalog (64     *)
(* frames of 7 rows), so it evicts no catalog page.                        *)
(***************************************************************************)
EXTENDS Integers, Sequences, FiniteSets

CONSTANTS
    Tables,
    Layouts,      \* the numbers of columns the tables may have
    RowsPerPage,  \* catalog rows that fit on a page, 7 in the code
    MaxPages,     \* bound on the catalog's pages
    MaxFaults,    \* bound on the writes that raise
    MaxCrashes    \* bound on the kills

NoTable == "no table"

ASSUME CatalogAssumption ==
    /\ NoTable \notin Tables
    /\ Layouts \subseteq [Tables -> Nat \ {0}]
    /\ RowsPerPage \in Nat \ {0}
    /\ MaxPages \in Nat
    /\ MaxFaults \in Nat
    /\ MaxCrashes \in Nat

VARIABLES
    pc,         \* where the process is
    op,         \* what a flush is part of: "create", "undo", "drop" or "close"
    table,      \* the table of the statement
    column,     \* the next column register_table inserts
    undoFailed, \* cleanup_errors is not empty
    catalog,    \* the in-memory Catalog: table -> number of columns
    pool,       \* the catalog's pages as the buffer pool has them
    order,      \* the order of the pool's frames
    dirty,      \* the pages marked dirty
    catFile,    \* the catalog's file: "none", "unusable" or "usable"
    disk,       \* the catalog's pages in the file
    file,       \* the tables' files, with the same three states
    told,       \* what the last answer about each table said of it
    columns,    \* table -> number of its columns
    faults, crashes

statement == <<op, table, column, undoFailed>>
cache == <<pool, order, dirty>>
files == <<catFile, disk, file>>
budget == <<columns, faults, crashes>>
vars == <<pc, statement, catalog, cache, files, told, budget>>

Gone == [table |-> NoTable, position |-> 0]
Row(t, k) == [table |-> t, position |-> k]

Init ==
    /\ pc = "down"
    /\ op = "create" /\ table = NoTable /\ column = 0 /\ undoFailed = FALSE
    /\ catalog = [t \in {} |-> 0]
    /\ pool = <<>> /\ order = <<>> /\ dirty = {}
    /\ catFile = "none"
    /\ disk = <<>>
    /\ file = [t \in Tables |-> "none"]
    /\ told = [t \in Tables |-> "absent"]
    /\ columns \in Layouts
    /\ faults = 0 /\ crashes = 0

-----------------------------------------------------------------------------
(* The rows of the catalog.                                                *)

Places(pages) ==
    UNION {{<<i, s>> : s \in DOMAIN pages[i]} : i \in DOMAIN pages}
RowsOf(t, pages) ==
    {x \in Places(pages) : pages[x[1]][x[2]].table = t}
Positions(t, pages) ==
    {pages[x[1]][x[2]].position : x \in RowsOf(t, pages)}
Registered(pages) == {t \in Tables : RowsOf(t, pages) # {}}

(* load() sorts a table's rows and wants the positions 0, 1, 2, ...        *)
Contiguous(t, pages) ==
    Positions(t, pages) = 0 .. Cardinality(RowsOf(t, pages)) - 1

(* ... and a data file that attach_table can open.                         *)
Loadable == \A t \in Registered(disk) :
                Contiguous(t, disk) /\ file[t] = "usable"

(* delete_where on the catalog empties the slots of the table's rows, and  *)
(* goes through every page in turn, which is also the order the pool is in *)
(* afterwards.                                                             *)
Erased(t) ==
    [i \in DOMAIN pool |->
        [s \in DOMAIN pool[i] |->
            IF pool[i][s].table = t THEN Gone ELSE pool[i][s]]]
PagesOf(t) == {x[1] : x \in RowsOf(t, pool)}
InSequence(n) == [i \in 1 .. n |-> i]

DeleteWhere(t) ==
    /\ pool' = Erased(t)
    /\ dirty' = dirty \cup PagesOf(t)
    /\ order' = InSequence(Len(pool))

(* insert_row gets the pages from the first to the one with room.          *)
HasRoom(i) == Len(pool[i]) < RowsPerPage
TouchedTo(j) ==
    SelectSeq(order, LAMBDA i : i > j) \o InSequence(j)

Fault ==
    /\ faults < MaxFaults
    /\ faults' = faults + 1
    /\ UNCHANGED <<columns, crashes>>

-----------------------------------------------------------------------------
(* Start-up: CatalogManager.load.                                          *)

(* The catalog's own file is created like any other: truncated, filled     *)
(* with zeros, then formatted.                                             *)
Bootstrap ==
    /\ pc = "down"
    /\ catFile = "none"
    /\ catFile' = "unusable"
    /\ pc' = "bootstrap"
    /\ UNCHANGED <<statement, catalog, cache, disk, file, told, budget>>

Bootstrapped ==
    /\ pc = "bootstrap"
    /\ catFile' = "usable"
    /\ pc' = "idle"
    /\ UNCHANGED <<statement, catalog, cache, disk, file, told, budget>>

Load ==
    /\ pc = "down"
    /\ catFile = "usable"
    /\ Loadable
    /\ catalog' = [t \in Registered(disk) |-> Cardinality(RowsOf(t, disk))]
    /\ pool' = disk
    /\ order' = InSequence(Len(disk))
    /\ dirty' = {}
    /\ pc' = "idle"
    /\ UNCHANGED <<statement, files, told, budget>>

(* The database does not open, now or ever after.                          *)
LoadRejected ==
    /\ pc = "down"
    /\ \/ catFile = "unusable"
       \/ catFile = "usable" /\ ~ Loadable
    /\ UNCHANGED vars

-----------------------------------------------------------------------------
(* CREATE TABLE.                                                           *)

RoomFor(t) ==
    LET used == IF pool = <<>> THEN 0
                ELSE (Len(pool) - 1) * RowsPerPage + Len(pool[Len(pool)])
    IN  used + columns[t] <= MaxPages * RowsPerPage

(* engine.create_table refuses a name whose file is there.                 *)
CreateBlocked(t) ==
    /\ pc = "idle"
    /\ t \notin DOMAIN catalog
    /\ file[t] # "none"
    /\ UNCHANGED vars

CreateFile(t) ==
    /\ pc = "idle"
    /\ t \notin DOMAIN catalog
    /\ file[t] = "none"
    /\ RoomFor(t)
    /\ file' = [file EXCEPT ![t] = "unusable"]
    /\ told' = [told EXCEPT ![t] = "unknown"]
    /\ op' = "create" /\ table' = t /\ column' = 0 /\ undoFailed' = FALSE
    /\ pc' = "creating"
    /\ UNCHANGED <<catalog, cache, catFile, disk, budget>>

FileCreated ==
    /\ pc = "creating"
    /\ file' = [file EXCEPT ![table] = "usable"]
    /\ pc' = "register"
    /\ UNCHANGED <<statement, catalog, cache, catFile, disk, told, budget>>

(* FileManager raises half-way: nothing removes the file it has begun.     *)
CreateFileFails ==
    /\ pc = "creating"
    /\ Fault
    /\ pc' = "idle"
    /\ UNCHANGED <<statement, catalog, cache, files, told>>

(* register_table: one row per column, on the first page with room ...     *)
RegisterColumn ==
    /\ pc = "register"
    /\ column < columns[table]
    /\ \E i \in DOMAIN pool :
          /\ HasRoom(i)
          /\ \A j \in 1 .. i - 1 : ~ HasRoom(j)
          /\ pool' = [pool EXCEPT ![i] = Append(@, Row(table, column))]
          /\ dirty' = dirty \cup {i}
          /\ order' = TouchedTo(i)
    /\ column' = column + 1
    /\ UNCHANGED <<pc, op, table, undoFailed, catalog, files, told, budget>>

(* ... or on a new one, which allocate_page writes out empty.              *)
RegisterOnNewPage ==
    /\ pc = "register"
    /\ column < columns[table]
    /\ \A i \in DOMAIN pool : ~ HasRoom(i)
    /\ disk' = Append(disk, <<>>)
    /\ pool' = Append(pool, <<Row(table, column)>>)
    /\ dirty' = dirty \cup {Len(pool) + 1}
    /\ order' = InSequence(Len(pool) + 1)
    /\ column' = column + 1
    /\ UNCHANGED <<pc, op, table, undoFailed, catalog, catFile, file, told,
                   budget>>

(* Faulty variant: the rows already registered are left in the pool.       *)
UndoKeepsRows ==
    /\ op' = "undo"
    /\ pc' = "flush"
    /\ UNCHANGED <<table, column, undoFailed, catalog, cache, files, told>>

(* The except branch of create_table.                                      *)
Undo ==
    /\ DeleteWhere(table)
    /\ op' = "undo"
    /\ pc' = "flush"
    /\ UNCHANGED <<table, column, undoFailed, catalog, files, told>>

(* allocate_page has counted the page before a write that raises.  What    *)
(* was to be written stays in the file object, which writes it when        *)
(* delete_where reads on: a blank page or, when the first of the two       *)
(* writes raised, one of zeros, which has no rows and no room.             *)
UnwrittenPages == {<<>>, [s \in 1 .. RowsPerPage |-> Gone]}
NewPageFails ==
    /\ pc = "register"
    /\ column < columns[table]
    /\ \A i \in DOMAIN pool : ~ HasRoom(i)
    /\ Fault
    /\ \E page \in UnwrittenPages :
          /\ disk' = Append(disk, page)
          /\ pool' = Append(Erased(table), page)
    /\ dirty' = dirty \cup PagesOf(table)
    /\ order' = InSequence(Len(pool) + 1)
    /\ op' = "undo"
    /\ pc' = "flush"
    /\ UNCHANGED <<table, column, undoFailed, catalog, catFile, file, told>>

RegisterDone ==
    /\ pc = "register"
    /\ column = columns[table]
    /\ pc' = "flush"
    /\ UNCHANGED <<statement, catalog, cache, files, told, budget>>

-----------------------------------------------------------------------------
(* engine.flush: the catalog's pool comes first, its dirty pages in the    *)
(* order of the frames; then the pools of the tables.                      *)

NextDirty(i) ==
    \E k \in DOMAIN order :
        /\ order[k] = i
        /\ i \in dirty
        /\ \A j \in 1 .. k - 1 : order[j] \notin dirty

FlushPage ==
    /\ pc = "flush"
    /\ \E i \in dirty :
          /\ NextDirty(i)
          /\ disk' = [disk EXCEPT ![i] = pool[i]]
          /\ dirty' = dirty \ {i}
    /\ UNCHANGED <<pc, statement, catalog, pool, order, catFile, file, told,
                   budget>>

(* Faulty variant: the schema is published before the flush.               *)
PublishUnflushed ==
    /\ pc = "flush" /\ op = "create"
    /\ catalog' = [t \in DOMAIN catalog \cup {table} |->
                      IF t = table THEN columns[t] ELSE catalog[t]]
    /\ told' = [told EXCEPT ![table] = "present"]
    /\ pc' = "idle"
    /\ UNCHANGED <<statement, cache, files, budget>>

(* The flush of CREATE is done: publish the schema.                        *)
Publish ==
    /\ pc = "flush" /\ op = "create"
    /\ dirty = {}
    /\ catalog' = [t \in DOMAIN catalog \cup {table} |->
                      IF t = table THEN columns[t] ELSE catalog[t]]
    /\ told' = [told EXCEPT ![table] = "present"]
    /\ pc' = "idle"
    /\ UNCHANGED <<statement, cache, files, budget>>

UndoFlushed ==
    /\ pc = "flush" /\ op = "undo"
    /\ dirty = {}
    /\ pc' = "remove"
    /\ UNCHANGED <<statement, catalog, cache, files, told, budget>>

(* Faulty variant: the file is removed before the flush is done.           *)
ForgetUnflushed ==
    /\ pc = "flush" /\ op = "drop"
    /\ catalog' = [t \in DOMAIN catalog \ {table} |-> catalog[t]]
    /\ pc' = "remove"
    /\ UNCHANGED <<statement, cache, files, told, budget>>

(* The flush of DROP is done: the memory forgets the table.                *)
Forget ==
    /\ pc = "flush" /\ op = "drop"
    /\ dirty = {}
    /\ catalog' = [t \in DOMAIN catalog \ {table} |-> catalog[t]]
    /\ pc' = "remove"
    /\ UNCHANGED <<statement, cache, files, told, budget>>

(* A write of the flush raises: of the next catalog page or, when these    *)
(* are written, of a page of some table.                                   *)
RegisterFlushFails ==
    /\ pc = "flush" /\ op = "create"
    /\ Fault
    /\ Undo

(* Faulty variant: the failure of the clean-up is not reported.            *)
UndoFlushFailsSilently ==
    /\ pc = "flush" /\ op = "undo"
    /\ Fault
    /\ pc' = "remove"
    /\ UNCHANGED <<statement, catalog, cache, files, told>>

UndoFlushFails ==
    /\ pc = "flush" /\ op = "undo"
    /\ Fault
    /\ undoFailed' = TRUE
    /\ pc' = "remove"
    /\ UNCHANGED <<op, table, column, catalog, cache, files, told>>

DropFlushFails ==
    /\ pc = "flush" /\ op = "drop"
    /\ Fault
    /\ pc' = "idle"
    /\ UNCHANGED <<statement, catalog, cache, files, told>>

-----------------------------------------------------------------------------
(* DROP TABLE, and remove_table which ends it and the undoing of CREATE.   *)

DropRows(t) ==
    /\ pc = "idle"
    /\ t \in DOMAIN catalog
    /\ DeleteWhere(t)
    /\ op' = "drop" /\ table' = t /\ column' = 0 /\ undoFailed' = FALSE
    /\ told' = [told EXCEPT ![t] = "unknown"]
    /\ pc' = "flush"
    /\ UNCHANGED <<catalog, files, budget>>

RemoveFile ==
    /\ pc = "remove"
    /\ file' = [file EXCEPT ![table] = "none"]
    /\ told' = [told EXCEPT ![table] =
                   IF undoFailed THEN "unknown" ELSE "absent"]
    /\ pc' = "idle"
    /\ UNCHANGED <<statement, catalog, cache, catFile, disk, budget>>

RemoveFails ==
    /\ pc = "remove"
    /\ Fault
    /\ pc' = "idle"
    /\ UNCHANGED <<statement, catalog, cache, files, told>>

-----------------------------------------------------------------------------
Stopped ==
    /\ pc' = "down"
    /\ catalog' = [t \in {} |-> 0]
    /\ pool' = <<>> /\ order' = <<>> /\ dirty' = {}
    /\ op' = "create" /\ table' = NoTable /\ column' = 0 /\ undoFailed' = FALSE

(* engine.close flushes what a failed flush has left dirty; a write that   *)
(* raises ends the program with the rest unwritten.                        *)
Close ==
    /\ pc = "idle"
    /\ op' = "close"
    /\ pc' = "flush"
    /\ UNCHANGED <<table, column, undoFailed, catalog, cache, files, told,
                   budget>>

Closed ==
    /\ pc = "flush" /\ op = "close"
    /\ dirty = {}
    /\ Stopped
    /\ UNCHANGED <<files, told, budget>>

CloseFails ==
    /\ pc = "flush" /\ op = "close"
    /\ Fault
    /\ Stopped
    /\ UNCHANGED <<files, told>>

Crash ==
    /\ pc # "down"
    /\ crashes < MaxCrashes
    /\ crashes' = crashes + 1
    /\ Stopped
    /\ UNCHANGED <<files, told, columns, faults>>

Next ==
    \/ Bootstrap \/ Bootstrapped \/ Load \/ LoadRejected
    \/ \E t \in Tables : CreateBlocked(t) \/ CreateFile(t) \/ DropRows(t)
    \/ FileCreated \/ CreateFileFails
    \/ RegisterColumn \/ RegisterOnNewPage \/ NewPageFails \/ RegisterDone
    \/ FlushPage \/ Publish \/ UndoFlushed \/ Forget
    \/ RegisterFlushFails \/ UndoFlushFails \/ DropFlushFails
    \/ RemoveFile \/ RemoveFails
    \/ Close \/ Closed \/ CloseFails \/ Crash

Spec == Init /\ [][Next]_vars

-----------------------------------------------------------------------------
(* PublishedIsDurable: a table whose CREATE has succeeded, and that no     *)
(* DROP has been tried on since, has all its rows in the catalog's file    *)
(* and a data file, whatever other statements fail, are undone or are      *)
(* killed in the middle.                                                   *)
PublishedIsDurable ==
    \A t \in Tables : told[t] = "present" =>
        /\ Positions(t, disk) = 0 .. columns[t] - 1
        /\ Cardinality(RowsOf(t, disk)) = columns[t]
        /\ file[t] = "usable"

(* A schema all on one catalog page is written and erased by one write.    *)
OnOnePageEach == \A t \in Tables : columns[t] = RowsPerPage
Undisturbed == faults = 0 /\ crashes = 0

(* AbsentLeavesNoTrace: a table that was dropped, or whose CREATE was      *)
(* undone without a cleanup error, has no row in the catalog's file and no *)
(* data file: it does not come back at a restart, and its name is free.    *)
(* Unless something failed or was killed, any name no table has is free.   *)
NameIsFree ==
    Undisturbed /\ pc = "idle" =>
        \A t \in Tables \ DOMAIN catalog : file[t] = "none"
AbsentLeavesNoTrace ==
    /\ \A t \in Tables : told[t] = "absent" =>
          RowsOf(t, disk) = {} /\ file[t] = "none"
    /\ NameIsFree

(* MemoryAgrees: between statements, the in-memory catalog and the pool's  *)
(* catalog pages say of a table what the user was told of it; and the      *)
(* catalog has a table with all its columns or not at all, at a restart    *)
(* too, when nothing fails or each schema is written at once.              *)
SchemasWhole ==
    Undisturbed \/ OnOnePageEach =>
        \A t \in DOMAIN catalog : catalog[t] = columns[t]
MemoryAgrees ==
    /\ pc = "idle" => \A t \in Tables :
          /\ told[t] = "present" =>
                t \in DOMAIN catalog /\ catalog[t] = columns[t]
                                     /\ RowsOf(t, pool) # {}
          /\ told[t] = "absent" => t \notin DOMAIN catalog /\ RowsOf(t, pool) = {}
    /\ SchemasWhole

(* Reopens: whatever is in the files when the process stops, the next      *)
(* load() accepts it.                                                      *)
Reopens == pc = "down" /\ catFile = "usable" => Loadable

(* ReopensIfWrittenAtOnce: that is so when nothing fails, and through a    *)
(* kill and a failing write anywhere when each schema has one page to      *)
(* itself.  (A schema over two pages, or an undoing that fails as well,    *)
(* can leave rows that load() rejects.)                                    *)
ReopensIfWrittenAtOnce ==
    Undisturbed \/ (OnOnePageEach /\ faults <= 1) => Reopens
=============================================================================

# MiniSQL in TLA+

This directory holds TLA+ models of MiniSQL (`src/database_system`): a small
relational database with a slotted-page storage layer, a buffer pool, a system
catalog stored as a table of its own, an SQL compiler and executor, a command
line and a desktop client. The models are translated from the code; TLC checks
them on small instances, and TLAPS proves theorems about them for every value
of their constants. `PROJECT.json` lists the runs, the mutants that show that
each property can fail, the source lines of every definition, the
disagreements found, and the hazards the properties are for.

    tlc -config BufferPool.cfg BufferPool.tla      # one run
    tlapm BufferPoolProofs.tla                     # the proofs of a module

## 1. The system

Paths are relative to `src/database_system`.

| Component | State | Operations | Hard because |
|---|---|---|---|
| slotted page (`storage/page.py`) | slot array, rows, both ends of the free room | insert, get, delete, update (in place or moved), `to_bytes`, `from_bytes` | row ids must keep naming their rows over moves and serialisation; the two areas of a page grow towards each other |
| buffer pool (`storage/buffer.py`) | ordered frames with pin count and dirty flag, LRU or FIFO | `get_page`, `unpin_page`, `flush_page`, `flush_all` | eviction between a caller's steps; a read or write of the file that raises half-way |
| file manager (`storage/file_manager.py`) | header in memory (page count, free-list head), the file | open or create, allocate, free, read, write, close | several writes to one operation; a kill between any two |
| storage engine (`engine/storage_engine.py`) | per table: a file, a pool; schemas | `create_table`, `remove_table`, `attach_table`, `insert_row`, `scan`, `delete_where`, `update_where`, `flush`, `close` | statements walk pages under eviction; clauses that raise in the middle; close over several tables |
| catalog manager (`engine/catalog_manager.py`) | the `__catalog__` table, one row per column | `load`, `create_table`, `drop_table`, with compensation | memory, catalog pages and data files must agree after failures and kills |
| in-memory catalog (`sql_compiler/catalog.py`) | schemas by name | register, drop, look up | |
| session (`engine/minidb.py`) | the objects above | open, execute a batch, close | one statement of a batch failing after others took effect |
| lexer, parser, AST (`sql_compiler/`) | a position in the text | text to tokens, tokens to trees | comments and strings over lines; operator precedence; nesting against Python's stack |
| compiler demo (`sql_compiler/demo.py`) | a catalog of its own | compile a text without executing it | its catalog is not the one an execution would have |
| semantic analyser | the catalog | checks a tree, fixes its types | what it accepts, the executor must be able to run |
| planner, optimizer | none | tree to plan; constant folding, filter removal | the rewritten plan must mean the same, errors included |
| executor (`engine/executor.py`) | none | runs a plan: scan, filter, aggregate, sort, project, limit, insert, delete, update | NULL, division, grouping; the order of its stages |
| desktop client (`gui/app.py`, `controller.py`, `worker.py`, `service.py`) | busy flag, request and response queue, object tree, data grid, current table, dialog; the worker's database | execute, browse, refresh, insert, change and delete a row, switch directory, close | two threads; an answer that belongs to an older state, or comes while a dialog is open; closing during a statement |
| command line (`cli/main.py`) | the lines of the statement being typed | REPL, script mode, `--compile-only` | when a typed statement is complete; a failing statement in the middle of a script |
| installers, theme, banner | | | nothing to verify |

**Interactions.** The client's Tk thread and its worker share two queues and
nothing else; the worker calls the service, which calls the session. The
session compiles a statement against the in-memory catalog and hands a plan to
the executor, which calls the storage engine row by row, or the catalog
manager for DDL. The engine reaches pages only through a table's buffer pool
(`get_page`, change the page object, `unpin_page(dirty)`), the pool reaches
the file through the file manager. The catalog manager is the engine's client
for its own rows and also creates and removes data files. There is one thread
below the service, so the interleavings that matter there are those of callers
holding pins, of failing calls and of kills; real concurrency is in the client.

**What makes each part correct.** A page: slots and rows never collide, slot
numbers are for ever, a page is a list of rows. The pool: pin counts count
holders, a clean frame equals the file, no change is dropped. The file: no page
is given out twice or lost. A table: statements act as on a list of rows. The
catalog: what the user was told of a table is so after any failure and
restart. A row: it reads back as it was meant, and is as wide as its table.
The front end: a text is cut into the statements and read as the trees that
were meant, at the right positions, and the statements of a batch run one by
one. The executor: a plan means what its statement says, optimised or not. The
client: one request at a time, every request answered, the tree shows the
database in use, a row button works on the row that was selected, and nothing
is lost by closing.

## 2. The modules

    PageStore     RowStore      TableStore          what a component promises
        ^             ^             ^
        | implements  |             |
    BufferPool    SlottedPage   TableHeap           components
        ^                           |               (TableHeap instantiates
        +---------------------------+                BufferPool)
    FileManager   CatalogDdl    RowCodec     GuiWorker    GuiGrid
    Lexer <- Parser <- FrontEnd -> Session        Expressions <- Query

| Module | Models | State and actions against the code |
|---|---|---|
| `RowStore` | (promise) | a sequence of slots, each a row or empty; append, replace, empty |
| `SlottedPage` | `Page` | `slots`, `rows`, `freeEnd` are `_slots`, `_data` and `_free_end`; a byte of the code is a cell here, and a slot entry takes `SlotSize` cells; `ToBytes` and `FromBytes` write and read an image. `insert_row`, `delete_row` and `update_row` have one action per way through them |
| `PageStore` | (promise) | pages with a current and a stable version, users that hold them |
| `BufferPool` | `BufferPool` and its calls to the file | `order` is the OrderedDict's order, `frame` its contents; callers are `Users` with at most one page each (`holds`, `wrote`). `get_page` is a hit, a miss, an eviction, a refusal, or a failed write or read in an eviction, each with what the code has done by then. `Restart` is a new process |
| `FileManager` | `FileManager` | header in memory and in the file, number of pages of the file, free-list links; every `write` of the code is a step, and `Crash` may come between any two. Truncation, filling and formatting of a new file are three steps |
| `TableStore` | (promise) | the rows of a table; a statement is asked for and answered in one step. A statement may fail, a reopening may bring back rows of a statement that failed, and a kill may take rows back, each page by page |
| `TableHeap` | row operations of `StorageEngine` | instantiates `BufferPool` over the same variables; a statement (`stmt`, one of `Asked`) walks the pages: get, work, unpin. A page is a short sequence of slots. A WHERE clause is a function on the rows, SET another; a row on which either raises is one on which WHERE raises, since both are evaluated on a whole page before a row is changed. A clause that raises, and a row that a scan cannot decode (`ScanRaises`: only the widened ones, since a cell that fits its table decodes), leaves the statement, and its pin, where the code leaves them; an INSERT of a row too wide for any page is refused before it takes a page (`InsertRefused`). `raised` counts the statements that raised with a page in hand. What a call has in locals is reset when it returns |
| `CatalogDdl` | `CatalogManager`, DDL parts of `StorageEngine`, `MiniDB` open and close | `pool` and `disk` are the catalog's pages in the pool and in the file, `file` the data files, `catalog` the in-memory schemas; a flush writes one dirty page a step. Every write may raise (`Fault`; a new page whose write raised has been counted and is in the file all the same, blank or of zeros) and every step may be the last (`Crash`). `NoTable` is the model's value for "no statement under way". `told` is a history variable: what the last answer about a table said |
| `GuiWorker` | Tk thread, controller, worker, service | a Tk callback is one step, a request is taken and answered in steps of the worker; of a database the directory, whether it is open, whether changes are only in its pool, and a version of its table list. A batch that fails may have changed pages (`ExecuteFails`) or the table list (`ExecuteDdl`). `mishaps` is a history variable |
| `GuiGrid` | the data grid of `MiniSQLApp` | `current`, `follow` and `tree` are `current_table`, `_refresh_table_after_write` and `tables`; `grid` is what is on show, with the directory and table it came from; `dialog` the statement an open dialog will send. One action per handler, in two where a dialog is between, since answers arrive under it. `calm`, `meant` and `done` are history: what the user saw and had done at the click. The console sends every kind of statement. One that the analyser accepts may fail (`ExecuteFails`): a DELETE or UPDATE then has changed some of the rows it matches, a DROP may have taken effect; `torn` remembers when these were on show. All columns are INT, no table reaches the 200 rows of a browse, a console text is one statement, and every directory opens: `GuiWorker` has those failures |
| `RowCodec` | `encode_row`, `decode_row` and the checks before them | a value is its bytes: NUL, a letter, or a half of a two-byte character; an INT is one cell. The range of an INT is checked of what is written, a literal or a sum. `rows`, `wide` and `spoilt` are history: the row that was meant, and the rows a copy was too long for, last or ever |
| `Lexer` | `Lexer`, `_is_complete` | a text is a sequence of words, numerals and single characters, each with its width; a token is its type, lexeme, line and column |
| `Parser` | `Parser` | every `_parse_` function of a statement is a table of alternatives and items; expressions climb the levels of precedence as the code does. The result is a tree, the token of the ParseError, or Python's RecursionError (`MaxLevels` stands for its stack) |
| `Session` | REPL, script mode, `compile_sql`, `MiniDB.execute`, `DatabaseService.execute` | one action per line typed, text handed over, batch started, statement run, batch shown. What lexer and parser make of a text is a parameter (`Compiled`; `Joined`, `Blank`, `Complete`, `Exit` and `Depth` for the smaller questions). Of the database the table names; whether a statement on an existing table succeeds is left open. `sent`, `parsed`, `log` and `shown` are history |
| `FrontEnd` | the two together | the parameters of `Session` as `Lexer` and `Parser` give them (`MCSession.cfg` assigns them), and the properties about texts |
| `Expressions` | trees, `_expression`, `_evaluate`, `_evaluate_having`, `_compute_aggregate`, `_fold_expression` | operators on trees. A value is an integer (a Python bool is one; a string is its length, as if all its letters were the same), `None`, or what was raised: `ExecError`, or `Crash` for an exception that is not MiniSQL's own |
| `Query` | `MiniDB._run_one` under the REPL: `SemanticAnalyzer`, `Planner`, `Optimizer`, `Executor` | `stage` says how far the statement `stmt` is; one action per stage. A plan is the sequence of its nodes from the scan up; the rows a node yields are a sequence that ends with what was raised, so that a LIMIT, which stops asking, does not see a later error |

`Lists` has the one list operation (`Only`: what a loop with a condition
collects) that modules and proofs share. `MCSlottedPage`, `MCCatalogDdl`,
`MCTableHeap`, `MCRowCodec`, `MCGuiGrid`, `MCSession` and `MCQuery` give TLC the
values a `.cfg` cannot write. The modules named `...Proofs`
hold the proofs (section 4). The lexer and parser models
were compared with the Python code on 22,621 short texts and 16,978 damaged
statements: types, lexemes, positions, trees and places of errors are the same.
The operators marked "Faulty variant" are plausible bugs: `PROJECT.json` says
which definition each replaces and which property then fails. They are not
part of any specification.

## 3. The runs

| Run | States | What it shows |
|---|---|---|
| `MCSlottedPage` | 43 thousand | `Layout`, `SlotsNotReused`, and that a page implements `RowStore`, for a page of 13 cells |
| `BufferPool` | 292 thousand | pins, coherence of clean frames, eviction order, and that the pool implements `PageStore`, both policies, with a failing file |
| `FileManager` | 612 thousand | a page has one owner or is on the free list once, and no page is lost, over frees, reopenings and kills |
| `MCTableHeap` | 6.0 million | every statement acts as on a list of rows (`TableStore`) though the pool is smaller than the table, clauses raise, rows grow and the process is killed; a failed statement has done whole pages; there are no more pins than statements that raised |
| `MCCatalogDdl` | 34 thousand | published tables are durable, absent ones leave no trace and block no name, memory agrees with the catalog pages, and when the database opens again for certain |
| `MCRowCodec` | 15 thousand | rows read back as meant, over INSERT, UPDATE and DELETE; which rows are not as wide as their table |
| `MCSession` | 70 thousand | lexer and REPL agree about what is a whole statement, positions are true, lines do not matter, the parser reads what is meant, batches run one by one, what took effect is shown |
| `MCQuery` | 32 thousand | 1500 statements: the optimised plan means what the plain one does; the rows, order, groups and aggregates of a SELECT; the exact effect of a write; what the analyser accepts runs |
| `GuiWorker` | 62 thousand | one owner of a directory, tree up to date, no loss in an orderly end; every request is answered, the tree catches up, closing ends |
| `MCGuiGrid` | 991 thousand | a row button works on the row that was selected, the grid is not out of date at rest but after a statement that failed half-way, an updated row comes back on show |

Two further runs end in a violation: the code does something the repository
says it does not.

| Run | Disagreement |
|---|---|
| `MCCatalogDdlDropKilled` | a kill between two page writes of a DROP leaves a catalog that `load` rejects, and no database of that directory opens any more (docstring: at worst an orphan file) |
| `MCTableHeapPins` | a clause that raises leaves its page pinned when the statement is over, until the pool is dropped (`specs/001-minisql-dbms/contracts/storage-api.md:53`: after each `get_page` an `unpin_page` in a `finally`) |

Others were met in modelling and have no run of their own; most are a named
exception of a property, without which TLC finds the property violated.

*Storage.* The victim of an eviction is dropped before its write-back, so a
write that raises loses it (`PageStore`'s step `Lose`; contract and FR-013:
written back before it is dropped). Of the pages left pinned (`MCTableHeapPins`)
`PinsAreAccounted` says that there are never more of them than statements that
raised with a page in hand: a clause, a row that cannot be decoded, an UPDATE
that lost a row. Statements that end well, or are refused a page or a row too
wide, leave none. `UPDATE t SET short = long` stores a row wider than the
table (`WideOnlyByCopy` says just these are; the docstrings of `update_where`
and the module say all rows have one width). It may move or be lost for want of
room, it is read back cut, and if the cut goes through a character every later
statement on the table raises UnicodeDecodeError. An UPDATE that lost a row for
want of room leaves its page unmarked, so a reopening may bring the row back.
An UPDATE that raises on a later page has changed the earlier ones
(`PagewiseProgress` says exactly how). Rows of an answered INSERT are lost by a
kill, since only DDL and close write pages out. A kill in the reuse of a freed
page hands that page out for ever after (`FileManager` restricts its properties
to kills without frees; the engine never frees).

*Catalog.* A data file that DROP could not remove blocks its name. A DROP whose
flush raised takes effect at the next flush. `DELETE FROM __catalog__` is
accepted and can make the database unopenable.

*Compiler and executor.* `MIN('x')` among the values of an INSERT passes the
analyser and ends in an AttributeError (`semantic.py:234`, under a comment that
only string literals are VARCHAR); ORDER BY over groups, HAVING on an ungrouped
column or on no rows in others. The command line catches none of them
(`CrashesOnlyOnGroups` says just these shapes do; constitution: every illegal
input is answered by a structured error). `NOT c = 1`, the folding of errors,
and the order of a grouped SELECT are below.

*Front end.* `_is_complete` takes `SHOW TABLES; /* x` for complete, and the
comment's rest on the next line for another statement (its docstring says it
reads on). Parentheses are limited so that nesting ends in a ParseError, but
aggregates within aggregates, chains of NOT and sums of thousands of terms are
not counted and end in RecursionError, in the parser or the analyser. In
`NOT c = 1` the NOT belongs to `c` alone. Folding `x AND FALSE` drops an error
of `x`, in HAVING also a crash (`HAVING b > 1 AND 1 = 2`, with `b` not
grouped); and over no rows, without GROUP BY, folding `x OR FALSE` to `x` leaves
None where there was FALSE, so that
`HAVING (MAX(a > b) OR 1 = 2) = (1 = 2)` returns a row before folding and none
after it (`OptimizerKeepsMeaning` has the three exceptions; each is needed;
SC-004 wants identical results). A grouped SELECT returns the keys before the aggregates, whatever the
order of its list. AVG rounds down, `/` towards zero. A script stops at its
first failing statement (`RunsOneByOne` says so of the command line because the
code does, and of the client because the design wants it) and loses the output
of those before it (an exception of `EffectsAreShown`). FR-017 and
`contracts/engine-api.md:46-48` want it to go on, statement by statement.
`--compile-only` leaves a dropped table in its catalog.

*Client.* A statement that outlasts the five-second join is killed with dirty
pages (`OrderlyEndLosesNothing` has the exception; the design says to wait).
When the first database does not open, the client stays busy (`Answered`), and
when the old database does not close in a switch, the tree shows one directory
while statements go to the other (`TreeIsCurrent`). Of a batch only the last
result is sure to be shown (the other exception of `EffectsAreShown`; the design
keeps each). An UPDATE or DELETE that fails on a later page has changed the
earlier ones, and so has a DROP whose file cannot be removed its table, but the
answer has no result and `_show_batch` leaves the grid alone: the lines on show
are out of date until the next result (the exception of `GridIsCurrent`). The table that the
row buttons work on is the one opened last, even if its browse was dropped as
busy, a console query has replaced the grid, or another directory is open
(`AimIsTrue` has the three exceptions, and a fourth for statements that failed;
each is needed). A change confirmed
while another is under way is dropped without a word, and its table browsed as
if it had been made (`UpdateIsShown`).

### Bounds, and why they are enough

* `SlottedPage`: 13 cells, slots of 2 cells and rows of 1 and 2 cells let a
  page fill up exactly, or with one cell to spare, and a row grow and move. The proofs have no such bound.
* `BufferPool`: three pages over two frames is the least in which one page
  stays while another is evicted; two of three users can pin both frames and
  the third is refused. Two contents tell a changed page from the old one; one
  restart.
* `FileManager`: header and four pages, enough for a free list of two and a
  reused page between fresh ones; two kills, so one can hit the recovery of
  another.
* `MCTableHeap`: three pages of two slots over two frames, so that a table
  outgrows its pool and a page in the middle can have room; three users, so
  that two failed statements can leave both frames pinned and the next one is
  refused. Two values and a wider row. The six statements asked are an INSERT
  of each value, a scan, a DELETE and an UPDATE whose clauses raise on one row
  and take others, an UPDATE that widens, and one that changes in place: a page
  then holds rows that match, rows that do not, and rows that raise, in any
  order. One reopening or kill. (With one value, and pages of two slots, no page
  ever held a row that satisfies a clause beside one that raises, and with two
  pages no row was ever inserted before others: `TableStore` promised that an
  INSERT appends. The proof of what an INSERT finds failed there. It appends
  until a statement has raised or the process was killed, which `upset`
  remembers: an UPDATE that lost a row leaves a page that reads as it was before,
  or shorter, and a kill may take any page back.)
* `CatalogDdl`: two tables, two catalog rows to a page (7 in the code). One
  layout gives each table a page of its own, the other makes a schema cross
  from one page to the next. Two failing writes, so that the undoing of a
  failed CREATE may fail too, and one kill.
* `GuiWorker`: three databases, so a switch can come back to a directory it
  has left; one change of each directory's tables. Queues need no bound.
* `GuiGrid`: two directories with a table `t` whose columns stand the other way
  round, a second table, equal rows, two values. Four acts are enough to open a
  table, let something else happen, and use a row button in haste.
* `RowCodec`: columns of one and two bytes and an INT, two rows; literals
  that are empty, fit, are too long for one column or for both, are one
  character of two bytes, and hold zero bytes in front, alone and at the end.
* `Session`: typed texts of three lines out of fourteen (halves of statements,
  comments and strings open at the end of a line, `exit;`); scripts and
  compilations of two; all texts of three characters over ten that the
  scanners look at and of five over six of them; all expressions two
  operators deep, with the fewest parentheses and with all;
  SELECT with every set of clauses; five wrappers deep past the limits, which
  are 2 parentheses and 4 levels here (64 and Python's stack in the code).
* `Query`: one statement per behaviour, from each of four tables (empty, one
  row, equal keys apart from and next to each other, zeros and negative
  numbers), since a statement sees of the ones before it the table only. INT
  is -2..2, so that `a + b` and a literal leave it. Conditions are all pairs of
  eight under AND and OR; one raises on some rows, one on all, three are constant.

### Fairness

`GuiWorker` and `GuiGrid` have liveness properties. The worker thread is
scheduled and its calls return (`WF_vars(Worker)`; in `GuiGrid` of the four
ways to serve a request); the Tk loop calls `_poll` every 80 ms, under an open
dialog too (`WF` of the ways to handle a response); `join` returns or times
out. Nothing is assumed of the user, who need not click, answer a dialog or
close. Weak fairness is enough since none of these is disabled by another actor
while it is due. The other components are called and return: they have safety
properties only. Deadlock is checked everywhere but where the system rightly
stops: in `GuiWorker` when the window is gone, in `MCGuiGrid`, `MCRowCodec` and
`MCQuery` when the bound on acts, rows or statements is reached, in `MCSession`
when the text has been read.

## 4. What is proved

`PageProofs` proves of `SlottedPage`, for every page size, slot size, set of rows with
any sizes, and any sequence of operations:

* `PageTypes`: `Spec => []TypeOK`
* `PageLayout`: `Spec => []Layout`, slot array and rows never overlap in memory or in
  the serialised image
* `PageKeepsSlots`: `Spec => SlotsNotReused`
* `PageIsARowStore`: `Spec => PageStoresRows`, the page implements `RowStore`,
  serialising and reading back included

The only assumptions are those of `SlottedPage` on its constants (sizes are
naturals, the header fits, a row has a cell). `Layout` is stated of the page
and of the page read back from its image; that both hold, with the types, is
the inductive invariant `PageInv`. What an insertion keeps is a lemma of its
own (`PlacePageInv`), used by `insert_row` and by the moves of `update_row`;
that serialising and reading back gives the same slots and rows is another
(`SerialiseRoundTrip`). The refinement follows from the invariant: each action
changes the abstract rows as one action of `RowStore` does, or not at all.

`PageProofs` proves of `RowCodec` (whose specification is `CodecSpec`), for any
columns, widths and literals, and any sequence of statements:

* `CodecInvariant`: `CodecSpec => []CodecInv`
* `RowsReadBack`, `OnlyCopiesAreWide`: `CodecSpec => []RoundTrip`, `[]WideOnlyByCopy`

First the operators: a padded value is as long as its column, or as it was if it
is longer (`Padded`); stripping takes off the zero bytes at the end and nothing
else, of a padded value as of the value (`StripIs`, `Stripped`); where the columns
begin (`Offsets`); and, by induction on the columns, that the bytes of a row whose
values fit have each value at its column's place and no more bytes, while a value
that is too long makes the row longer (`Encoded`, `Decoded`, `ReadBack`). The
three forms of UPDATE share `UpdateStep`. What `CodecInv` adds to the two
properties is what they need of each other: no row has fewer bytes than its
table, the wide rows are among the spoilt ones, and an INT has one cell. For the
proof `CodecAssumption` had to say what the code takes from Python: a literal is
whole characters. Without it `RoundTrip` is false, since such a literal could be
stored and not read.

`BufferPoolProofs` proves, for any pages, finite set of users, capacity, contents and
policies, with or without a failing file, and over restarts:

* `PoolTypes`, `PoolPins`, `PoolCoherence`: `Spec => []TypeOK`,
  `[]PinsAreHolders` and `[]Coherence`
* `PoolRefinesPageStore`: `Spec => PoolIsAPageStore`
* `PoolEvictsInOrder`: `Spec => EvictionOrder`

The inductive invariant `PoolInv` is the conjunction of the three: that a
victim has no users rests on the pin counts, that the user's page is in the
pool when it is unpinned rests on that, and that a clean victim may be dropped
rests on coherence. Lemmas say what `_touch`, an eviction, a get and an unpin
do to the order and to the holders; the loads (with and without an eviction),
the failed evictions and the flushes each share a lemma. For the refinement,
an eviction, written back or clean, is shown to change no user's view. For
`EvictionOrder`, each action that takes a frame away is shown to take the first
one nobody holds, in the order from before it.

`FileManagerProofs` proves, for any number of pages, kills and reopenings:

* `FileInvariant`: `Spec => []FileInv`
* `PagesStayIntact`, `EveryPageHasOnePlace`: `Spec => []PagesIntact`,
  `[]PagesHaveOnePlace`

The two properties say nothing of the steps between the writes of an operation.
`FileInv` does: it has where a page is when it is off the list and not yet
owned, what of the header in memory is not in the file yet, and that a caller
who never frees finds the list empty, which is why kills do no harm to the
engine. The free list is a chain through the pages: `Chain(word, head, S)` says
that the links from `head` run once through all of `S`; taking the first page
off and putting one in front keep a chain (`ChainPop`, `ChainPush`), and that
the list read from the file, a recursive function, is that chain is
`FreeListIsChain`.

`TableHeapProofs` proves, for any values, page size, number of pages, users,
capacity and policies, and whatever statements are asked:

* `HeapInvariant`: `Spec => []HeapInv`
* `UnchangedFramesAreInTheFile`: `Spec => []PageOrFile`
* `PinsAreOfFailures`: `Spec => []PinsAreAccounted`
* `FailuresArePagewise`: `Spec => PagewiseProgress`
* `TableInvariant`: `Spec => [](HeapInv /\ TableInv)`
* `TableIsList`: `Spec => TableIsARowList`

`HeapInv` takes in the pool's own invariant. `BufferPool`'s theorems are about
callers who do what `BufferPool!Next` lets them; that the engine's calls are
such, and what each does to what a caller reads (`View`), is shown lemma by lemma
(`GetStep`, `ChangeStep`, `UnpinStep`, `FlushStep`, `ReopenStep`, `KillStep`), with
the pool's step lemmas cited through `Proofs == INSTANCE BufferPoolProofs` and
the pool's assumption proved of the instance (`PoolConstants`). To that it adds
the page that the loop holds, that every other pinned page is one a statement
raised on, the room that an INSERT may count on, and, for
`PagewiseProgress`, that of the pages a statement found those before the loop's
have become what the statement makes of a page and the others are as they
were, in whatever frames or file they are. `UpdatedPage` says of the recursive
second loop of `update_where` that it leaves a page.

`TableIsList` is the refinement of `TableStore`: the pages, the pool and the file
together are a list of rows. Its second invariant, `TableInv`, says what is true
of the rows in the middle of a statement:

* `BlankInv`: the pages from the count on are empty, in the pool and at the
  statement's beginning; this is why an `allocate_page` adds no row.
* `FullInv`: until a statement has raised or the process was killed, all pages
  before the last are full; this is why an INSERT appends.
* `InsertInv`: an INSERT has found every page behind it full and changed
  nothing, or has put its row at the end of the page it is on.
* `SeenInv`: a scan has collected the rows of the pages behind it, a DELETE or
  UPDATE has counted the rows among them that match, and an UPDATE that goes on
  has lost none. (That those pages are changed and the others are not is in
  `HeapInv`.)

The argument is then about one page at a time (`DeletedRows`, `UpdatedRows`,
`UpdatedLive`: what `Deleted` and `Updated` make of a page's rows) and from pages to
the table by induction on the pages (`RowsOnly`, `RowsMapped`, `RowsCopies`,
`RowsInserted`). An UPDATE under which every row keeps its width leaves each row
in its slot; one that widens a row moves it to another slot, and then the
number of copies of each row is what is kept, as `TableStore` says. The step
lemmas (`InsertRefines`, `ScanRefines`, `DeleteRefines`, `UpdateRefines`,
`FailRefines`, `ReopenRefines`, `KillRefines`; `WithinRefines` for the steps
inside a statement, which stutter) meet in `NextRefines`.

`CatalogDdlProofs` proves, for any tables with any numbers of columns, pages of
any size, and any numbers of failing writes and kills:

* `CatalogInvariant`: `Spec => []CatalogInv`
* `WhatWasCreatedStays`, `WhatWasDroppedIsGone`: `Spec => []PublishedIsDurable`,
  `[]AbsentLeavesNoTrace`
* `MemorySaysWhatWasTold`, `TheDatabaseOpens`: `Spec => []MemoryAgrees`,
  `[]ReopensIfWrittenAtOnce`

`CoreInv` has what the statement under way has done to catalog pages in pool
and file, to the data file and to memory; that a published table's rows are
in the same places of pool and file is what lets a flush stop anywhere. Three
more parts carry the conditions under which the properties say more: nothing
failed (`UndisturbedInv`), each schema fills one page (`LayoutInv`: every page of
the file is empty or one whole schema, and of the pool all but the one being
filled), and both a whole page and at most one failing write (`AtOnceInv`).

`GuiWorkerProofs` proves, for any directories, statements and changes:

* `WorkerInvariant`: `Spec => []WorkerInv`
* `OneDatabaseIsOpen`, `IdleTreeIsTrue`, `NothingIsLost`: `Spec => []SingleOwner`,
  `[]TreeIsCurrent`, `[]OrderlyEndLosesNothing`

The properties are about a client at rest. The invariant says that what the Tk
thread has asked for is in exactly one place (queued, in the worker's hands,
answered, or over), that a `close_all` is behind everything else, and that a
tree out of date has a request or an answer on its way that mends it.

`GuiGridProofs` proves, for any directories, layouts, rows and number of acts:

* `GridInvariant`: `Spec => []GridInv`
* `RowButtonsAimTrue`, `NothingStaleAtRest`: `Spec => []AimIsTrue`,
  `[]GridIsCurrent`

The chain behind `AimIsTrue` is long: a click opens a dialog, under which an
answer may arrive, and what is confirmed is served later. The invariant says
what keeps the aim at each link (the grid, the dialog, the request, the answer)
as long as the user has waited. Behind `GridIsCurrent` is that the grid, or the
answer that is about to replace it, shows the table as it is; a write makes that
false until its answer is in, which empties the grid, and a statement that failed
until another result is shown, which is what `torn` says. To state it of rows at all, `GuiGridAssumption`
asks that initial rows fit their columns and no layout is without columns
(`CREATE TABLE` needs one).

`SessionProofs` proves, for any texts, typed, scripted, compiled or clicked, and
for any lexer and parser:

* `SessionInvariant`: `Spec => []SessionInv`
* `BatchesRunOneByOne`, `WhatRanIsShown`: `Spec => []RunsOneByOne`,
  `[]EffectsAreShown`

`SessionAssumption` says all that is asked of the front end: a text ends in a
tree, an error of MiniSQL's or another exception, and a tree has its statements
in a list. TLC evaluates it for the texts of `MCSession`. Both properties relate
places of the log that are any number of steps apart, so the invariant gives each
batch a stretch of the log, from `a` to `z`, and says of it

* `Ran`: its entries are the first statements of the batch's tree, in order, and
  only the last may have failed so that the batch stops;
* `Runs`, while it is under way: the stretch ends where the log does, the rest of
  the tree is in `batch`, what succeeded is in `results` and has not been shown;
* `IsOver`, afterwards: nothing is left unless the last entry failed, and of the
  results those have been shown that the command line, or the client, shows.

That nothing else is shown is `ShownInv`: the log only grows, and what a step
shows is of the batch that runs (`OnlyEffectsShown`).

`TablesInv` says that the tables are those the log explains: `Replay` is a
recursive function over the log, of which `ReplayAppended` says that one more entry
leaves its earlier values as they were. A batch that is over is disturbed by no
step of a later one (`OverStays`, `OthersStay`). `RunsOneByOne` says besides that
nothing but a failing statement ends a batch early.

At the head of `TableHeapProofs` is a small library. Induction is stated there as
a fact about a set (a set of numbers with 0 and closed under `n + 1` has all of
them; a set of lists with the empty one and closed under `Append` has all of
them), proved from the library's well-foundedness of `<`, so that the provers can
use it. From it follow that a function defined by steps, `f[n]` from `f[n - 1]`,
exists and has the type its steps keep (the second loop of `update_where`, the
rows of a table), and what `Only`, a list mapped row by row and the number of
copies of a row are over an `Append` and over a concatenation. The free list of
`FileManagerProofs`, the joined columns of `PageProofs` and the log of
`SessionProofs` (`UpTo`) are done in the same way. RECURSIVE operators, and
induction over trees and texts, remain out of reach.

Each theorem assumes what its module's ASSUME says of the constants (names
apart, sizes positive, finite sets of users, literals that are text, trees with a list of statements) and nothing else; TLC evaluates
those on the runs.

Only model-checked: liveness and the use of ENABLED (`Answered`,
`TreeCatchesUp`, `CloseEnds`, `UpdateIsShown`), which are out of the prover's
reach, and what is said of texts and trees (the four properties of `FrontEnd`, all
of `Query`), which are recursive data handled by RECURSIVE operators.

## 5. Not modelled, and the plan

Not modelled for good: widgets, themes, the consoles and their tabs, the CREATE
TABLE dialog, installers, banners, message texts, positions in error messages
of the analyser, tree and JSON printing, statistics counters; integers beyond
TLC's, for which `/` goes through a float and may raise OverflowError; the
quoting of values in generated statements (the values here are integers).

Left open by `Session` and modelled elsewhere: whether a statement on an
existing table succeeds (`Query` has SELECT, INSERT, UPDATE and DELETE,
`CatalogDdl` the failures of CREATE and DROP). Two parts of the system meet in
no model: writes of the user to `__catalog__`, and the texts a quote left open
at the command line swallows.

Planned, in this order:

1. `CatalogDdl` with user statements on `__catalog__` among its writers.
2. The text of column types and the limit on names in `CatalogManager`.

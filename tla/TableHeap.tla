----------------------------- MODULE TableHeap -----------------------------
(***************************************************************************)
(* engine/storage_engine.py: INSERT, scan, DELETE and UPDATE of one table, *)
(* page by page through the table's buffer pool.                           *)
(*                                                                         *)
(* A page is the list of its slots.  Rows are of fixed width, so a page    *)
(* has room for RowsPerPage of them, deleted ones included; Wide stands    *)
(* for a row whose encoding is longer than the table's width, which an     *)
(* UPDATE of a VARCHAR column from a longer one produces when Widening.    *)
(* When Failing, a WHERE clause or a SET clause may raise on a row         *)
(* (division by zero, a value out of range), decode_row on a row wider     *)
(* than the table (its bytes are cut off, maybe within a character), and   *)
(* an INSERT may be refused before it asks for a page.                     *)
(***************************************************************************)
EXTENDS Integers, SequencesExt, Lists

CONSTANTS
    Values,         \* the rows of the table
    Wide, Gone,     \* a row of another width; an emptied slot
    RowsPerPage,
    MaxPages,       \* bound on the table's pages
    Failing, Widening,
    Asked,          \* the statements that are asked
    Users, NoPage, Capacity, Policies, MaxRestarts

ASSUME HeapAssumption ==
    /\ Values # {}
    /\ Wide \notin Values /\ Gone \notin Values \cup {Wide}
    /\ RowsPerPage \in Nat \ {0}
    /\ MaxPages \in Nat \ {0}
    /\ Failing \in BOOLEAN /\ Widening \in BOOLEAN
    /\ Users # {} /\ IsFiniteSet(Users)
    /\ NoPage \notin 1 .. MaxPages
    /\ Capacity \in Nat \ {0}
    /\ Policies \subseteq {"LRU", "FIFO"}
    /\ MaxRestarts \in Nat

VARIABLES
    order, frame, disk, holds, wrote,   \* the table's pool and its file
    policy, restarts,
    count,      \* page_count() of the table's file
    stmt,       \* the statement under way
    pc,         \* "idle", "get", "work" or "unpin"
    at,         \* the page of the loop
    me,         \* the loop's hold on that page
    soFar,      \* what the statement has counted or collected
    answer,     \* what the last statement returned, once it has
    start,      \* the pages as the statement found them
    raised,     \* history: the statements since the last opening that raised
                \* with a page in hand
    upset       \* history: whether a statement ever raised on its way through
                \* the pages, or the process was killed

Pages == 1 .. MaxPages
Row == Values \cup (IF Widening THEN {Wide} ELSE {})
PageContents == UNION {[1 .. n -> Row \cup {Gone}] : n \in 0 .. RowsPerPage}

Pool == INSTANCE BufferPool WITH
    Contents <- PageContents, Blank <- <<>>, IOErrors <- FALSE

poolVars == <<order, frame, disk, holds, wrote, policy, restarts>>
vars == <<poolVars, count, stmt, pc, at, me, soFar, answer, start, raised, upset>>

-----------------------------------------------------------------------------
(* Statements.  where maps a row to whether it satisfies the WHERE clause, *)
(* or to "raises", which stands also for decode_row or a SET clause that   *)
(* raises on the row: they are evaluated on all rows of a page before one  *)
(* is changed.  set maps a row that satisfies it to what the SET clause    *)
(* makes of it, and any other row to itself.                               *)
Raises == "raises"
Insert(v) == [kind |-> "insert", row |-> v]
Scan == [kind |-> "scan"]
Delete(where) == [kind |-> "delete", where |-> where]
Update(where, set) == [kind |-> "update", where |-> where, set |-> set]

Verdicts == {"yes", "no"} \cup (IF Failing THEN {Raises} ELSE {})
Wheres == [Row -> Verdicts]
Updates ==
    {u \in {Update(w, s) : w \in Wheres, s \in [Row -> Row]} :
        \A r \in Row : u.where[r] # "yes" => u.set[r] = r}

Statements == {Insert(v) : v \in Values} \cup {Scan} \cup {Delete(w) : w \in Wheres} \cup Updates

ASSUME AskedAssumption == Asked \subseteq Statements

Live(page) == Only(page, Row)

Matches(where, page) ==
    {s \in DOMAIN page : page[s] # Gone /\ where[page[s]] = "yes"}

(* Evaluating the clauses over the page's live rows raises on some row.    *)
RaisesOn(st, page) == \E s \in DOMAIN page : page[s] # Gone /\ st.where[page[s]] = Raises

(* Page.update_row on slot s: in place when the width is that of the old   *)
(* row, otherwise delete and insert; "lost" when there is no room.         *)
SameWidth(r1, r2) == (r1 = Wide) <=> (r2 = Wide)
UpdateRow(page, s, new) ==
    IF SameWidth(page[s], new)
    THEN [page |-> [page EXCEPT ![s] = new], lost |-> FALSE]
    ELSE IF Len(page) < RowsPerPage
         THEN [page |-> Append([page EXCEPT ![s] = Gone], new), lost |-> FALSE]
         ELSE [page |-> [page EXCEPT ![s] = Gone], lost |-> TRUE]

(* The second loop of update_where: the changes one after the other, until *)
(* one finds no room.                                                      *)
Updated(st, page) ==
    LET done[s \in 0 .. Len(page)] ==
            IF s = 0 THEN [page |-> page, lost |-> FALSE]
            ELSE IF done[s - 1].lost \/ s \notin Matches(st.where, page)
            THEN done[s - 1]
            ELSE UpdateRow(done[s - 1].page, s, st.set[page[s]])
    IN  done[Len(page)]

Deleted(st, page) ==
    [s \in DOMAIN page |->
        IF s \in Matches(st.where, page) THEN Gone ELSE page[s]]

-----------------------------------------------------------------------------
Answer(n, list) == [ok |-> TRUE, count |-> n, rows |-> list]
NoAnswer == Answer(0, <<>>)
Error == [ok |-> FALSE, count |-> 0, rows |-> <<>>]

Init ==
    /\ Pool!Init
    /\ count = 1
    /\ stmt = Scan
    /\ pc = "idle"
    /\ at = 1
    /\ me = CHOOSE u \in Users : TRUE
    /\ soFar = NoAnswer /\ answer = NoAnswer
    /\ start = [p \in Pages |-> <<>>]
    /\ raised = 0 /\ upset = FALSE

(* The call returns, or raises: its locals are gone.                       *)
Returned ==
    /\ pc' = "idle"
    /\ stmt' = Scan
    /\ at' = 1
    /\ soFar' = NoAnswer
    /\ start' = [p \in Pages |-> <<>>]

(* The bound: no INSERT once MaxPages pages are full.                      *)
RoomFor(st) ==
    st.kind = "insert" /\ count > MaxPages =>
        Len(Pool!View[count - 1]) < RowsPerPage

(* The bound Users: a statement begins while fewer pages than that are     *)
(* left pinned, so that there is a hold for its loop.                      *)
Free == CHOOSE u \in Users : holds[u] = NoPage
IsFree == \E u \in Users : holds[u] = NoPage

Begin(st) ==
    /\ pc = "idle"
    /\ RoomFor(st)
    /\ IsFree
    /\ stmt' = st
    /\ at' = 1
    /\ pc' = "get"
    /\ soFar' = NoAnswer /\ answer' = NoAnswer
    /\ start' = Pool!View
    /\ UNCHANGED <<poolVars, count, me, raised, upset>>

(* INSERT of a value out of range, or of a row wider than a page, is       *)
(* refused before the table's file is looked at.                           *)
InsertRefused ==
    /\ pc = "idle"
    /\ Failing
    /\ answer' = Error
    /\ UNCHANGED <<poolVars, count, stmt, pc, at, me, soFar, start, raised, upset>>

GetPage ==
    /\ pc = "get"
    /\ at < count
    /\ me' = Free
    /\ \/ Pool!GetHit(Free, at)
       \/ Pool!GetMiss(Free, at)
       \/ \E victim \in DOMAIN frame : Pool!GetEvict(Free, at, victim)
    /\ pc' = "work"
    /\ UNCHANGED <<count, stmt, at, soFar, answer, start, raised, upset>>

GetRefused ==
    /\ pc = "get"
    /\ at < count
    /\ Pool!GetRefused(Free, at)
    /\ answer' = Error
    /\ Returned
    /\ upset' = TRUE
    /\ UNCHANGED <<count, me, raised>>

(* INSERT has found no room: allocate_page writes an empty page and counts *)
(* it, and the loop goes on to that page.                                  *)
AllocatePage ==
    /\ pc = "get"
    /\ stmt.kind = "insert"
    /\ at = count
    /\ disk' = [disk EXCEPT ![count] = <<>>]
    /\ count' = count + 1
    /\ UNCHANGED <<order, frame, holds, wrote, policy, restarts,
                   stmt, pc, at, me, soFar, answer, start, raised, upset>>

Return ==
    /\ pc = "get"
    /\ stmt.kind # "insert"
    /\ at = count
    /\ answer' = soFar
    /\ Returned
    /\ UNCHANGED <<poolVars, count, me, raised, upset>>

-----------------------------------------------------------------------------
(* What a statement does to the page it holds.                             *)
Here == frame[at].page
NextStep ==
    pc' = "unpin" /\ UNCHANGED <<count, stmt, at, me, answer, start, raised, upset>>

HasRoom == Len(Here) < RowsPerPage

(* Faulty variant: the page is unpinned as if it were unchanged.           *)
InsertRowUnmarked ==
    /\ stmt.kind = "insert"
    /\ HasRoom
    /\ frame' = [frame EXCEPT ![at].page = Append(Here, stmt.row)]
    /\ soFar' = Answer(1, <<>>)
    /\ UNCHANGED <<order, disk, holds, wrote, policy, restarts>>

InsertRow ==
    /\ stmt.kind = "insert"
    /\ HasRoom
    /\ Pool!Change(me, Append(Here, stmt.row))
    /\ soFar' = Answer(1, <<>>)

PageFull ==
    /\ stmt.kind = "insert"
    /\ ~ HasRoom
    /\ UNCHANGED <<poolVars, soFar>>

(* Faulty variant: the rows of the last page replace those before.         *)
ScanPageForgets ==
    /\ stmt.kind = "scan"
    /\ soFar' = Answer(0, Live(Here))
    /\ UNCHANGED poolVars

ScanPage ==
    /\ stmt.kind = "scan"
    /\ soFar' = Answer(0, soFar.rows \o Live(Here))
    /\ UNCHANGED poolVars

(* Nothing on the page matches: it is not marked dirty.                    *)
NothingMatches ==
    /\ stmt.kind \in {"delete", "update"}
    /\ ~ RaisesOn(stmt, Here)
    /\ Matches(stmt.where, Here) = {}
    /\ UNCHANGED <<poolVars, soFar>>

Counted == Answer(soFar.count + Cardinality(Matches(stmt.where, Here)), <<>>)

DeleteRows ==
    /\ stmt.kind = "delete"
    /\ ~ RaisesOn(stmt, Here)
    /\ Matches(stmt.where, Here) # {}
    /\ Pool!Change(me, Deleted(stmt, Here))
    /\ soFar' = Counted

UpdateRows ==
    /\ stmt.kind = "update"
    /\ ~ RaisesOn(stmt, Here)
    /\ Matches(stmt.where, Here) # {}
    /\ ~ Updated(stmt, Here).lost
    /\ Pool!Change(me, Updated(stmt, Here).page)
    /\ soFar' = Counted

Work ==
    /\ pc = "work"
    /\ \/ InsertRow \/ PageFull \/ ScanPage
       \/ NothingMatches \/ DeleteRows \/ UpdateRows
    /\ NextStep

(* The statement raises with the page still pinned: no finally unpins it.  *)
Abandon ==
    /\ answer' = Error
    /\ Returned
    /\ raised' = raised + 1
    /\ upset' = TRUE
    /\ UNCHANGED <<count, me>>

(* Faulty variant: rows are deleted while the page is read.                *)
ClauseRaisesHalfWay ==
    /\ pc = "work"
    /\ stmt.kind \in {"delete", "update"}
    /\ RaisesOn(stmt, Here)
    /\ Pool!Change(me, [s \in DOMAIN Here |->
                          IF s = 1 /\ s \in Matches(stmt.where, Here)
                          THEN Gone ELSE Here[s]])
    /\ Abandon

ClauseRaises ==
    /\ pc = "work"
    /\ stmt.kind \in {"delete", "update"}
    /\ RaisesOn(stmt, Here)
    /\ UNCHANGED poolVars
    /\ Abandon

(* decode_row raises on a row that an UPDATE made too wide.                *)
ScanRaises ==
    /\ pc = "work"
    /\ stmt.kind = "scan"
    /\ Failing
    /\ \E s \in DOMAIN Here : Here[s] = Wide
    /\ UNCHANGED poolVars
    /\ Abandon

UpdateFindsNoRoom ==
    /\ pc = "work"
    /\ stmt.kind = "update"
    /\ ~ RaisesOn(stmt, Here)
    /\ Updated(stmt, Here).lost
    /\ Pool!Change(me, Updated(stmt, Here).page)
    /\ Abandon

NextPage == pc' = "get" /\ at' = at + 1 /\ UNCHANGED <<stmt, soFar, answer, start>>

(* Faulty variant: INSERT returns without unpinning the page.              *)
UnpinPageUnlessInserted ==
    /\ pc = "unpin"
    /\ IF stmt.kind = "insert" /\ soFar.count = 1
       THEN Returned /\ answer' = soFar /\ UNCHANGED poolVars
       ELSE Pool!Unpin(me) /\ NextPage
    /\ UNCHANGED <<count, me, raised, upset>>

UnpinPage ==
    /\ pc = "unpin"
    /\ Pool!Unpin(me)
    /\ IF stmt.kind = "insert" /\ soFar.count = 1
       THEN Returned /\ answer' = soFar
       ELSE NextPage
    /\ UNCHANGED <<count, me, raised, upset>>

-----------------------------------------------------------------------------
Flush ==
    /\ pc = "idle"
    /\ Pool!FlushAll
    /\ UNCHANGED <<count, stmt, pc, at, me, soFar, answer, start, raised, upset>>

(* close() flushes; the next open starts with an empty pool.               *)
Reopen ==
    /\ pc = "idle"
    /\ disk' = Pool!WrittenBack(Pool!DirtyPages)
    /\ order' = <<>>
    /\ frame' = Pool!Dropped(Pages)
    /\ holds' = [u \in Users |-> NoPage]
    /\ wrote' = [u \in Users |-> FALSE]
    /\ raised' = 0
    /\ UNCHANGED <<policy, restarts, count, stmt, pc, at, me, soFar, answer, start, upset>>

(* The process is killed and the database opened again.                    *)
Kill ==
    /\ Pool!Restart
    /\ Returned
    /\ answer' = NoAnswer
    /\ raised' = 0
    /\ upset' = TRUE
    /\ UNCHANGED <<count, me>>

Next ==
    \/ \E st \in Asked : Begin(st)
    \/ InsertRefused
    \/ GetPage \/ GetRefused \/ AllocatePage \/ Return
    \/ Work \/ ClauseRaises \/ ScanRaises \/ UpdateFindsNoRoom
    \/ UnpinPage
    \/ Flush \/ Reopen \/ Kill

Spec == Init /\ [][Next]_vars

-----------------------------------------------------------------------------
(* PageOrFile: an unchanged frame equals its page in the file, also while  *)
(* a statement is under way and after one has failed (the invariant of the *)
(* pool, under the calls the engine really makes).                         *)
PageOrFile == Pool!Coherence

(* PinsAreAccounted: no more pages are pinned than statements raised with  *)
(* a page in hand since the table was opened, one more while the loop      *)
(* holds its page: a statement that ends well, is refused a page or is     *)
(* refused as a whole leaves none, whatever its pages went through.  Code  *)
(* that unpins in a finally would keep to it too.                          *)
Pins == Cardinality({u \in Users : holds[u] # NoPage})
InHand == IF pc \in {"work", "unpin"} THEN 1 ELSE 0

PinsAreAccounted == Pins <= raised + InHand

(* PinsAreReturned: contracts/storage-api.md:53 asks for an unpin in a     *)
(* finally after each successful get_page, so no page would be pinned      *)
(* between statements.  scan, delete_where and update_where have no        *)
(* finally.                                                                *)
PinsAreReturned == pc = "idle" => Pins = 0

(* The rows of the table, in the order a scan would return them.           *)
RowsUpTo(pages, n) ==
    LET rows[p \in 0 .. n] == IF p = 0 THEN <<>> ELSE rows[p - 1] \o Live(pages[p])
    IN  rows[n]
RowsIn(pages) == RowsUpTo(pages, count - 1)

(* PagewiseProgress: a DELETE or an UPDATE that raises leaves every page   *)
(* before the failing one with all its matching rows changed, those after  *)
(* it as they were, and the failing page too unless a widened row found no *)
(* room on it: a clause that raises never leaves half a page.              *)
Outcome(st, page) ==
    CASE st.kind = "delete" -> Deleted(st, page)
      [] st.kind = "update" -> Updated(st, page).page
      [] OTHER -> page

FailedPagewise ==
    \A p \in 1 .. count - 1 :
        \/ /\ p <= at /\ Pool!View'[p] = Outcome(stmt, start[p])
           /\ p = at => stmt.kind = "update" /\ Updated(stmt, start[p]).lost
        \/ p >= at /\ Pool!View'[p] = start[p]

PagewiseProgress ==
    [][stmt.kind \in {"delete", "update"} /\ ~ answer'.ok => FailedPagewise]_vars

(* TableIsARowList: whatever the size of the pool, and with any flushes    *)
(* and reopenings in between, statements act on the table as on a list of  *)
(* rows and report what they did: no row is lost, doubled or skipped by an *)
(* eviction in the middle of a statement.  Only a statement that raises    *)
(* (PagewiseProgress) and a kill may leave other rows; an UPDATE that lost *)
(* a row for want of room left its page unmarked, and a reopening may      *)
(* bring the row back.  After one or the other a page before the last may  *)
(* have room: INSERT puts a row where it finds room, at the end if neither *)
(* has happened.                                                           *)
Table == INSTANCE TableStore WITH
    rows <- RowsIn(IF pc = "idle" THEN Pool!View ELSE start),
    pending <- pc # "idle",
    failed <- raised, kills <- restarts

TableIsARowList == Table!Spec
=============================================================================

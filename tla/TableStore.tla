----------------------------- MODULE TableStore -----------------------------
(***************************************************************************)
(* What the storage engine promises of one table, with no pages and no     *)
(* pool: a list of rows.  A statement is asked, and answered by one change *)
(* of the whole list and the truth about what it did.                      *)
(*                                                                         *)
(* stmt.where maps a row to "yes", "no" or "raises", stmt.set to the row   *)
(* an UPDATE makes of it.  A statement may fail, and the process may be    *)
(* killed; what is left of the rows is then not promised here, nor what    *)
(* the next opening makes of the rows a failed statement has left.         *)
(***************************************************************************)
EXTENDS Naturals, SequencesExt, Lists

CONSTANT
    Statements,
    SameWidth(_, _)     \* whether a row may take the place of another

VARIABLES
    rows,               \* the table, in the order a scan returns it
    stmt, pending,      \* the statement under way, and whether there is one
    answer,             \* what the last statement returned, once it has
    failed, kills,      \* statements that left a page pinned; kills
    upset               \* whether a statement ever failed under way or the
                        \* process was killed

vars == <<rows, stmt, pending, answer, failed, kills, upset>>

NoRows == <<>>
NoStatement == [kind |-> "scan"]
Answer(n, list) == [ok |-> TRUE, count |-> n, rows |-> list]

Init ==
    /\ rows = NoRows
    /\ stmt = NoStatement
    /\ pending = FALSE
    /\ answer = Answer(0, NoRows)
    /\ failed = 0 /\ kills = 0 /\ upset = FALSE

Ask(st) ==
    /\ ~ pending
    /\ stmt' = st
    /\ pending' = TRUE
    /\ answer' = Answer(0, NoRows)
    /\ UNCHANGED <<rows, failed, kills, upset>>

(* A statement refused before it is under way changes nothing.             *)
Refuse ==
    /\ ~ pending
    /\ ~ answer'.ok
    /\ UNCHANGED <<rows, stmt, pending, failed, kills, upset>>

Reply(kind) ==
    /\ pending
    /\ stmt.kind = kind
    /\ pending' = FALSE
    /\ stmt' = NoStatement
    /\ UNCHANGED <<failed, kills, upset>>

(* A failure or a kill may leave room before the last rows.                *)
Insert ==
    /\ Reply("insert")
    /\ IF upset THEN \E i \in 1 .. Len(rows) + 1 : rows' = InsertAt(rows, i, stmt.row)
                ELSE rows' = Append(rows, stmt.row)
    /\ answer' = Answer(1, NoRows)

Scan ==
    /\ Reply("scan")
    /\ answer' = Answer(0, rows)
    /\ UNCHANGED rows

Satisfying == {v \in DOMAIN stmt.where : stmt.where[v] = "yes"}
Matching == Only(rows, Satisfying)

Delete ==
    /\ Reply("delete")
    /\ rows' = Only(rows, DOMAIN stmt.where \ Satisfying)
    /\ answer' = Answer(Len(Matching), NoRows)

Copies(v, list) == Len(Only(list, {v}))

(* A row of another width moves; the order of the others is kept.          *)
Update ==
    LET new(v) == IF v \in Satisfying THEN stmt.set[v] ELSE v
        list == [i \in DOMAIN rows |-> new(rows[i])]
    IN  /\ Reply("update")
        /\ IF \A i \in DOMAIN rows : SameWidth(rows[i], list[i])
           THEN rows' = list
           ELSE \A v \in Range(rows') \cup Range(list) : Copies(v, rows') = Copies(v, list)
        /\ answer' = Answer(Len(Matching), NoRows)

Fail ==
    /\ pending
    /\ pending' = FALSE
    /\ stmt' = NoStatement
    /\ ~ answer'.ok
    /\ failed' \in {failed, failed + 1}
    /\ upset' = TRUE
    /\ UNCHANGED kills

Reopen ==
    /\ ~ pending
    /\ failed > 0
    /\ failed' = 0
    /\ UNCHANGED <<stmt, pending, answer, kills, upset>>

Kill ==
    /\ kills' = kills + 1
    /\ failed' = 0
    /\ upset' = TRUE
    /\ stmt' = NoStatement
    /\ pending' = FALSE
    /\ answer' = Answer(0, NoRows)

Next ==
    \/ \E st \in Statements : Ask(st)
    \/ Refuse \/ Insert \/ Scan \/ Delete \/ Update \/ Fail \/ Reopen \/ Kill

Spec == Init /\ [][Next]_vars
=============================================================================

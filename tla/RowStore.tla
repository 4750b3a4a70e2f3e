------------------------------ MODULE RowStore ------------------------------
(***************************************************************************)
(* What a page promises to the code above it, with no bytes in sight: a    *)
(* numbered list of rows.  A number, once given out, names the same row    *)
(* for ever; deleting a row empties its number and never frees it.  `saved`*)
(* is the list as of the last serialisation, the one a reload brings back. *)
(***************************************************************************)
EXTENDS Sequences, Naturals

CONSTANTS
    Rows,       \* the row contents a caller may store
    NoRow       \* content of an emptied number

VARIABLES
    rows,       \* rows[s] is the content of number s, NoRow once deleted
    saved,      \* the list a reload brings back
    result      \* the number the last operation returned, 0 for Python's None

vars == <<rows, saved, result>>

TypeOK ==
    /\ rows \in Seq(Rows \cup {NoRow})
    /\ saved \in Seq(Rows \cup {NoRow})
    /\ result \in Nat

Init ==
    /\ rows = <<>>
    /\ saved = <<>>
    /\ result = 0

(* A new row takes the next number... *)
Insert(r) ==
    /\ rows' = Append(rows, r)
    /\ result' = Len(rows) + 1
    /\ UNCHANGED saved

(* ... or there is no room, and nothing changes. *)
Refuse ==
    /\ result' = 0
    /\ UNCHANGED <<rows, saved>>

Delete(s) ==
    /\ rows' = [rows EXCEPT ![s] = NoRow]
    /\ UNCHANGED <<saved, result>>

(* An update keeps the number of the row ... *)
Rewrite(s, r) ==
    /\ rows[s] # NoRow
    /\ rows' = [rows EXCEPT ![s] = r]
    /\ result' = s
    /\ UNCHANGED saved

(* ... or moves it to the next one ... *)
Move(s, r) ==
    /\ rows' = Append([rows EXCEPT ![s] = NoRow], r)
    /\ result' = Len(rows) + 1
    /\ UNCHANGED saved

(* ... or reports that there was no room; the old row is gone by then. *)
MoveRefused(s) ==
    /\ rows' = [rows EXCEPT ![s] = NoRow]
    /\ result' = 0
    /\ UNCHANGED saved

Save ==
    /\ saved' = rows
    /\ UNCHANGED <<rows, result>>

Reload ==
    /\ rows' = saved
    /\ UNCHANGED <<saved, result>>

Next ==
    \/ \E r \in Rows : Insert(r)
    \/ Refuse
    \/ \E s \in DOMAIN rows : Delete(s)
    \/ \E s \in DOMAIN rows, r \in Rows : Rewrite(s, r)
    \/ \E s \in DOMAIN rows, r \in Rows : Move(s, r)
    \/ \E s \in DOMAIN rows : MoveRefused(s)
    \/ Save
    \/ Reload

Spec == Init /\ [][Next]_vars
=============================================================================
